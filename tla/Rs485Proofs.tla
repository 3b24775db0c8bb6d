----------------------------- MODULE Rs485Proofs -----------------------------
(***************************************************************************)
(* Proofs about Rs485 for all sensors, registers, masters and times that   *)
(* satisfy TimeAssumption.  Type correctness bounds a transaction, from    *)
(* its echo on, by the timeout whatever the masters do.  With patient masters and until an     *)
(* answer is damaged every answer is the one asked for, and the polling    *)
(* fails only for sensors that do not answer: then the guard outlasts      *)
(* every late answer, and the timeout of the last transaction has run out  *)
(* before the polling starts the next one.                                 *)
(*                                                                         *)
(* Then proofs about Frame and TcpFrame for all bytes and all Sample.  The *)
(* receiver is a function that recurs along its line, as the CRC is one    *)
(* along its bytes: what they compute is proved by induction over a set    *)
(* of numbers, from the well-foundedness of < on Nat.                      *)
(***************************************************************************)
EXTENDS Rs485Frames, WellFoundedInduction, SequenceTheorems, TLAPS

(* While the receiver waits, either the flag is set or the timer runs, and *)
(* what is left of it never goes beyond the timeout.                       *)
Bounded ==
  Receiving => timer + waited =< Timeout /\ (timeout \/ timer > 0)

TypeInv == TypeOK /\ Bounded

LEMMA Times ==
  /\ Timeout \in Nat /\ Timeout > 0
  /\ MaxLatency \in Nat /\ MaxLatency < Timeout
  /\ PollingTime \in Nat /\ PollingTime >= Timeout
  /\ GuardTime \in Nat /\ GuardTime >= Timeout
  /\ FailureTime \in 1..PollingTime
BY TimeAssumption

LEMMA RunningTimer ==
  ASSUME NEW t \in 1..Timeout
  PROVE  t \in 0..Timeout /\ t + 0 =< Timeout /\ t > 0
BY Times

LEMMA StartedTimer ==
  ASSUME TypeOK, KickOff
  PROVE  timer' \in 1..Timeout /\ timeout' = FALSE
BY Times DEF TypeOK, KickOff, StartTimer

LEMMA StartedGuard ==
  ASSUME TypeOK
  PROVE  StartTimer(guard, GuardTime) \in 0..GuardTime
BY Times DEF TypeOK, StartTimer

LEMMA FinishType ==
  ASSUME TypeOK, NEW how \in {"answer", "timeout", "crc"}, Finish(how)
  PROVE  /\ waiting' = FALSE
         /\ outcome' = how
         /\ pause' \in 0..PollingTime
         /\ guard' \in 0..GuardTime
<1>1. PollingTime \in 0..PollingTime /\ FailureTime \in 0..PollingTime
  BY Times
<1>2. QED
  BY <1>1, StartedGuard DEF TypeOK, Finish, Paused

LEMMA SendType ==
  ASSUME TypeOK, NEW r \in Request, Send(r), clean' \in BOOLEAN
  PROVE  TypeInv'
<1>1. line' \subseteq [sensor : Sensor, register : Register, due : 1..MaxLatency]
  BY DEF Send, TypeOK, Request
<1>2. /\ waiting' = TRUE /\ missing' \in BOOLEAN /\ request' \in Request
      /\ rx' = {} /\ astray' = FALSE /\ silent' \in BOOLEAN /\ waited' = 0
      /\ UNCHANGED <<pause, guard, outcome, got>>
  BY DEF Send
<1>3. 0 \in 0..Timeout
  BY Times
<1>4. CASE missing' = FALSE /\ KickOff
  <2>1. timer' \in 1..Timeout /\ timeout' = FALSE
    BY <1>4, StartedTimer
  <2>2. timer' \in 0..Timeout /\ timer' + 0 =< Timeout /\ timer' > 0
    BY <2>1, RunningTimer, Zenon
  <2>3. TypeOK'
    BY <1>1, <1>2, <1>3, <2>1, <2>2 DEF TypeOK
  <2>4. Bounded'
    BY <1>2, <2>2 DEF Bounded
  <2>5. QED
    BY <2>3, <2>4 DEF TypeInv
<1>5. CASE missing' = TRUE /\ UNCHANGED <<timer, timeout>>
  <2>1. TypeOK'
    BY <1>1, <1>2, <1>3, <1>5 DEF TypeOK
  <2>2. Bounded'
    BY <1>5 DEF Bounded, Receiving
  <2>3. QED
    BY <2>1, <2>2 DEF TypeInv
<1>6. QED
  BY <1>4, <1>5 DEF Send

LEMMA EchoType ==
  ASSUME TypeInv, EchoShort \/ EchoFilled
  PROVE  TypeInv'
<1>1. CASE EchoShort
  BY <1>1 DEF EchoShort, TypeInv, TypeOK, Bounded, Receiving
<1>2. CASE EchoFilled
  <2>1. timer' \in 1..Timeout /\ timeout' = FALSE
    BY <1>2, StartedTimer DEF EchoFilled, TypeInv
  <2>2. timer' \in 0..Timeout /\ timer' + 0 =< Timeout /\ timer' > 0
    BY <2>1, RunningTimer, Zenon
  <2>3. PICK f \in rx :
          rx' \in {rx \ {f}, (rx \ {f}) \cup {[f EXCEPT !.good = FALSE]}}
    BY <1>2 DEF EchoFilled
  <2>4. rx \subseteq [sensor : Sensor, register : Register, good : BOOLEAN]
    BY DEF TypeInv, TypeOK
  <2>5. [f EXCEPT !.good = FALSE] \in [sensor : Sensor, register : Register, good : BOOLEAN]
    BY <2>4
  <2>6. rx' \subseteq [sensor : Sensor, register : Register, good : BOOLEAN]
    BY <2>3, <2>4, <2>5
  <2>7. waited' \in 0..Timeout
    BY <1>2, Times DEF EchoFilled
  <2>8. TypeOK'
    BY <1>2, <2>1, <2>2, <2>6, <2>7 DEF EchoFilled, TypeInv, TypeOK
  <2>9. Bounded'
    BY <1>2, <2>2 DEF EchoFilled, Bounded
  <2>10. QED
    BY <2>8, <2>9 DEF TypeInv
<1>3. QED
  BY <1>1, <1>2

LEMMA TickLine ==
  ASSUME TypeOK, Tick
  PROVE  /\ line' \subseteq [sensor : Sensor, register : Register, due : 1..MaxLatency]
         /\ rx' \subseteq [sensor : Sensor, register : Register, good : BOOLEAN]
<1>1. ASSUME NEW a \in line, a.due # 1
      PROVE  [a EXCEPT !.due = @ - 1]
                \in [sensor : Sensor, register : Register, due : 1..MaxLatency]
  <2>1. a \in [sensor : Sensor, register : Register, due : 1..MaxLatency]
    BY DEF TypeOK
  <2>2. a.due - 1 \in 1..MaxLatency
    BY <1>1, <2>1, Times
  <2>3. QED
    BY <2>1, <2>2
<1>2. line' \subseteq [sensor : Sensor, register : Register, due : 1..MaxLatency]
  BY <1>1 DEF Tick, Arriving
<1>3. rx' \subseteq [sensor : Sensor, register : Register, good : BOOLEAN]
  <2>1. PICK damaged \in SUBSET Arriving :
          rx' = rx \cup
            {[sensor |-> a.sensor, register |-> a.register,
              good |-> a \notin damaged] : a \in Arriving}
    BY DEF Tick
  <2>2. ASSUME NEW a \in Arriving
        PROVE  a.sensor \in Sensor /\ a.register \in Register
    BY DEF Arriving, TypeOK
  <2>3. ASSUME NEW a \in Arriving
        PROVE  (a \notin damaged) \in BOOLEAN
    OBVIOUS
  <2>4. rx \subseteq [sensor : Sensor, register : Register, good : BOOLEAN]
    BY DEF TypeOK
  <2>5. ASSUME NEW a \in Arriving
        PROVE  [sensor |-> a.sensor, register |-> a.register,
                good |-> a \notin damaged]
                  \in [sensor : Sensor, register : Register, good : BOOLEAN]
    BY <2>2, <2>3
  <2>6. QED
    BY <2>1, <2>4, <2>5
<1>4. QED
  BY <1>2, <1>3

LEMMA TickType ==
  ASSUME TypeInv, Tick
  PROVE  TypeInv'
<1> USE Times
<1>1. timer' \in 0..Timeout /\ pause' \in 0..PollingTime /\ guard' \in 0..GuardTime
  BY DEF TypeInv, TypeOK, Tick, OneLess
<1>2. timeout' \in BOOLEAN
  BY DEF Tick
<1>3. /\ waited' \in 0..Timeout
      /\ Bounded'
  <2>1. CASE Receiving
    <3>1. timeout = FALSE
      BY <2>1 DEF Tick, TypeInv, TypeOK
    <3>2. timer \in 1..Timeout /\ waited \in 0..Timeout /\ timer + waited =< Timeout
      BY <2>1, <3>1 DEF TypeInv, TypeOK, Bounded
    <3>3. timer' = timer - 1 /\ waited' = waited + 1
      BY <2>1, <3>2 DEF Tick, OneLess
    <3>4. timer = 1 => timeout'
      BY DEF Tick
    <3>5. waited' \in 0..Timeout
      BY <3>2, <3>3
    <3>6. (timer - 1) + (waited + 1) =< Timeout /\ (timer # 1 => timer - 1 > 0)
      BY <3>2
    <3>7. QED
      BY <3>3, <3>4, <3>5, <3>6 DEF Bounded
  <2>2. CASE ~Receiving
    BY <2>2 DEF Tick, TypeInv, TypeOK, Bounded, Receiving
  <2>3. QED
    BY <2>1, <2>2
<1>4. TypeOK'
  BY <1>1, <1>2, <1>3, TickLine DEF TypeInv, TypeOK, Tick
<1>5. QED
  BY <1>3, <1>4 DEF TypeInv

LEMMA ReceiveType ==
  ASSUME TypeInv, Receive
  PROVE  TypeInv'
<1>1. CASE SkipFrame
  BY <1>1 DEF SkipFrame, TypeInv, TypeOK, Bounded, Receiving
<1>2. CASE Answer
  <2>1. Finish("answer")
    BY <1>2 DEF Answer
  <2>2. QED
    BY <1>2, <2>1, FinishType DEF Answer, TypeInv, TypeOK, Bounded, Receiving
<1>3. CASE CrcError
  <2>1. Finish("crc")
    BY <1>3 DEF CrcError
  <2>2. QED
    BY <1>3, <2>1, FinishType DEF CrcError, TypeInv, TypeOK, Bounded, Receiving
<1>4. CASE TimedOut
  <2>1. Finish("timeout")
    BY <1>4 DEF TimedOut
  <2>2. QED
    BY <1>4, <2>1, FinishType DEF TimedOut, TypeInv, TypeOK, Bounded, Receiving
<1>5. CASE EchoShort \/ EchoFilled
  BY <1>5, EchoType
<1>6. QED
  BY <1>1, <1>2, <1>3, <1>4, <1>5 DEF Receive

LEMMA InitType == Init => TypeInv
<1> SUFFICES ASSUME Init PROVE TypeInv
  OBVIOUS
<1>1. request \in Request /\ request.register \in Register
  BY DEF Init, Request
<1>2. 0 \in 0..Timeout /\ 0 \in 0..PollingTime /\ 0 \in 0..GuardTime
  BY Times
<1>3. TypeOK
  BY <1>1, <1>2, Zenon DEF Init, TypeOK
<1>4. Bounded
  BY DEF Init, Bounded, Receiving
<1>5. QED
  BY <1>3, <1>4 DEF TypeInv

LEMMA NextType == TypeInv /\ [Next]_vars => TypeInv'
<1> SUFFICES ASSUME TypeInv, [Next]_vars PROVE TypeInv'
  OBVIOUS
<1> clean \in BOOLEAN
  BY DEF TypeInv, TypeOK
<1>1. CASE Poll
  BY <1>1, SendType DEF Poll, TypeInv
<1>2. CASE Bypass
  BY <1>2, SendType DEF Bypass, TypeInv
<1>11. CASE Command
  <2>1. clean' \in BOOLEAN
    BY <1>11 DEF Command
  <2>2. QED
    BY <1>11, <2>1, SendType DEF Command, TypeInv
<1>3. CASE OwnRequest
  BY <1>3, StartedGuard DEF OwnRequest, TypeInv, TypeOK, Bounded, Receiving
<1>4. CASE Receive
  BY <1>4, ReceiveType
<1>5. CASE Tick
  BY <1>5, TickType
<1>6. CASE UNCHANGED vars
  BY <1>6 DEF vars, TypeInv, TypeOK, Bounded, Receiving
<1>7. QED
  BY <1>1, <1>2, <1>3, <1>4, <1>5, <1>6, <1>11 DEF Next

LEMMA TypeInvariant == Spec => []TypeInv
BY InitType, NextType, PTL DEF Spec

(* Type correctness: above all, no transaction outlasts the timeout once   *)
(* its echo has come.                                                      *)
THEOREM TypeCorrect == Spec => []TypeOK
<1>1. TypeInv => TypeOK
  BY DEF TypeInv
<1>2. QED
  BY <1>1, TypeInvariant, PTL

-----------------------------------------------------------------------------
(* With patient masters and a line without noise.                          *)

(* Between transactions: the timer of the last one runs no longer than the *)
(* pause or the guard, and every late answer comes before the guard ends.  *)
Quiet ==
  ~waiting => /\ timer =< guard \/ timer =< pause
              /\ \A a \in line : a.due =< guard

(* While it receives there is at most one answer, on the line or received, *)
(* and it is to this request and in time.                                  *)
Private ==
  Receiving =>
    /\ guard = 0 /\ ~astray /\ request.from # "command"
    /\ \A a \in line : /\ a.sensor = request.sensor
                       /\ a.register = request.register
                       /\ a.due =< MaxLatency - waited
    /\ \A a, b \in line : a = b
    /\ \A f \in rx : /\ f.sensor = request.sensor
                     /\ f.register = request.register
                     /\ f.good = TRUE
    /\ rx # {} => line = {} /\ waited =< MaxLatency
    /\ ~silent => line # {} \/ rx # {}

(* A transaction of the polling has its own timeout from the beginning.    *)
Undisturbed ==
  Receiving /\ request.from = "poll" =>
    waited = IF timeout THEN Timeout ELSE Timeout - timer

Inv == TypeInv /\ Quiet /\ Private /\ Undisturbed /\ AnswerBelongs /\ PollFaultReal

LEMMA InitInv == Init => Inv
<1> SUFFICES ASSUME Init PROVE Inv
  OBVIOUS
<1>1. TypeInv
  BY InitType
<1>2. Quiet /\ Private /\ Undisturbed /\ AnswerBelongs /\ PollFaultReal
  BY DEF Init, Quiet, Private, Undisturbed, AnswerBelongs, PollFaultReal, Receiving
<1>3. QED
  BY <1>1, <1>2 DEF Inv

(* A request goes out on a line that is free of late answers.              *)
LEMMA SendPrivate ==
  ASSUME Inv, guard = 0, NEW r \in Request, Send(r), r.from # "command"
  PROVE  Private'
<1> USE DEF Inv
<1>1. /\ request' = r /\ rx' = {} /\ waited' = 0 /\ guard' = 0 /\ astray' = FALSE
  BY DEF Send
<1>2. line = {}
  <2>1. \A a \in line : a.due \in 1..MaxLatency /\ a.due =< 0
    BY DEF Send, Quiet, TypeInv, TypeOK
  <2>2. QED
    BY <2>1, Times
<1>3. CASE silent' = TRUE /\ line' = line
  BY <1>1, <1>2, <1>3 DEF Private
<1>4. CASE \E l \in 1..MaxLatency :
             /\ silent' = FALSE
             /\ line' = line \cup {[sensor |-> r.sensor,
                                   register |-> r.register, due |-> l]}
  <2>1. PICK l \in 1..MaxLatency :
             /\ silent' = FALSE
             /\ line' = line \cup {[sensor |-> r.sensor,
                                   register |-> r.register, due |-> l]}
    BY <1>4
  <2>2. l =< MaxLatency - 0
    BY Times
  <2>3. line' = {[sensor |-> r.sensor, register |-> r.register, due |-> l]}
    BY <1>2, <2>1
  <2>4. \A a \in line' : /\ a.sensor = r.sensor /\ a.register = r.register
                         /\ a.due =< MaxLatency - 0
    BY <2>2, <2>3
  <2>5. \A a, b \in line' : a = b
    BY <2>3
  <2>6. line' # {}
    BY <2>3
  <2>7. QED
    BY <1>1, <2>4, <2>5, <2>6 DEF Private
<1>5. QED
  BY <1>3, <1>4 DEF Send

(* Its timeout is its own from the beginning, if it is one of the polling. *)
LEMMA SendUndisturbed ==
  ASSUME Inv, guard = 0, NEW r \in Request, Send(r), KickOff,
         r.from = "poll" => pause = 0
  PROVE  Undisturbed'
<1> USE DEF Inv
<1>1. request' = r /\ waited' = 0
  BY DEF Send
<1>2. CASE r.from = "poll"
  <2>1. timer = 0
    BY <1>2, Times DEF Send, Quiet, TypeInv, TypeOK
  <2>2. timer' = Timeout /\ timeout' = FALSE
    BY <2>1 DEF Send, KickOff, StartTimer
  <2>3. 0 = Timeout - Timeout
    BY Times
  <2>4. QED
    BY <1>1, <2>2, <2>3 DEF Undisturbed
<1>3. CASE r.from # "poll"
  BY <1>1, <1>3 DEF Undisturbed
<1>4. QED
  BY <1>2, <1>3

LEMMA SendInv ==
  ASSUME Inv, guard = 0, NEW r \in Request, Send(r), UNCHANGED clean,
         r.from = "poll" => pause = 0, r.from # "command"
  PROVE  Inv'
<1> USE DEF Inv
<1>1. TypeInv'
  BY SendType DEF TypeInv, TypeOK
<1>2. waiting' = TRUE
  BY DEF Send
<1>3. Quiet' /\ AnswerBelongs' /\ PollFaultReal'
  BY <1>2 DEF Quiet, AnswerBelongs, PollFaultReal
<1>4. CASE missing' = FALSE /\ KickOff
  BY <1>1, <1>3, <1>4, SendPrivate, SendUndisturbed
<1>5. CASE missing' = TRUE
  BY <1>1, <1>3, <1>5 DEF Private, Undisturbed, Receiving
<1>6. QED
  BY <1>4, <1>5 DEF Send

(* After a bypass the guard is fresh and outlasts timer and late answers.  *)
LEMMA FinishQuiet ==
  ASSUME Inv, Receiving, NEW how \in {"answer", "timeout", "crc"}, Finish(how),
         UNCHANGED <<timer, line>>,
         request.from = "poll" => line = {},
         request.from = "poll" => how = "answer" \/ timer = 0
  PROVE  Quiet'
<1> USE DEF Inv
<1>1. timer \in 0..Timeout /\ \A a \in line : a.due \in 1..MaxLatency
  BY DEF TypeInv, TypeOK
<1>2. CASE request.from = "poll"
  <2>1. timer =< pause'
    <3>1. CASE how = "answer"
      BY <1>1, <1>2, <3>1, Times, PollAssumption DEF Finish, Paused
    <3>2. CASE how # "answer"
      BY <1>1, <1>2, <3>2, Times, PollAssumption DEF Finish, Paused
    <3>3. QED
      BY <3>1, <3>2
  <2>2. QED
    BY <1>2, <2>1 DEF Quiet
<1>3. CASE request.from # "poll"
  <2>1. guard' = GuardTime
    BY <1>3 DEF Finish, Paused, StartTimer, Private
  <2>2. timer =< GuardTime /\ \A a \in line : a.due =< GuardTime
    BY <1>1, Times
  <2>3. QED
    BY <2>1, <2>2 DEF Quiet
<1>4. QED
  BY <1>2, <1>3

LEMMA ReceiveInv ==
  ASSUME Inv, Receive, clean'
  PROVE  Inv'
<1> USE DEF Inv
<1>1. TypeInv' /\ Receiving
  BY ReceiveType DEF Receive, SkipFrame, Answer, CrcError, TimedOut, EchoShort, EchoFilled
<1>2. CASE SkipFrame
  BY <1>1, <1>2 DEF SkipFrame, Whole, Mine, Private
<1>3. CASE Answer
  <2>1. Finish("answer") /\ UNCHANGED <<request, timer, line>>
    BY <1>3 DEF Answer
  <2>2. PICK f \in rx : got' = f.register
    BY <1>3 DEF Answer
  <2>3. f.register = request.register /\ line = {}
    BY <1>1 DEF Private
  <2>4. Quiet'
    BY <1>1, <2>1, <2>3, FinishQuiet
  <2>5. waiting' = FALSE /\ outcome' = "answer"
    BY <2>1 DEF Finish
  <2>6. QED
    BY <1>1, <2>1, <2>2, <2>3, <2>4, <2>5
       DEF Private, Undisturbed, AnswerBelongs, PollFaultReal, Receiving
<1>4. CASE CrcError
  BY <1>1, <1>4 DEF CrcError, Whole, Mine, Private
<1>5. CASE TimedOut
  <2>1. /\ Finish("timeout") /\ timeout
        /\ UNCHANGED <<request, timer, line, silent>>
    BY <1>5 DEF TimedOut
  <2>2. ASSUME request.from = "poll"
        PROVE  timer = 0 /\ line = {} /\ silent
    <3>1. waited = Timeout
      BY <1>1, <2>1, <2>2 DEF Undisturbed
    <3>2. timer = 0
      BY <1>1, <3>1, Times DEF TypeInv, TypeOK, Bounded
    <3>3. \A a \in line : a.due \in 1..MaxLatency /\ a.due =< MaxLatency - Timeout
      BY <1>1, <3>1 DEF Private, TypeInv, TypeOK
    <3>4. line = {}
      BY <3>3, Times
    <3>5. rx = {}
      BY <1>1, <3>1, Times DEF Private
    <3>6. QED
      BY <1>1, <3>2, <3>4, <3>5 DEF Private, TypeInv, TypeOK
  <2>3. Quiet'
    BY <1>1, <2>1, <2>2, FinishQuiet
  <2>4. waiting' = FALSE /\ outcome' = "timeout"
    BY <2>1 DEF Finish
  <2>5. QED
    BY <1>1, <2>1, <2>2, <2>3, <2>4
       DEF Private, Undisturbed, AnswerBelongs, PollFaultReal, Receiving
<1>6. QED
  BY <1>2, <1>3, <1>4, <1>5 DEF Receive, EchoShort, EchoFilled

(* Each answer on the line is one tick nearer, or in the buffer, unharmed. *)
LEMMA TickMoves ==
  ASSUME TypeInv, Tick, clean'
  PROVE  /\ \A b \in line' : \E a \in line :
              /\ a \notin Arriving
              /\ b.sensor = a.sensor /\ b.register = a.register
              /\ b.due = a.due - 1
              /\ b = [a EXCEPT !.due = @ - 1]
         /\ \A f \in rx' : f \in rx \/ \E a \in Arriving :
              f.sensor = a.sensor /\ f.register = a.register /\ f.good = TRUE
         /\ line \ Arriving # {} => line' # {}
         /\ Arriving # {} => rx' # {}
<1>1. line' = {[a EXCEPT !.due = @ - 1] : a \in line \ Arriving}
  BY DEF Tick
<1>2. rx' = rx \cup {[sensor |-> a.sensor, register |-> a.register,
                      good |-> TRUE] : a \in Arriving}
  <2>1. PICK damaged \in SUBSET Arriving :
          /\ clean' = (clean /\ damaged = {})
          /\ rx' = rx \cup {[sensor |-> a.sensor, register |-> a.register,
                             good |-> a \notin damaged] : a \in Arriving}
    BY DEF Tick
  <2>2. damaged = {}
    BY <2>1
  <2>3. ASSUME NEW a
        PROVE  (a \notin damaged) = TRUE
    BY <2>2
  <2>4. QED
    BY <2>1, <2>3
<1>3. \A b \in line' : \E a \in line :
        /\ a \notin Arriving
        /\ b.sensor = a.sensor /\ b.register = a.register
        /\ b.due = a.due - 1
        /\ b = [a EXCEPT !.due = @ - 1]
  BY <1>1 DEF TypeInv, TypeOK
<1>4. \A f \in rx' : f \in rx \/ \E a \in Arriving :
        f.sensor = a.sensor /\ f.register = a.register /\ f.good = TRUE
  BY <1>2
<1>5. /\ line \ Arriving # {} => line' # {}
      /\ Arriving # {} => rx' # {}
  BY <1>1, <1>2
<1>6. QED
  BY <1>3, <1>4, <1>5

LEMMA TickWaiting ==
  ASSUME Inv, Tick, clean', Receiving
  PROVE  Private' /\ Undisturbed'
<1> USE DEF Inv
<1>1. ~timeout /\ rx = {} /\ Receiving' /\ UNCHANGED <<request, silent, astray>>
  BY DEF Tick, Receiving
<1>2. /\ timer \in 1..Timeout /\ waited \in 0..Timeout /\ waited < Timeout
      /\ \A a \in line : a.due \in 1..MaxLatency
  BY <1>1, Times DEF TypeInv, TypeOK, Bounded
<1>3. waited' = waited + 1
  BY <1>2 DEF Tick
<1>4. Private'
  <2>1. guard' = 0
    BY DEF Private, Tick, OneLess
  <2>2. ASSUME NEW b \in line'
        PROVE  /\ b.sensor = request.sensor /\ b.register = request.register
               /\ b.due =< MaxLatency - (waited + 1)
    <3>1. PICK a \in line : /\ b.sensor = a.sensor /\ b.register = a.register
                            /\ b.due = a.due - 1
      BY TickMoves
    <3>2. a.due - 1 =< MaxLatency - (waited + 1)
      BY <1>2, Times DEF Private
    <3>3. QED
      BY <3>1, <3>2 DEF Private
  <2>3. \A b, c \in line' : b = c
    BY TickMoves DEF Private
  <2>4. ASSUME NEW f \in rx'
        PROVE  /\ f.sensor = request.sensor /\ f.register = request.register
               /\ f.good = TRUE
    <3>1. \A a \in line : a.sensor = request.sensor /\ a.register = request.register
      BY DEF Private
    <3>2. PICK a \in Arriving : f.sensor = a.sensor /\ f.register = a.register
                                /\ f.good = TRUE
      BY <1>1, TickMoves
    <3>3. a \in line
      BY DEF Arriving
    <3>4. QED
      BY <3>1, <3>2, <3>3
  <2>5. ASSUME rx' # {}
        PROVE  line' = {} /\ waited + 1 =< MaxLatency
    <3>1. PICK a \in line : a.due = 1
      BY <1>1, <2>5, TickMoves DEF Arriving
    <3>2. line \subseteq Arriving
      BY <3>1 DEF Private, Arriving
    <3>3. 1 =< MaxLatency - waited
      BY <3>1 DEF Private
    <3>4. QED
      BY <1>2, <3>2, <3>3, TickMoves, Times
  <2>6. ~silent => line' # {} \/ rx' # {}
    BY <1>1, TickMoves DEF Private
  <2>7. ~astray' /\ request'.from # "command"
    BY <1>1 DEF Private
  <2>8. QED
    BY <1>1, <1>3, <2>7, <2>1, <2>2, <2>3, <2>4, <2>5, <2>6 DEF Private
<1>5. Undisturbed'
  <2>1. CASE timer = 1
    <3>1. timeout' /\ timer' = 0
      <4>1. timer' = 0
        BY <2>1 DEF Tick, OneLess
      <4>2. timeout' = (timeout \/ timer = 1)
        BY DEF Tick
      <4>3. QED
        BY <2>1, <4>1, <4>2
    <3>2. request.from = "poll" => waited + 1 = Timeout
      BY <1>1, <1>2, <2>1, Times DEF Undisturbed
    <3>3. QED
      BY <1>1, <1>3, <3>1, <3>2 DEF Undisturbed
  <2>2. CASE timer # 1
    <3>1. ~timeout' /\ timer' = timer - 1
      <4>1. timer' = timer - 1
        BY <1>2, <2>2 DEF Tick, OneLess
      <4>2. timeout' = (timeout \/ timer = 1)
        BY DEF Tick
      <4>3. QED
        BY <1>1, <2>2, <4>1, <4>2
    <3>2. request.from = "poll" => waited + 1 = Timeout - (timer - 1)
      BY <1>1, <1>2, Times DEF Undisturbed
    <3>3. QED
      BY <1>1, <1>3, <3>1, <3>2 DEF Undisturbed
  <2>3. QED
    BY <2>1, <2>2
<1>6. QED
  BY <1>4, <1>5

LEMMA TickIdle ==
  ASSUME Inv, Tick, clean', ~waiting
  PROVE  Quiet'
<1> USE DEF Inv
<1>1. /\ timer \in Nat /\ guard \in Nat /\ pause \in Nat
      /\ \A a \in line : a.due \in 1..MaxLatency
  BY Times DEF TypeInv, TypeOK
<1>2. OneLess(timer) =< OneLess(guard) \/ OneLess(timer) =< OneLess(pause)
  BY <1>1 DEF Quiet, OneLess
<1>3. ASSUME NEW b \in line'
      PROVE  b.due =< OneLess(guard)
  <2>1. PICK a \in line : b.due = a.due - 1
    BY TickMoves
  <2>2. a.due - 1 =< OneLess(guard)
    BY <1>1, Times DEF Quiet, OneLess
  <2>3. QED
    BY <2>1, <2>2
<1>4. timer' = OneLess(timer) /\ guard' = OneLess(guard) /\ pause' = OneLess(pause)
  BY DEF Tick
<1>5. QED
  BY <1>2, <1>3, <1>4 DEF Quiet

LEMMA TickInv ==
  ASSUME Inv, Tick, clean'
  PROVE  Inv'
<1>1. TypeInv' /\ waiting' = waiting /\ missing' = missing
  BY TickType DEF Inv, Tick
<1>2. CASE Receiving
  <2>1. Private' /\ Undisturbed'
    BY <1>2, TickWaiting
  <2>2. QED
    BY <1>1, <1>2, <2>1 DEF Inv, Quiet, AnswerBelongs, PollFaultReal, Receiving
<1>3. CASE waiting /\ missing
  BY <1>1, <1>3 DEF Inv, Quiet, Private, Undisturbed, AnswerBelongs, PollFaultReal, Receiving
<1>4. CASE ~waiting
  <2>1. Quiet'
    BY <1>4, TickIdle
  <2>2. AnswerBelongs' /\ PollFaultReal'
    BY <1>4 DEF Inv, Tick, AnswerBelongs, PollFaultReal
  <2>3. QED
    BY <1>1, <1>4, <2>1, <2>2 DEF Inv, Private, Undisturbed, Receiving
<1>5. QED
  BY <1>2, <1>4, <1>3 DEF Receiving

(* A request for the unit itself comes when no late answer is on the line. *)
LEMMA OwnRequestInv ==
  ASSUME Inv, OwnRequest, guard = 0
  PROVE  Inv'
<1>1. TypeInv'
  BY StartedGuard DEF Inv, OwnRequest, TypeInv, TypeOK, Bounded, Receiving
<1>2. guard' = GuardTime /\ waiting' = FALSE /\ ~waiting
  BY DEF OwnRequest, StartTimer, Inv, TypeInv, TypeOK
<1>3. Quiet'
  <2>1. timer =< GuardTime /\ \A a \in line : a.due =< GuardTime
    BY Times DEF Inv, TypeInv, TypeOK
  <2>2. QED
    BY <1>2, <2>1 DEF OwnRequest, Quiet
<1>4. AnswerBelongs' /\ PollFaultReal'
  BY <1>2 DEF Inv, OwnRequest, AnswerBelongs, PollFaultReal
<1>5. QED
  BY <1>1, <1>2, <1>3, <1>4 DEF Inv, Private, Undisturbed, Receiving

(* The invariant in force until an answer is damaged or taken for an echo, *)
(* or a command comes.                                                     *)
CleanInv == TypeInv /\ (clean => Inv)

LEMMA NextInv == Patient /\ CleanInv /\ [Next]_vars => CleanInv'
<1> SUFFICES ASSUME Patient, TypeInv, clean => Inv, [Next]_vars PROVE CleanInv'
  BY DEF CleanInv
<1>1. TypeInv'
  BY NextType
<1>2. SUFFICES ASSUME clean' PROVE Inv'
  BY <1>1 DEF CleanInv
<1>3. clean
  BY <1>2 DEF Next, Poll, Bypass, Command, Send, OwnRequest, Receive, EchoShort,
              EchoFilled, SkipFrame, Answer, CrcError, TimedOut, Tick, vars
<1>4. Inv
  BY <1>3
<1>5. CASE Poll
  <2>1. PICK r \in Request : r.from = "poll" /\ Send(r)
    BY <1>5 DEF Poll
  <2>2. guard = 0 /\ pause = 0 /\ UNCHANGED clean /\ r.from # "command"
    BY <1>5, <2>1 DEF Poll
  <2>3. QED
    BY <1>4, <2>1, <2>2, SendInv
<1>6. CASE Bypass
  <2>1. PICK r \in Request : r.from \in Master /\ Send(r)
    BY <1>6 DEF Bypass
  <2>2. guard = 0 /\ UNCHANGED clean /\ r.from # "poll" /\ r.from # "command"
    BY <1>6, <2>1, PollAssumption DEF Bypass
  <2>3. QED
    BY <1>4, <2>1, <2>2, SendInv
<1>7. CASE OwnRequest
  BY <1>4, <1>7, OwnRequestInv DEF OwnRequest
<1>8. CASE Receive
  BY <1>2, <1>4, <1>8, ReceiveInv
<1>9. CASE Tick
  BY <1>2, <1>4, <1>9, TickInv
<1>12. CASE Command
  BY <1>2, <1>12 DEF Command
<1>10. CASE UNCHANGED vars
  BY <1>4, <1>10 DEF vars, Inv, TypeInv, TypeOK, Bounded, Quiet, Private,
                     Undisturbed, AnswerBelongs, PollFaultReal, Receiving
<1>11. QED
  BY <1>5, <1>6, <1>7, <1>8, <1>9, <1>10, <1>12 DEF Next

LEMMA CleanInvariant == ASSUME Patient PROVE Spec => []CleanInv
<1>1. CleanInv /\ [Next]_vars => CleanInv'
  BY NextInv
<1>2. Init => CleanInv
  BY InitInv, InitType DEF CleanInv
<1>3. QED
  BY <1>1, <1>2, PTL DEF Spec

(* With patient masters a requester is given the register it asked for,    *)
(* although no answer names one.                                           *)
THEOREM AnswersBelong == ASSUME Patient PROVE Spec => []AnswerBelongs
<1>1. CleanInv => AnswerBelongs
  BY DEF CleanInv, Inv, AnswerBelongs
<1>2. QED
  BY <1>1, CleanInvariant, PTL

(* Under the same condition the polling blames no sensor that answers.     *)
THEOREM PollFaultsReal == ASSUME Patient PROVE Spec => []PollFaultReal
<1>1. CleanInv => PollFaultReal
  BY DEF CleanInv, Inv, PollFaultReal
<1>2. QED
  BY <1>1, CleanInvariant, PTL

-----------------------------------------------------------------------------
(* Induction.  The induction theorems of the library take an operator; the *)
(* least number of a set does without, and so does induction over a set.   *)
LEMMA LeastNumber ==
  ASSUME NEW T, T \subseteq Nat, T # {}
  PROVE  \E n \in T : \A m \in T : n =< m
<1>1. IsWellFoundedOn(OpToRel(<,Nat), Nat)
  BY NatLessThanWellFounded
<1>2. PICK n \in T : \A m \in T : ~ (<<m, n>> \in OpToRel(<,Nat))
  BY <1>1, WFMin
<1>3. ASSUME NEW m \in T PROVE n =< m
  <2>1. ~ (<<m, n>> \in {ss \in Nat \X Nat : ss[1] < ss[2]})
    BY <1>2 DEF OpToRel
  <2>2. m \in Nat /\ n \in Nat
    OBVIOUS
  <2>3. <<m, n>> \in Nat \X Nat /\ <<m, n>>[1] = m /\ <<m, n>>[2] = n
    BY <2>2
  <2>4. ~ (m < n)
    BY <2>1, <2>3
  <2>5. QED
    BY <2>2, <2>4
<1>4. QED
  BY <1>3

LEMMA Induction ==
  ASSUME NEW S, 0 \in S, \A n \in Nat : n \in S => n + 1 \in S
  PROVE  \A n \in Nat : n \in S
<1>1. SUFFICES ASSUME Nat \ S # {} PROVE FALSE
  OBVIOUS
<1>2. PICK n \in Nat \ S : \A m \in Nat \ S : n =< m
  BY <1>1, LeastNumber
<1>3. n # 0 /\ n - 1 \in Nat
  BY <1>2
<1>4. n - 1 \in S
  BY <1>2, <1>3
<1>5. QED
  BY <1>3, <1>4, <1>2

(* Strong induction. *)
LEMMA Descent ==
  ASSUME NEW S, \A n \in Nat : (\A m \in 0..n-1 : m \in S) => n \in S
  PROVE  \A n \in Nat : n \in S
<1>1. SUFFICES ASSUME Nat \ S # {} PROVE FALSE
  OBVIOUS
<1>2. PICK n \in Nat \ S : \A m \in Nat \ S : n =< m
  BY <1>1, LeastNumber
<1>3. \A m \in 0..n-1 : m \in S
  BY <1>2
<1>4. QED
  BY <1>2, <1>3

(* A function can be defined by what each value makes of the one before.   *)
Follows(f, n, S, first, step) ==
  /\ f \in [0..n -> S]
  /\ f[0] = first
  /\ \A i \in 1..n : f[i] = step[<<f[i-1], i>>]

LEMMA RunExists ==
  ASSUME NEW S, NEW first \in S, NEW step \in [S \X Nat -> S]
  PROVE  \A n \in Nat : \E f : Follows(f, n, S, first, step)
<1> DEFINE T == {n \in Nat : \E f : Follows(f, n, S, first, step)}
<1>1. 0 \in T
  <2> DEFINE f == [i \in 0..0 |-> first]
  <2>1. Follows(f, 0, S, first, step)
    BY DEF Follows
  <2>2. QED
    BY <2>1
<1>2. ASSUME NEW n \in Nat, n \in T PROVE n + 1 \in T
  <2>1. PICK f : Follows(f, n, S, first, step)
    BY <1>2
  <2> DEFINE g == [i \in 0..n+1 |-> IF i = n + 1 THEN step[<<f[n], n + 1>>] ELSE f[i]]
  <2>2. f[n] \in S /\ step[<<f[n], n + 1>>] \in S
    BY <2>1 DEF Follows
  <2>3. g \in [0..n+1 -> S]
    BY <2>1, <2>2 DEF Follows
  <2>4. g[0] = first
    BY <2>1 DEF Follows
  <2>5. ASSUME NEW i \in 1..n+1 PROVE g[i] = step[<<g[i-1], i>>]
    <3>1. CASE i = n + 1
      <4>1. n + 1 \in 0..n+1 /\ n \in 0..n+1 /\ n # n + 1
        OBVIOUS
      <4>2. g[n + 1] = step[<<f[n], n + 1>>] /\ g[n] = f[n]
        BY <4>1
      <4>3. i - 1 = n
        BY <3>1
      <4>4. QED
        BY <3>1, <4>2, <4>3
    <3>2. CASE i # n + 1
      <4>1. i \in 1..n /\ i - 1 \in 0..n
        BY <3>2
      <4>2. g[i] = f[i] /\ g[i-1] = f[i-1]
        BY <4>1, <3>2
      <4>3. QED
        BY <4>1, <4>2, <2>1 DEF Follows
    <3>3. QED
      BY <3>1, <3>2
  <2>6. Follows(g, n + 1, S, first, step)
    BY <2>3, <2>4, <2>5 DEF Follows
  <2>7. QED
    BY <2>6
<1>3. \A n \in Nat : n \in T
  <2> HIDE DEF T
  <2>1. QED
    BY <1>1, <1>2, Induction
<1>4. QED
  BY <1>3

(* The same without an end. *)
LEMMA FollowsSame ==
  ASSUME NEW S, NEW first, NEW step, NEW m \in Nat, NEW n \in Nat, m =< n,
         NEW f, NEW g, Follows(f, m, S, first, step), Follows(g, n, S, first, step)
  PROVE  \A i \in 0..m : f[i] = g[i]
<1> DEFINE T == {i \in Nat : i =< m => f[i] = g[i]}
<1>1. 0 \in T
  BY DEF Follows
<1>2. ASSUME NEW i \in Nat, i \in T PROVE i + 1 \in T
  <2>1. SUFFICES ASSUME i + 1 =< m PROVE f[i + 1] = g[i + 1]
    OBVIOUS
  <2>2. i + 1 \in 1..m /\ i + 1 \in 1..n /\ (i + 1) - 1 = i
    BY <2>1
  <2>3. f[i] = g[i]
    BY <1>2, <2>1
  <2>4. f[i + 1] = step[<<f[i], i + 1>>]
    BY <2>2 DEF Follows
  <2>5. g[i + 1] = step[<<g[i], i + 1>>]
    BY <2>2 DEF Follows
  <2>6. QED
    BY <2>3, <2>4, <2>5
<1>3. \A i \in Nat : i \in T
  <2> HIDE DEF T
  <2>1. QED
    BY <1>1, <1>2, Induction
<1>4. QED
  BY <1>3

Endless(f, S, first, step) ==
  /\ f \in [Nat -> S]
  /\ f[0] = first
  /\ \A n \in Nat : f[n + 1] = step[<<f[n], n + 1>>]

LEMMA EndlessRun ==
  ASSUME NEW S, NEW first \in S, NEW step \in [S \X Nat -> S]
  PROVE  \E f : Endless(f, S, first, step)
<1> DEFINE part == [n \in Nat |-> CHOOSE f : Follows(f, n, S, first, step)]
           g == [n \in Nat |-> part[n][n]]
<1>1. ASSUME NEW n \in Nat PROVE Follows(part[n], n, S, first, step)
  <2>1. \E f : Follows(f, n, S, first, step)
    BY RunExists
  <2>2. part[n] = CHOOSE f : Follows(f, n, S, first, step)
    OBVIOUS
  <2>3. Follows(CHOOSE f : Follows(f, n, S, first, step), n, S, first, step)
    BY <2>1, Zenon
  <2>4. QED
    BY <2>2, <2>3
<1> HIDE DEF part
<1>2. g \in [Nat -> S]
  BY <1>1 DEF Follows
<1>3. g[0] = first
  BY <1>1 DEF Follows
<1>4. ASSUME NEW n \in Nat PROVE g[n + 1] = step[<<g[n], n + 1>>]
  <2>1. Follows(part[n], n, S, first, step)
    BY <1>1
  <2>2. Follows(part[n + 1], n + 1, S, first, step)
    BY <1>1
  <2>3. PICK next \in Nat : next = n + 1
    OBVIOUS
  <2>d. PICK short : short = part[n]
    OBVIOUS
  <2>e. PICK long : long = part[next]
    OBVIOUS
  <2>a. Follows(short, n, S, first, step) /\ Follows(long, next, S, first, step)
    BY <2>1, <2>2, <2>3, <2>d, <2>e
  <2>b. n =< next
    BY <2>3
  <2>c. \A i \in 0..n : short[i] = long[i]
    BY <2>a, <2>b, FollowsSame
  <2>4. \A i \in 0..n : part[n][i] = part[n + 1][i]
    BY <2>3, <2>d, <2>e, <2>c
  <2>5. part[n + 1][n] = part[n][n]
    BY <2>4
  <2>6. n + 1 \in 1..n+1 /\ (n + 1) - 1 = n
    OBVIOUS
  <2>7. part[n + 1][n + 1] = step[<<part[n + 1][n], n + 1>>]
    BY <2>2, <2>6 DEF Follows
  <2>8. g[n + 1] = part[n + 1][n + 1] /\ g[n] = part[n][n]
    OBVIOUS
  <2>9. QED
    BY <2>5, <2>7, <2>8
<1>5. Endless(g, S, first, step)
  BY <1>2, <1>3, <1>4 DEF Endless
<1>6. QED
  BY <1>5

-----------------------------------------------------------------------------
(* Xor. *)
IsXor(f) ==
  f = [p \in Nat \X Nat |->
         IF p[1] = 0 THEN p[2]
         ELSE 2 * f[<<p[1] \div 2, p[2] \div 2>>] + ((p[1] + p[2]) % 2)]

LEMMA XorChosen ==
  ASSUME NEW f, IsXor(f)
  PROVE  IsXor(Xor)
<1>1. Xor = CHOOSE g : IsXor(g)
  BY Zenon DEF Xor, IsXor
<1>2. IsXor(CHOOSE g : IsXor(g))
  BY Zenon
<1>3. QED
  BY <1>1, <1>2, Zenon

LEMMA Halves ==
  ASSUME NEW a \in Nat
  PROVE  /\ a \div 2 \in Nat /\ a % 2 \in {0, 1}
         /\ a = 2 * (a \div 2) + (a % 2)
         /\ a # 0 => a \div 2 < a
OBVIOUS

(* What a value of the function is, where a and b are not halved in it.    *)
XorRule(f) ==
  /\ \A b \in Nat : f[<<0, b>>] = b
  /\ \A a, b, h, k \in Nat :
       a # 0 /\ h = a \div 2 /\ k = b \div 2 =>
         f[<<a, b>>] = 2 * f[<<h, k>>] + ((a + b) % 2)

LEMMA XorRuleThere ==
  ASSUME NEW f, IsXor(f)
  PROVE  XorRule(f)
<1>1. ASSUME NEW a \in Nat, NEW b \in Nat
      PROVE  f[<<a, b>>] = IF a = 0 THEN b
               ELSE 2 * f[<<a \div 2, b \div 2>>] + ((a + b) % 2)
  <2>1. PICK p \in Nat \X Nat : p = <<a, b>>
    OBVIOUS
  <2>2. f[p] = IF p[1] = 0 THEN p[2]
               ELSE 2 * f[<<p[1] \div 2, p[2] \div 2>>] + ((p[1] + p[2]) % 2)
    BY DEF IsXor
  <2>3. QED
    BY <2>1, <2>2
<1>2. QED
  BY <1>1 DEF XorRule

LEMMA XorRuleBack ==
  ASSUME NEW f \in [Nat \X Nat -> Nat], XorRule(f)
  PROVE  IsXor(f)
<1>1. ASSUME NEW p \in Nat \X Nat
      PROVE  f[p] = IF p[1] = 0 THEN p[2]
                    ELSE 2 * f[<<p[1] \div 2, p[2] \div 2>>] + ((p[1] + p[2]) % 2)
  <2>1. PICK a \in Nat, b \in Nat : p = <<a, b>>
    OBVIOUS
  <2>2. PICK h \in Nat, k \in Nat : h = a \div 2 /\ k = b \div 2
    BY Halves
  <2>3. f[<<a, b>>] = IF a = 0 THEN b ELSE 2 * f[<<h, k>>] + ((a + b) % 2)
    BY <2>2 DEF XorRule
  <2>4. p[1] = a /\ p[2] = b
    BY <2>1
  <2>5. QED
    BY <2>1, <2>2, <2>3, <2>4
<1>2. QED
  BY <1>1 DEF IsXor

LEMMA XorExists == \E f \in [Nat \X Nat -> Nat] : XorRule(f)
<1> DEFINE S == [Nat \X Nat -> Nat]
           first == [p \in Nat \X Nat |-> p[2]]
           Value(f, p) == IF p[1] = 0 THEN p[2]
                          ELSE 2 * f[<<p[1] \div 2, p[2] \div 2>>] + ((p[1] + p[2]) % 2)
           Once(f) == [p \in Nat \X Nat |-> Value(f, p)]
           step == [x \in S \X Nat |-> Once(x[1])]
<1>1. first \in S
  OBVIOUS
<1>2. ASSUME NEW f \in S, NEW p \in Nat \X Nat PROVE Value(f, p) \in Nat
  <2>1. PICK a \in Nat, b \in Nat : p[1] = a /\ p[2] = b
    OBVIOUS
  <2>2. PICK h \in Nat, k \in Nat : h = a \div 2 /\ k = b \div 2
    BY Halves
  <2>3. f[<<h, k>>] \in Nat
    OBVIOUS
  <2>4. (a + b) % 2 \in Nat
    OBVIOUS
  <2>5. QED
    BY <2>1, <2>2, <2>3, <2>4
<1>3. ASSUME NEW f \in S, NEW a \in Nat, NEW b \in Nat, NEW h \in Nat, NEW k \in Nat,
             a # 0, h = a \div 2, k = b \div 2
      PROVE  Value(f, <<a, b>>) = 2 * f[<<h, k>>] + ((a + b) % 2)
  BY <1>3
<1>4. ASSUME NEW f \in S, NEW b \in Nat PROVE Value(f, <<0, b>>) = b
  OBVIOUS
<1> HIDE DEF Value
<1>5. ASSUME NEW f \in S PROVE Once(f) \in S
  BY <1>2
<1>6. step \in [S \X Nat -> S]
  <2> HIDE DEF S, Once
  <2>1. QED
    BY <1>5
<1>7. PICK F : Endless(F, S, first, step)
  <2> HIDE DEF S, first, step
  <2>1. QED
    BY <1>1, <1>6, EndlessRun
<1>8. ASSUME NEW n \in Nat PROVE F[n] \in S
  BY <1>7 DEF Endless
<1>9. ASSUME NEW n \in Nat PROVE F[n + 1] = Once(F[n])
  <2>1. F[n] \in S
    BY <1>8
  <2>2. step[<<F[n], n + 1>>] = Once(F[n])
    <3> HIDE DEF S, Once
    <3>1. QED
      BY <2>1
  <2>3. F[n + 1] = step[<<F[n], n + 1>>]
    <3> HIDE DEF S, first, step
    <3>1. QED
      BY <1>7 DEF Endless
  <2>4. QED
    BY <2>2, <2>3
<1>10. ASSUME NEW n \in Nat, NEW m \in Nat, m = n + 1, NEW a \in Nat, NEW b \in Nat
       PROVE  F[m][<<a, b>>] = Value(F[n], <<a, b>>)
  <2>1. F[m] = [p \in Nat \X Nat |-> Value(F[n], p)]
    BY <1>9, <1>10
  <2>2. PICK p \in Nat \X Nat : p = <<a, b>>
    OBVIOUS
  <2>3. F[m][p] = Value(F[n], p)
    BY <2>1
  <2>4. QED
    BY <2>2, <2>3
<1>11. ASSUME NEW b \in Nat, NEW n \in Nat PROVE F[n][<<0, b>>] = b
  <2>1. CASE n = 0
    BY <1>7, <2>1 DEF Endless
  <2>2. CASE n # 0
    <3>1. PICK m \in Nat : n = m + 1
      BY <2>2
    <3>2. F[n][<<0, b>>] = Value(F[m], <<0, b>>)
      BY <1>10, <3>1
    <3>3. F[m] \in S
      BY <1>8
    <3>4. QED
      BY <1>4, <3>2, <3>3
  <2>3. QED
    BY <2>1, <2>2
<1>12. ASSUME NEW n \in Nat, NEW m \in Nat, m = n + 1,
              NEW a \in Nat, NEW b \in Nat, NEW h \in Nat, NEW k \in Nat,
              a # 0, h = a \div 2, k = b \div 2
       PROVE  F[m][<<a, b>>] = 2 * F[n][<<h, k>>] + ((a + b) % 2)
  <2>1. F[m][<<a, b>>] = Value(F[n], <<a, b>>)
    BY <1>10, <1>12
  <2>2. PICK f \in S : f = F[n]
    BY <1>8
  <2>3. Value(f, <<a, b>>) = 2 * f[<<h, k>>] + ((a + b) % 2)
    BY <1>12 DEF Value
  <2>4. QED
    BY <2>1, <2>2, <2>3
<1> HIDE DEF step, Once, first
<1> DEFINE T == {a \in Nat : \A b \in Nat, n \in Nat : n >= a => F[n][<<a, b>>] = F[a][<<a, b>>]}
<1>13. ASSUME NEW a \in Nat, \A m \in 0..a-1 : m \in T PROVE a \in T
  <2>1. SUFFICES ASSUME NEW b \in Nat, NEW n \in Nat, n >= a
                 PROVE  F[n][<<a, b>>] = F[a][<<a, b>>]
    OBVIOUS
  <2>2. CASE a = 0
    BY <1>11, <2>2
  <2>3. CASE a # 0
    <3>1. PICK h \in Nat, k \in Nat : h = a \div 2 /\ k = b \div 2
      BY Halves
    <3>2. h < a /\ h \in 0..a-1
      BY <2>3, <3>1, Halves
    <3>3. h \in T
      BY <1>13, <3>2
    <3>4. PICK c \in Nat, m \in Nat : a = c + 1 /\ n = m + 1 /\ c >= h /\ m >= h
      <4>1. a - 1 \in Nat /\ n - 1 \in Nat
        BY <2>1, <2>3
      <4>2. a = (a - 1) + 1 /\ n = (n - 1) + 1 /\ a - 1 >= h /\ n - 1 >= h
        BY <2>1, <3>2
      <4>3. QED
        BY <4>1, <4>2
    <3>5. F[c][<<h, k>>] = F[h][<<h, k>>] /\ F[m][<<h, k>>] = F[h][<<h, k>>]
      BY <3>3, <3>4
    <3>6. F[a][<<a, b>>] = 2 * F[c][<<h, k>>] + ((a + b) % 2)
      BY <1>12, <2>3, <3>1, <3>4
    <3>7. F[n][<<a, b>>] = 2 * F[m][<<h, k>>] + ((a + b) % 2)
      BY <1>12, <2>3, <3>1, <3>4
    <3>8. QED
      BY <3>5, <3>6, <3>7
  <2>4. QED
    BY <2>2, <2>3
<1>14. \A a \in Nat : a \in T
  <2> HIDE DEF T
  <2>1. QED
    BY <1>13, Descent
<1> DEFINE X == [p \in Nat \X Nat |-> F[p[1]][p]]
<1>15. X \in [Nat \X Nat -> Nat]
  BY <1>8
<1>16. ASSUME NEW a \in Nat, NEW b \in Nat PROVE X[<<a, b>>] = F[a][<<a, b>>]
  OBVIOUS
<1>17. ASSUME NEW a \in Nat, NEW b \in Nat, NEW h \in Nat, NEW k \in Nat,
              a # 0, h = a \div 2, k = b \div 2
       PROVE  X[<<a, b>>] = 2 * X[<<h, k>>] + ((a + b) % 2)
  <2>1. h < a
    BY <1>17, Halves
  <2>2. PICK c \in Nat : a = c + 1 /\ c >= h
    <3>1. a - 1 \in Nat /\ a = (a - 1) + 1 /\ a - 1 >= h
      BY <1>17, <2>1
    <3>2. QED
      BY <3>1
  <2>3. F[c][<<h, k>>] = F[h][<<h, k>>]
    BY <1>14, <2>2
  <2>4. F[a][<<a, b>>] = 2 * F[c][<<h, k>>] + ((a + b) % 2)
    BY <1>12, <1>17, <2>2
  <2>5. QED
    BY <1>16, <2>3, <2>4
<1> HIDE DEF X
<1>18. XorRule(X)
  BY <1>11, <1>16, <1>17 DEF XorRule
<1>19. QED
  BY <1>15, <1>18

LEMMA XorFollowsRule == XorRule(Xor) /\ IsXor(Xor)
<1>1. \E f : IsXor(f)
  BY XorExists, XorRuleBack
<1>2. IsXor(Xor)
  BY <1>1, XorChosen
<1>3. QED
  BY <1>2, XorRuleThere

-----------------------------------------------------------------------------
Odd(p, q) == IF p = q THEN 0 ELSE 1

LEMMA XorDigit ==
  ASSUME NEW a \in Nat, NEW b \in Nat, NEW h \in Nat, NEW k \in Nat,
         NEW p \in {0, 1}, NEW q \in {0, 1}, a = 2 * h + p, b = 2 * k + q
  PROVE  Xor[<<a, b>>] = 2 * Xor[<<h, k>>] + Odd(p, q)
<1>1. h = a \div 2 /\ k = b \div 2
  OBVIOUS
<1>2. (a + b) % 2 = Odd(p, q)
  BY DEF Odd
<1>3. CASE a # 0
  <2>1. PICK r : r = (a + b) % 2
    OBVIOUS
  <2>2. Xor[<<a, b>>] = 2 * Xor[<<h, k>>] + r
    BY <1>1, <1>3, <2>1, XorFollowsRule DEF XorRule
  <2>3. QED
    BY <1>2, <2>1, <2>2
<1>4. CASE a = 0
  <2>1. h = 0 /\ p = 0
    BY <1>4
  <2>2. Xor[<<a, b>>] = b /\ Xor[<<h, k>>] = k
    BY <1>4, <2>1, XorFollowsRule DEF XorRule
  <2>3. QED
    BY <2>1, <2>2 DEF Odd
<1>5. QED
  BY <1>3, <1>4

LEMMA Digits ==
  ASSUME NEW a \in Nat
  PROVE  \E h \in Nat, p \in {0, 1} : a = 2 * h + p /\ (a # 0 => h < a)
<1>1. PICK h \in Nat : h = a \div 2
  BY Halves
<1>2. PICK p \in {0, 1} : p = a % 2
  BY Halves
<1>3. a = 2 * h + p
  BY <1>1, <1>2, Halves
<1>4. QED
  BY <1>3

LEMMA XorZero ==
  ASSUME NEW b \in Nat
  PROVE  Xor[<<0, b>>] = b
BY XorFollowsRule DEF XorRule

LEMMA XorType ==
  ASSUME NEW a \in Nat, NEW b \in Nat
  PROVE  Xor[<<a, b>>] \in Nat
<1> DEFINE T == {x \in Nat : \A y \in Nat : Xor[<<x, y>>] \in Nat}
<1>1. ASSUME NEW x \in Nat, \A m \in 0..x-1 : m \in T PROVE x \in T
  <2>1. SUFFICES ASSUME NEW y \in Nat PROVE Xor[<<x, y>>] \in Nat
    OBVIOUS
  <2>2. CASE x = 0
    BY <2>2, XorZero
  <2>3. CASE x # 0
    <3>1. PICK h \in Nat, p \in {0, 1} : x = 2 * h + p /\ h < x
      BY <2>3, Digits
    <3>2. PICK k \in Nat, q \in {0, 1} : y = 2 * k + q
      BY Digits
    <3>3. Xor[<<x, y>>] = 2 * Xor[<<h, k>>] + Odd(p, q)
      BY <3>1, <3>2, XorDigit
    <3>4. h \in T
      BY <1>1, <3>1
    <3>5. Xor[<<h, k>>] \in Nat
      BY <3>4
    <3>6. QED
      BY <3>3, <3>5 DEF Odd
  <2>4. QED
    BY <2>2, <2>3
<1>2. \A x \in Nat : x \in T
  <2> HIDE DEF T
  <2>1. QED
    BY <1>1, Descent
<1>3. QED
  BY <1>2

(* Xor with one number loses nothing of the other, on either side.         *)
LEMMA XorInjectiveRight ==
  ASSUME NEW a \in Nat, NEW b \in Nat, NEW c \in Nat, Xor[<<a, b>>] = Xor[<<a, c>>]
  PROVE  b = c
<1> DEFINE T == {x \in Nat : \A y, z \in Nat : Xor[<<x, y>>] = Xor[<<x, z>>] => y = z}
<1>1. ASSUME NEW x \in Nat, \A m \in 0..x-1 : m \in T PROVE x \in T
  <2>1. SUFFICES ASSUME NEW y \in Nat, NEW z \in Nat, Xor[<<x, y>>] = Xor[<<x, z>>]
                 PROVE  y = z
    OBVIOUS
  <2>2. CASE x = 0
    BY <2>1, <2>2, XorZero
  <2>3. CASE x # 0
    <3>1. PICK h \in Nat, p \in {0, 1} : x = 2 * h + p /\ h < x
      BY <2>3, Digits
    <3>2. PICK k \in Nat, q \in {0, 1} : y = 2 * k + q
      BY Digits
    <3>3. PICK l \in Nat, r \in {0, 1} : z = 2 * l + r
      BY Digits
    <3>4. Xor[<<x, y>>] = 2 * Xor[<<h, k>>] + Odd(p, q)
      BY <3>1, <3>2, XorDigit
    <3>5. Xor[<<x, z>>] = 2 * Xor[<<h, l>>] + Odd(p, r)
      BY <3>1, <3>3, XorDigit
    <3>6. PICK u \in Nat, v \in Nat : u = Xor[<<h, k>>] /\ v = Xor[<<h, l>>]
      BY XorType
    <3>7. 2 * u + Odd(p, q) = 2 * v + Odd(p, r)
      BY <2>1, <3>4, <3>5, <3>6
    <3>8. u = v /\ q = r
      BY <3>7 DEF Odd
    <3>9. h \in T
      BY <1>1, <3>1
    <3>10. k = l
      BY <3>6, <3>8, <3>9
    <3>11. QED
      BY <3>2, <3>3, <3>8, <3>10
  <2>4. QED
    BY <2>2, <2>3
<1>2. \A x \in Nat : x \in T
  <2> HIDE DEF T
  <2>1. QED
    BY <1>1, Descent
<1>3. QED
  BY <1>2

LEMMA XorCommutes ==
  ASSUME NEW a \in Nat, NEW b \in Nat
  PROVE  Xor[<<a, b>>] = Xor[<<b, a>>]
<1> DEFINE T == {x \in Nat : \A y \in Nat : Xor[<<x, y>>] = Xor[<<y, x>>]}
<1>0. ASSUME NEW x \in Nat PROVE Xor[<<x, 0>>] = x
  <2> DEFINE Z == {y \in Nat : Xor[<<y, 0>>] = y}
  <2>1. ASSUME NEW y \in Nat, \A m \in 0..y-1 : m \in Z PROVE y \in Z
    <3>1. CASE y = 0
      BY <3>1, XorZero
    <3>2. CASE y # 0
      <4>1. PICK h \in Nat, p \in {0, 1} : y = 2 * h + p /\ h < y
        BY <3>2, Digits
      <4>2. Xor[<<y, 0>>] = 2 * Xor[<<h, 0>>] + Odd(p, 0)
        BY <4>1, XorDigit
      <4>3. h \in Z
        BY <2>1, <4>1
      <4>4. QED
        BY <4>1, <4>2, <4>3 DEF Odd
    <3>3. QED
      BY <3>1, <3>2
  <2>2. \A y \in Nat : y \in Z
    <3> HIDE DEF Z
    <3>1. QED
      BY <2>1, Descent
  <2>3. QED
    BY <2>2
<1>1. ASSUME NEW x \in Nat, \A m \in 0..x-1 : m \in T PROVE x \in T
  <2>1. SUFFICES ASSUME NEW y \in Nat PROVE Xor[<<x, y>>] = Xor[<<y, x>>]
    OBVIOUS
  <2>2. CASE x = 0
    BY <1>0, <2>2, XorZero
  <2>3. CASE y = 0
    BY <1>0, <2>3, XorZero
  <2>4. CASE x # 0 /\ y # 0
    <3>1. PICK h \in Nat, p \in {0, 1} : x = 2 * h + p /\ h < x
      BY <2>4, Digits
    <3>2. PICK k \in Nat, q \in {0, 1} : y = 2 * k + q
      BY Digits
    <3>3. Xor[<<x, y>>] = 2 * Xor[<<h, k>>] + Odd(p, q)
      BY <3>1, <3>2, XorDigit
    <3>4. Xor[<<y, x>>] = 2 * Xor[<<k, h>>] + Odd(q, p)
      BY <3>1, <3>2, XorDigit
    <3>5. h \in T
      BY <1>1, <3>1
    <3>6. Xor[<<h, k>>] = Xor[<<k, h>>]
      BY <3>5
    <3>7. QED
      BY <3>3, <3>4, <3>6 DEF Odd
  <2>5. QED
    BY <2>2, <2>3, <2>4
<1>2. \A x \in Nat : x \in T
  <2> HIDE DEF T
  <2>1. QED
    BY <1>1, Descent
<1>3. QED
  BY <1>2

LEMMA XorInjectiveLeft ==
  ASSUME NEW a \in Nat, NEW b \in Nat, NEW c \in Nat, Xor[<<a, c>>] = Xor[<<b, c>>]
  PROVE  a = b
<1>1. Xor[<<c, a>>] = Xor[<<c, b>>]
  BY XorCommutes
<1>2. QED
  BY <1>1, XorInjectiveRight

(* Numbers of the same width stay within it, and the top bit of one of     *)
(* them stays.                                                             *)
Within(m) == \A a, b \in Nat : a < m /\ b < m => Xor[<<a, b>>] < m
Topped(m) ==
  \A a, b \in Nat : a < m /\ m =< b /\ b < 2 * m =>
    m =< Xor[<<a, b>>] /\ Xor[<<a, b>>] < 2 * m

LEMMA Wider ==
  ASSUME NEW m \in Nat, Within(m), Topped(m), NEW n \in Nat, n = 2 * m
  PROVE  Within(n) /\ Topped(n)
<1>1. ASSUME NEW a \in Nat, NEW b \in Nat, a < n, b < n PROVE Xor[<<a, b>>] < n
  <2>1. PICK h \in Nat, p \in {0, 1} : a = 2 * h + p
    BY Digits
  <2>2. PICK k \in Nat, q \in {0, 1} : b = 2 * k + q
    BY Digits
  <2>3. Xor[<<a, b>>] = 2 * Xor[<<h, k>>] + Odd(p, q)
    <3>1. /\ a \in Nat /\ b \in Nat /\ h \in Nat /\ k \in Nat
          /\ p \in {0, 1} /\ q \in {0, 1}
      OBVIOUS
    <3>2. a = 2 * h + p /\ b = 2 * k + q
      BY <2>1, <2>2
    <3>3. QED
      BY <3>1, <3>2, XorDigit
  <2>4. h < m /\ k < m
    BY <1>1, <2>1, <2>2
  <2>5. PICK u \in Nat : u = Xor[<<h, k>>]
    BY XorType
  <2>6. u < m
    BY <2>4, <2>5 DEF Within
  <2>7. QED
    BY <2>3, <2>5, <2>6 DEF Odd
<1>2. ASSUME NEW a \in Nat, NEW b \in Nat, a < n, n =< b, b < 2 * n
      PROVE  n =< Xor[<<a, b>>] /\ Xor[<<a, b>>] < 2 * n
  <2>1. PICK h \in Nat, p \in {0, 1} : a = 2 * h + p
    BY Digits
  <2>2. PICK k \in Nat, q \in {0, 1} : b = 2 * k + q
    BY Digits
  <2>3. Xor[<<a, b>>] = 2 * Xor[<<h, k>>] + Odd(p, q)
    <3>1. /\ a \in Nat /\ b \in Nat /\ h \in Nat /\ k \in Nat
          /\ p \in {0, 1} /\ q \in {0, 1}
      OBVIOUS
    <3>2. a = 2 * h + p /\ b = 2 * k + q
      BY <2>1, <2>2
    <3>3. QED
      BY <3>1, <3>2, XorDigit
  <2>4. h < m /\ m =< k /\ k < 2 * m
    BY <1>2, <2>1, <2>2
  <2>5. PICK u \in Nat : u = Xor[<<h, k>>]
    BY XorType
  <2>6. m =< u /\ u < 2 * m
    BY <2>4, <2>5 DEF Topped
  <2>7. QED
    BY <2>3, <2>5, <2>6 DEF Odd
<1>3. QED
  BY <1>1, <1>2 DEF Within, Topped

LEMMA SixteenBits == Within(65536) /\ Topped(32768)
<1>1. Within(1) /\ Topped(1)
  <2>1. Xor[<<0, 0>>] = 0 /\ Xor[<<0, 1>>] = 1
    BY XorZero
  <2>2. QED
    BY <2>1 DEF Within, Topped
<1>2. Within(2) /\ Topped(2)
  BY <1>1, Wider
<1>3. Within(4) /\ Topped(4)
  BY <1>2, Wider
<1>4. Within(8) /\ Topped(8)
  BY <1>3, Wider
<1>5. Within(16) /\ Topped(16)
  BY <1>4, Wider
<1>6. Within(32) /\ Topped(32)
  BY <1>5, Wider
<1>7. Within(64) /\ Topped(64)
  BY <1>6, Wider
<1>8. Within(128) /\ Topped(128)
  BY <1>7, Wider
<1>9. Within(256) /\ Topped(256)
  BY <1>8, Wider
<1>10. Within(512) /\ Topped(512)
  BY <1>9, Wider
<1>11. Within(1024) /\ Topped(1024)
  BY <1>10, Wider
<1>12. Within(2048) /\ Topped(2048)
  BY <1>11, Wider
<1>13. Within(4096) /\ Topped(4096)
  BY <1>12, Wider
<1>14. Within(8192) /\ Topped(8192)
  BY <1>13, Wider
<1>15. Within(16384) /\ Topped(16384)
  BY <1>14, Wider
<1>16. Within(32768) /\ Topped(32768)
  BY <1>15, Wider
<1>17. Within(65536)
  BY <1>16, Wider
<1>18. QED
  BY <1>16, <1>17

-----------------------------------------------------------------------------
(* The CRC. *)
Byte == {n \in Nat : n < 256}
Word16 == {n \in Nat : n < 65536}

LEMMA XorWord ==
  ASSUME NEW a \in Word16, NEW b \in Word16
  PROVE  Xor[<<a, b>>] \in Word16
<1>1. Xor[<<a, b>>] \in Nat
  BY XorType DEF Word16
<1>2. Xor[<<a, b>>] < 65536
  BY SixteenBits DEF Within, Word16
<1>3. QED
  BY <1>1, <1>2 DEF Word16

(* The bit that is shifted out comes back as the top bit.                  *)
Topmost(n) == n > 32767
ShiftedAs(crc, h, p) ==
  /\ crc = 2 * h + p
  /\ Shifted(crc) = IF p = 1 THEN Xor[<<h, Poly>>] ELSE h
  /\ p = 1 <=> Topmost(Shifted(crc))

LEMMA ShiftedDigits ==
  ASSUME NEW crc \in Word16
  PROVE  /\ \E h \in Nat, p \in {0, 1} : ShiftedAs(crc, h, p)
         /\ Shifted(crc) \in Word16
<1>1. crc \in Nat /\ crc < 65536
  BY DEF Word16
<1>2. PICK h \in Nat, p \in {0, 1} : crc = 2 * h + p
  BY <1>1, Digits
<1>3. h < 32768 /\ h = crc \div 2 /\ (p = 1 <=> crc % 2 = 1)
  BY <1>1, <1>2
<1>4. Shifted(crc) = IF p = 1 THEN Xor[<<h, Poly>>] ELSE h
  BY <1>3 DEF Shifted
<1>5. PICK x \in Nat : x = Xor[<<h, Poly>>]
  BY XorType DEF Poly
<1>6. 32768 =< x /\ x < 65536
  BY <1>3, <1>5, SixteenBits DEF Topped, Poly
<1>7. ShiftedAs(crc, h, p)
  BY <1>2, <1>3, <1>4, <1>5, <1>6 DEF ShiftedAs, Topmost
<1>8. Shifted(crc) \in Word16
  BY <1>3, <1>4, <1>5, <1>6 DEF Word16
<1>9. QED
  BY <1>7, <1>8

LEMMA ShiftedWord ==
  ASSUME NEW crc \in Word16
  PROVE  Shifted(crc) \in Word16
BY ShiftedDigits

LEMMA ShiftedInjective ==
  ASSUME NEW c \in Word16, NEW d \in Word16, Shifted(c) = Shifted(d)
  PROVE  c = d
<1>1. PICK h \in Nat, p \in {0, 1} : ShiftedAs(c, h, p)
  BY ShiftedDigits
<1>2. PICK k \in Nat, q \in {0, 1} : ShiftedAs(d, k, q)
  BY ShiftedDigits
<1>3. p = q
  BY <1>1, <1>2 DEF ShiftedAs
<1>4. h = k
  <2>1. CASE p = 1
    <3>1. Xor[<<h, Poly>>] = Xor[<<k, Poly>>]
      BY <1>1, <1>2, <1>3, <2>1 DEF ShiftedAs
    <3>2. Poly \in Nat
      BY DEF Poly
    <3>3. QED
      BY <3>1, <3>2, XorInjectiveLeft
  <2>2. CASE p = 0
    BY <1>1, <1>2, <1>3, <2>2 DEF ShiftedAs
  <2>3. QED
    BY <2>1, <2>2
<1>5. QED
  BY <1>1, <1>2, <1>3, <1>4 DEF ShiftedAs

(* What the steps of a byte are.                                           *)
IsAfter(f, crc, byte) ==
  f = [j \in 0..8 |-> IF j = 0 THEN Xor[<<crc, byte>>] ELSE Shifted(f[j - 1])]

LEMMA CrcByteChosen ==
  ASSUME NEW crc, NEW byte
  PROVE  CrcByte(crc, byte) = (CHOOSE f : IsAfter(f, crc, byte))[8]
BY Zenon DEF CrcByte, IsAfter

ByteRun(g, crc, byte) ==
  /\ g \in [0..8 -> Word16]
  /\ g[0] = Xor[<<crc, byte>>]
  /\ \A j \in 0..7 : g[j + 1] = Shifted(g[j])

LEMMA CrcByteRun ==
  ASSUME NEW crc \in Word16, NEW byte \in Word16
  PROVE  \E g : ByteRun(g, crc, byte) /\ CrcByte(crc, byte) = g[8]
<1> DEFINE first == Xor[<<crc, byte>>]
           step == [x \in Word16 \X Nat |-> Shifted(x[1])]
<1>1. first \in Word16
  BY XorWord
<1>2. step \in [Word16 \X Nat -> Word16]
  BY ShiftedWord
<1>3. PICK f : Follows(f, 8, Word16, first, step)
  <2> HIDE DEF first, step
  <2>1. QED
    BY <1>1, <1>2, RunExists
<1>4. ASSUME NEW j \in 1..8 PROVE f[j] = Shifted(f[j - 1])
  <2>1. f[j] = step[<<f[j - 1], j>>]
    BY <1>3 DEF Follows
  <2>2. f[j - 1] \in Word16
    BY <1>3 DEF Follows
  <2>3. QED
    BY <2>1, <2>2
<1>5. f \in [0..8 -> Word16] /\ f[0] = first
  BY <1>3 DEF Follows
<1>6. IsAfter(f, crc, byte)
  BY <1>4, <1>5 DEF IsAfter
<1>7. PICK g : g = CHOOSE h : IsAfter(h, crc, byte)
  OBVIOUS
<1>8. IsAfter(g, crc, byte)
  BY <1>6, <1>7, Zenon
<1>9. CrcByte(crc, byte) = g[8]
  BY <1>7, CrcByteChosen
<1>10. g[0] = first /\ \A j \in 1..8 : g[j] = Shifted(g[j - 1])
  BY <1>8 DEF IsAfter
<1>11. \A j \in 0..7 : g[j + 1] = Shifted(g[j])
  BY <1>10
<1>12. ASSUME NEW c \in Word16 PROVE Shifted(c) \in Word16
  BY ShiftedWord
<1>13. g[0] \in Word16 /\ g[1] \in Word16 /\ g[2] \in Word16 /\ g[3] \in Word16
  BY <1>1, <1>10, <1>11, <1>12
<1>14. g[4] \in Word16 /\ g[5] \in Word16 /\ g[6] \in Word16 /\ g[7] \in Word16 /\ g[8] \in Word16
  BY <1>11, <1>12, <1>13
<1>15. g \in [0..8 -> Word16]
  BY <1>8, <1>13, <1>14 DEF IsAfter
<1>16. QED
  BY <1>9, <1>10, <1>11, <1>15 DEF ByteRun

LEMMA CrcByteWord ==
  ASSUME NEW crc \in Word16, NEW byte \in Word16
  PROVE  CrcByte(crc, byte) \in Word16
<1>1. PICK g : ByteRun(g, crc, byte) /\ CrcByte(crc, byte) = g[8]
  BY CrcByteRun
<1>2. QED
  BY <1>1 DEF ByteRun

LEMMA CrcByteXor ==
  ASSUME NEW c \in Word16, NEW b \in Word16, NEW d \in Word16, NEW e \in Word16,
         CrcByte(c, b) = CrcByte(d, e)
  PROVE  Xor[<<c, b>>] = Xor[<<d, e>>]
<1>1. PICK f : ByteRun(f, c, b) /\ CrcByte(c, b) = f[8]
  BY CrcByteRun
<1>2. PICK g : ByteRun(g, d, e) /\ CrcByte(d, e) = g[8]
  BY CrcByteRun
<1>3. ASSUME NEW j \in 0..7, NEW k \in 1..8, k = j + 1, f[k] = g[k]
      PROVE  f[j] = g[j]
  <2>1. f[j] \in Word16 /\ g[j] \in Word16
    BY <1>1, <1>2 DEF ByteRun
  <2>2. Shifted(f[j]) = Shifted(g[j])
    BY <1>1, <1>2, <1>3 DEF ByteRun
  <2>3. QED
    BY <2>1, <2>2, ShiftedInjective
<1>4. f[8] = g[8]
  BY <1>1, <1>2
<1>5. f[7] = g[7]
  <2>1. 7 \in 0..7 /\ 8 \in 1..8 /\ 8 = 7 + 1
    OBVIOUS
  <2>2. QED
    BY <1>3, <1>4, <2>1
<1>6. f[6] = g[6]
  BY <1>3, <1>5
<1>7. f[5] = g[5]
  BY <1>3, <1>6
<1>8. f[4] = g[4]
  BY <1>3, <1>7
<1>9. f[3] = g[3]
  BY <1>3, <1>8
<1>10. f[2] = g[2]
  BY <1>3, <1>9
<1>11. f[1] = g[1]
  BY <1>3, <1>10
<1>12. f[0] = g[0]
  BY <1>3, <1>11
<1>13. QED
  BY <1>1, <1>2, <1>12 DEF ByteRun

LEMMA CrcByteInjective ==
  ASSUME NEW c \in Word16, NEW d \in Word16, NEW b \in Word16, NEW e \in Word16
  PROVE  /\ CrcByte(c, b) = CrcByte(d, b) => c = d
         /\ CrcByte(c, b) = CrcByte(c, e) => b = e
<1>1. c \in Nat /\ d \in Nat /\ b \in Nat /\ e \in Nat
  BY DEF Word16
<1>2. ASSUME CrcByte(c, b) = CrcByte(d, b) PROVE c = d
  <2>1. Xor[<<c, b>>] = Xor[<<d, b>>]
    BY <1>2, CrcByteXor
  <2>2. QED
    BY <1>1, <2>1, XorInjectiveLeft
<1>3. ASSUME CrcByte(c, b) = CrcByte(c, e) PROVE b = e
  <2>1. Xor[<<c, b>>] = Xor[<<c, e>>]
    BY <1>3, CrcByteXor
  <2>2. QED
    BY <1>1, <2>1, XorInjectiveRight
<1>4. QED
  BY <1>2, <1>3

(* What the steps of a sequence of bytes are.                              *)
IsCrcAfter(f, bytes) ==
  f = [i \in 0..Len(bytes) |-> IF i = 0 THEN Ones ELSE CrcByte(f[i - 1], bytes[i])]

LEMMA Crc16Chosen ==
  ASSUME NEW bytes
  PROVE  Crc16(bytes) = (CHOOSE f : IsCrcAfter(f, bytes))[Len(bytes)]
BY Zenon DEF Crc16, IsCrcAfter

CrcRun(g, bytes) ==
  /\ g \in [0..Len(bytes) -> Word16]
  /\ g[0] = Ones
  /\ \A i \in 1..Len(bytes) : g[i] = CrcByte(g[i - 1], bytes[i])

LEMMA ByteWord ==
  ASSUME NEW b \in Byte
  PROVE  b \in Word16 /\ b \in Nat /\ b < 256
BY DEF Byte, Word16

LEMMA Crc16Run ==
  ASSUME NEW bytes \in Seq(Byte)
  PROVE  \E g : CrcRun(g, bytes) /\ Crc16(bytes) = g[Len(bytes)]
<1> DEFINE step == [x \in Word16 \X Nat |->
                      IF x[2] \in 1..Len(bytes) THEN CrcByte(x[1], bytes[x[2]]) ELSE x[1]]
<1>0. Len(bytes) \in Nat /\ \A i \in 1..Len(bytes) : bytes[i] \in Word16
  <2>1. Len(bytes) \in Nat /\ \A i \in 1..Len(bytes) : bytes[i] \in Byte
    OBVIOUS
  <2>2. QED
    BY <2>1, ByteWord
<1>1. Ones \in Word16
  BY DEF Word16, Ones
<1>2. step \in [Word16 \X Nat -> Word16]
  BY <1>0, CrcByteWord
<1>3. PICK f : Follows(f, Len(bytes), Word16, Ones, step)
  <2> HIDE DEF step
  <2>1. QED
    BY <1>0, <1>1, <1>2, RunExists
<1>4. ASSUME NEW i \in 1..Len(bytes) PROVE f[i] = CrcByte(f[i - 1], bytes[i])
  <2>1. f[i] = step[<<f[i - 1], i>>]
    BY <1>3 DEF Follows
  <2>2. f[i - 1] \in Word16
    BY <1>0, <1>3 DEF Follows
  <2>3. QED
    BY <2>1, <2>2
<1>5. f \in [0..Len(bytes) -> Word16] /\ f[0] = Ones
  BY <1>3 DEF Follows
<1>6. IsCrcAfter(f, bytes)
  BY <1>1, <1>4, <1>5 DEF IsCrcAfter
<1>7. PICK g : g = CHOOSE h : IsCrcAfter(h, bytes)
  OBVIOUS
<1>8. IsCrcAfter(g, bytes)
  BY <1>6, <1>7, Zenon
<1>9. Crc16(bytes) = g[Len(bytes)]
  BY <1>7, Crc16Chosen
<1>10. g[0] = Ones /\ \A i \in 1..Len(bytes) : g[i] = CrcByte(g[i - 1], bytes[i])
  BY <1>0, <1>1, <1>8 DEF IsCrcAfter
<1> DEFINE T == {i \in Nat : i =< Len(bytes) => g[i] \in Word16}
<1>11. 0 \in T
  BY <1>1, <1>10
<1>12. ASSUME NEW i \in Nat, i \in T PROVE i + 1 \in T
  <2>1. SUFFICES ASSUME i + 1 =< Len(bytes) PROVE g[i + 1] \in Word16
    OBVIOUS
  <2>2. g[i] \in Word16 /\ i + 1 \in 1..Len(bytes) /\ (i + 1) - 1 = i
    BY <1>0, <1>12, <2>1
  <2>3. QED
    BY <1>0, <1>10, <2>2, CrcByteWord
<1>13. \A i \in Nat : i \in T
  <2> HIDE DEF T
  <2>1. QED
    BY <1>11, <1>12, Induction
<1>14. g \in [0..Len(bytes) -> Word16]
  <2>1. \A i \in 0..Len(bytes) : g[i] \in Word16
    BY <1>13
  <2>2. QED
    BY <1>8, <2>1 DEF IsCrcAfter
<1>15. QED
  BY <1>9, <1>10, <1>14 DEF CrcRun

LEMMA Crc16Word ==
  ASSUME NEW bytes \in Seq(Byte)
  PROVE  Crc16(bytes) \in Word16
<1>1. PICK g : CrcRun(g, bytes) /\ Crc16(bytes) = g[Len(bytes)]
  BY Crc16Run
<1>2. Len(bytes) \in 0..Len(bytes)
  OBVIOUS
<1>3. QED
  BY <1>1, <1>2 DEF CrcRun

(* One byte that differs shows in the CRC, wherever it is and whatever     *)
(* comes before and after it.                                              *)
DifferAt(s, t, k) ==
  /\ Len(s) = Len(t) /\ k \in 1..Len(s)
  /\ s[k] # t[k]
  /\ \A i \in 1..Len(s) : i # k => s[i] = t[i]

LEMMA CrcTellsOneByte ==
  ASSUME NEW s \in Seq(Byte), NEW t \in Seq(Byte), NEW k, DifferAt(s, t, k)
  PROVE  Crc16(s) # Crc16(t)
<1>1. PICK f : CrcRun(f, s) /\ Crc16(s) = f[Len(s)]
  BY Crc16Run
<1>2. PICK g : CrcRun(g, t) /\ Crc16(t) = g[Len(t)]
  BY Crc16Run
<1>3. PICK n \in Nat : n = Len(s) /\ n = Len(t) /\ k \in 1..n
  BY DEF DifferAt
<1>4. ASSUME NEW i \in 1..n PROVE s[i] \in Word16 /\ t[i] \in Word16
  <2>1. s[i] \in Byte /\ t[i] \in Byte
    <3>1. i \in 1..Len(s) /\ i \in 1..Len(t)
      BY <1>3
    <3>2. QED
      BY <3>1
  <2>2. QED
    BY <2>1, ByteWord
<1>5. ASSUME NEW i \in Nat, NEW j \in 1..n, j = i + 1
      PROVE  /\ f[i] \in Word16 /\ g[i] \in Word16
             /\ f[j] = CrcByte(f[i], s[j]) /\ g[j] = CrcByte(g[i], t[j])
  <2>1. j - 1 = i /\ i \in 0..n
    BY <1>5
  <2>2. f[j] = CrcByte(f[j - 1], s[j]) /\ g[j] = CrcByte(g[j - 1], t[j])
    BY <1>1, <1>2, <1>3 DEF CrcRun
  <2>3. f[i] \in Word16 /\ g[i] \in Word16
    BY <1>1, <1>2, <1>3, <2>1 DEF CrcRun
  <2>4. QED
    BY <2>1, <2>2, <2>3
<1> DEFINE T == {i \in Nat : i =< n => (f[i] = g[i] <=> i < k)}
<1>6. 0 \in T
  <2>1. f[0] = g[0]
    BY <1>1, <1>2 DEF CrcRun
  <2>2. QED
    BY <1>3, <2>1
<1>7. ASSUME NEW i \in Nat, i \in T PROVE i + 1 \in T
  <2>1. SUFFICES ASSUME NEW j \in Nat, j = i + 1, j =< n
                 PROVE  f[j] = g[j] <=> j < k
    OBVIOUS
  <2>2. j \in 1..n
    BY <2>1
  <2>3. /\ f[i] \in Word16 /\ g[i] \in Word16
        /\ f[j] = CrcByte(f[i], s[j]) /\ g[j] = CrcByte(g[i], t[j])
    BY <1>5, <2>1, <2>2
  <2>4. s[j] \in Word16 /\ t[j] \in Word16
    BY <1>4, <2>2
  <2>5. f[i] = g[i] <=> i < k
    BY <1>7, <2>1
  <2>6. CASE j < k
    <3>1. f[i] = g[i]
      BY <1>3, <2>1, <2>5, <2>6
    <3>2. s[j] = t[j]
      BY <1>3, <2>2, <2>6 DEF DifferAt
    <3>3. QED
      BY <2>3, <2>6, <3>1, <3>2
  <2>7. CASE j = k
    <3>1. f[i] = g[i]
      BY <1>3, <2>1, <2>5, <2>7
    <3>2. s[j] # t[j]
      BY <2>7 DEF DifferAt
    <3>3. CrcByte(f[i], s[j]) # CrcByte(f[i], t[j])
      BY <2>3, <2>4, <3>2, CrcByteInjective
    <3>4. QED
      BY <1>3, <2>3, <2>7, <3>1, <3>3
  <2>8. CASE j > k
    <3>1. f[i] # g[i]
      BY <1>3, <2>1, <2>5, <2>8
    <3>2. s[j] = t[j]
      BY <1>3, <2>2, <2>8 DEF DifferAt
    <3>3. CrcByte(f[i], s[j]) # CrcByte(g[i], s[j])
      BY <2>3, <2>4, <3>1, CrcByteInjective
    <3>4. QED
      BY <1>3, <2>3, <2>8, <3>2, <3>3
  <2>9. QED
    BY <1>3, <2>6, <2>7, <2>8
<1>8. n \in T
  <2>1. \A i \in Nat : i \in T
    <3> HIDE DEF T
    <3>1. QED
      BY <1>6, <1>7, Induction
  <2>2. QED
    BY <1>3, <2>1
<1>9. QED
  BY <1>1, <1>2, <1>3, <1>8

-----------------------------------------------------------------------------
(* Beginnings of sequences. *)
LEMMA Beginning ==
  ASSUME NEW S, NEW s \in Seq(S), NEW m \in Nat, m =< Len(s)
  PROVE  /\ SubSeq(s, 1, m) \in Seq(S)
         /\ Len(SubSeq(s, 1, m)) = m
         /\ \A i \in 1..m : SubSeq(s, 1, m)[i] = s[i]
<1>1. \A i \in 1..m : s[i] \in S
  OBVIOUS
<1>2. 1 \in Int /\ m \in Int
  OBVIOUS
<1>3. /\ SubSeq(s, 1, m) \in Seq(S)
      /\ Len(SubSeq(s, 1, m)) = IF 1 <= m THEN m - 1 + 1 ELSE 0
      /\ \A i \in 1 .. m - 1 + 1 : SubSeq(s, 1, m)[i] = s[1 + i - 1]
  BY <1>1, <1>2, SubSeqProperties
<1>4. m - 1 + 1 = m
  OBVIOUS
<1>5. \A i \in 1..m : 1 + i - 1 = i
  OBVIOUS
<1>6. QED
  BY <1>3, <1>4, <1>5

LEMMA NextBeginning ==
  ASSUME NEW S, NEW s \in Seq(S), NEW m \in Nat, NEW n \in Nat, n = m + 1, n =< Len(s)
  PROVE  Append(SubSeq(s, 1, m), s[n]) = SubSeq(s, 1, n)
<1>1. PICK u : u = SubSeq(s, 1, m)
  OBVIOUS
<1>2. PICK v : v = SubSeq(s, 1, n)
  OBVIOUS
<1>3. u \in Seq(S) /\ Len(u) = m /\ \A i \in 1..m : u[i] = s[i]
  BY <1>1, Beginning
<1>4. v \in Seq(S) /\ Len(v) = n /\ \A i \in 1..n : v[i] = s[i]
  BY <1>2, Beginning
<1>5. s[n] \in S
  OBVIOUS
<1>6. PICK w : w = Append(u, s[n])
  OBVIOUS
<1>7. /\ w \in Seq(S) /\ Len(w) = m + 1
      /\ \A i \in 1..m : w[i] = u[i]
      /\ w[m + 1] = s[n]
  BY <1>3, <1>5, <1>6, AppendProperties
<1>8. \A i \in 1..Len(w) : w[i] = v[i]
  <2>1. ASSUME NEW i \in 1..n PROVE w[i] = v[i]
    <3>1. CASE i = n
      BY <1>4, <1>7, <3>1
    <3>2. CASE i # n
      <4>1. i \in 1..m
        BY <3>2
      <4>2. QED
        BY <1>3, <1>4, <1>7, <4>1
    <3>3. QED
      BY <3>1, <3>2
  <2>2. QED
    BY <1>7, <2>1
<1>9. Len(w) = Len(v)
  BY <1>4, <1>7
<1>10. w = v
  BY <1>4, <1>7, <1>8, <1>9, SeqEqual
<1>11. QED
  BY <1>1, <1>2, <1>6, <1>10

-----------------------------------------------------------------------------
(* The receiver. *)
At(a, f, buffer, started, length, state) ==
  [slave_addr |-> a, function_code |-> f, buffer |-> buffer,
   frame_started |-> started, expected_length |-> length, state |-> state]

LEMMA ListeningAt ==
  ASSUME NEW a, NEW f
  PROVE  Listening(a, f) = At(a, f, <<>>, FALSE, 0, "receiving")
BY DEF Listening, At

LEMMA SearchMiss ==
  ASSUME NEW a, NEW f, NEW b, NEW buf, NEW one,
         buf = <<>> /\ b = a => one = <<b>>, ~ (buf = <<>> /\ b = a) => one = buf,
         ~ (Len(one) = 1 /\ b = f)
  PROVE  ReceiveByte(At(a, f, buf, FALSE, 0, "receiving"), b)
           = At(a, f, one, FALSE, 0, "receiving")
<1>1. PICK r : r = At(a, f, buf, FALSE, 0, "receiving")
  OBVIOUS
<1>2. r.state = "receiving" /\ r.frame_started = FALSE /\ r.buffer = buf
      /\ r.slave_addr = a /\ r.function_code = f
  BY <1>1 DEF At
<1>3. ReceiveByte(r, b) = [r EXCEPT !.buffer = one, !.frame_started = FALSE]
  BY <1>2 DEF ReceiveByte, Search
<1>4. QED
  BY <1>1, <1>3 DEF At

LEMMA SearchHit ==
  ASSUME NEW a, NEW f, NEW b, NEW buf, buf # <<>>, Len(buf) = 1, b = f
  PROVE  ReceiveByte(At(a, f, buf, FALSE, 0, "receiving"), b)
           = At(a, f, Append(buf, b), TRUE, 0, "receiving")
<1>1. PICK r : r = At(a, f, buf, FALSE, 0, "receiving")
  OBVIOUS
<1>2. r.state = "receiving" /\ r.frame_started = FALSE /\ r.buffer = buf
      /\ r.slave_addr = a /\ r.function_code = f
  BY <1>1 DEF At
<1>3. ReceiveByte(r, b) = [r EXCEPT !.buffer = Append(buf, b), !.frame_started = TRUE]
  BY <1>2 DEF ReceiveByte, Search
<1>4. QED
  BY <1>1, <1>3 DEF At

LEMMA OneByte ==
  ASSUME NEW a
  PROVE  Len(<<a>>) = 1 /\ <<a>> # <<>>
OBVIOUS

LEMMA Appended ==
  ASSUME NEW S, NEW s \in Seq(S), NEW e \in S
  PROVE  /\ Append(s, e) \in Seq(S)
         /\ Len(Append(s, e)) = Len(s) + 1
         /\ \A i \in 1..Len(s) : Append(s, e)[i] = s[i]
         /\ Append(s, e)[Len(s) + 1] = e
BY AppendProperties

LEMMA TwoBytes ==
  ASSUME NEW a \in Byte, NEW b \in Byte
  PROVE  Append(<<a>>, b) = <<a, b>>
<1>0. <<a>> \in Seq(Byte) /\ Len(<<a>>) = 1 /\ <<a>>[1] = a
  OBVIOUS
<1>1. PICK s \in Seq(Byte) : s = <<a>>
  BY <1>0
<1>2. Len(s) = 1 /\ s[1] = a
  BY <1>0, <1>1
<1>3. PICK t : t = Append(s, b)
  OBVIOUS
<1>4. /\ Append(s, b) \in Seq(Byte) /\ Len(Append(s, b)) = Len(s) + 1
      /\ \A i \in 1..Len(s) : Append(s, b)[i] = s[i]
      /\ Append(s, b)[Len(s) + 1] = b
  BY Appended
<1>5. t \in Seq(Byte) /\ Len(t) = 2 /\ t[1] = a /\ t[2] = b
  BY <1>2, <1>3, <1>4
<1>6. PICK u : u = <<a, b>>
  OBVIOUS
<1>7. u \in Seq(Byte) /\ Len(u) = 2 /\ u[1] = a /\ u[2] = b
  BY <1>6
<1>8. \A i \in 1..Len(t) : t[i] = u[i]
  BY <1>5, <1>7
<1>9. t = u
  BY <1>5, <1>7, <1>8, SeqEqual
<1>10. QED
  BY <1>1, <1>3, <1>6, <1>9

LEMMA SearchFirst ==
  ASSUME NEW a \in Byte, NEW f \in Byte, a # f, NEW b \in Byte
  PROVE  ReceiveByte(At(a, f, <<>>, FALSE, 0, "receiving"), b)
           = At(a, f, IF b = a THEN <<a>> ELSE <<>>, FALSE, 0, "receiving")
<1>0. Len(<<>>) = 0
  OBVIOUS
<1>1. PICK one : one = IF b = a THEN <<b>> ELSE <<>>
  OBVIOUS
<1>2. ~ (Len(one) = 1 /\ b = f)
  BY <1>0, <1>1
<1>3. PICK buf : buf = <<>>
  OBVIOUS
<1>4. (buf = <<>> /\ b = a => one = <<b>>) /\ (~ (buf = <<>> /\ b = a) => one = buf)
  BY <1>1, <1>3
<1>5. ReceiveByte(At(a, f, buf, FALSE, 0, "receiving"), b)
        = At(a, f, one, FALSE, 0, "receiving")
  BY <1>2, <1>4, SearchMiss
<1>6. QED
  BY <1>1, <1>3, <1>5

LEMMA SearchSecond ==
  ASSUME NEW a \in Byte, NEW f \in Byte, a # f, NEW b \in Byte
  PROVE  ReceiveByte(At(a, f, <<a>>, FALSE, 0, "receiving"), b)
           = IF b = f THEN At(a, f, <<a, f>>, TRUE, 0, "receiving")
                      ELSE At(a, f, <<a>>, FALSE, 0, "receiving")
<1>1. PICK one : one = <<a>>
  OBVIOUS
<1>2. Len(one) = 1 /\ one # <<>>
  BY <1>1, OneByte
<1>3. (one = <<>> /\ b = a => one = <<b>>) /\ (~ (one = <<>> /\ b = a) => one = one)
  BY <1>2
<1>4. CASE b = f
  <2>1. ReceiveByte(At(a, f, one, FALSE, 0, "receiving"), b)
          = At(a, f, Append(one, b), TRUE, 0, "receiving")
    BY <1>2, <1>4, SearchHit
  <2>2. Append(one, b) = <<a, f>>
    BY <1>1, <1>4, TwoBytes
  <2>3. QED
    BY <1>1, <1>4, <2>1, <2>2
<1>5. CASE b # f
  <2>1. ReceiveByte(At(a, f, one, FALSE, 0, "receiving"), b)
          = At(a, f, one, FALSE, 0, "receiving")
    BY <1>3, <1>5, SearchMiss
  <2>2. QED
    BY <1>1, <1>5, <2>1
<1>6. QED
  BY <1>4, <1>5

LengthFor(b) == (b + 5) % 256
OneMissing(buf, n) == Len(buf) # 2 /\ Len(buf) = n - 1
Compared(buf, b) ==
  IF b * 256 + buf[Len(buf)] = Crc16(SubSeq(buf, 1, Len(buf) - 1)) THEN "completed" ELSE "crc"

LEMMA TakeLength ==
  ASSUME NEW a \in Byte, NEW f \in Byte, NEW b \in Byte, NEW buf \in Seq(Byte), Len(buf) = 2
  PROVE  ReceiveByte(At(a, f, buf, TRUE, 0, "receiving"), b)
           = At(a, f, Append(buf, b), TRUE, LengthFor(b), "receiving")
BY DEF ReceiveByte, Take, At, LengthFor

LEMMA TakeByte ==
  ASSUME NEW a \in Byte, NEW f \in Byte, NEW b \in Byte, NEW buf \in Seq(Byte),
         NEW n \in Nat, Len(buf) # 2, Len(buf) # n - 1
  PROVE  ReceiveByte(At(a, f, buf, TRUE, n, "receiving"), b)
           = At(a, f, Append(buf, b), TRUE, n, "receiving")
BY DEF ReceiveByte, Take, At, AtEnd

LEMMA TakeLast ==
  ASSUME NEW a \in Byte, NEW f \in Byte, NEW b \in Byte, NEW buf \in Seq(Byte),
         NEW n \in Nat, OneMissing(buf, n)
  PROVE  ReceiveByte(At(a, f, buf, TRUE, n, "receiving"), b)
           = At(a, f, Append(buf, b), TRUE, n, Compared(buf, b))
BY DEF ReceiveByte, Take, At, AtEnd, Compared, OneMissing

(* The receiver while noise comes, and while a frame comes after it.       *)
Seen(noise, i, a) == \E j \in 1..i : noise[j] = a
InNoise(a, f, noise, i) ==
  At(a, f, IF Seen(noise, i, a) THEN <<a>> ELSE <<>>, FALSE, 0, "receiving")

Judged(frame) ==
  LET n == Len(frame)
  IN  IF frame[n] * 256 + frame[n - 1] = Crc16(SubSeq(frame, 1, n - 2))
      THEN "completed" ELSE "crc"
InFrame(a, f, frame, m) ==
  At(a, f, SubSeq(frame, 1, m), m >= 2, IF m >= 3 THEN Len(frame) ELSE 0,
     IF m < Len(frame) THEN "receiving" ELSE Judged(frame))

(* Noise in which the function code does not follow the address.           *)
Unheard(noise, a, f) ==
  \A i, j \in 1..Len(noise) : i < j /\ noise[i] = a => noise[j] # f

(* An answer as long as its third byte says.                               *)
Framed(frame, a, f) ==
  /\ frame \in Seq(Byte) /\ Len(frame) >= 5
  /\ frame[1] = a /\ frame[2] = f
  /\ frame[3] =< 250 /\ Len(frame) = frame[3] + 5

LEMMA NoiseStep ==
  ASSUME NEW a \in Byte, NEW f \in Byte, a # f, NEW noise \in Seq(Byte), Unheard(noise, a, f),
         NEW i \in Nat, NEW j \in 1..Len(noise), j = i + 1
  PROVE  ReceiveByte(InNoise(a, f, noise, i), noise[j]) = InNoise(a, f, noise, j)
<1>1. PICK b \in Byte : b = noise[j]
  OBVIOUS
<1>2. Seen(noise, j, a) <=> Seen(noise, i, a) \/ b = a
  BY <1>1 DEF Seen
<1>3. CASE Seen(noise, i, a)
  <2>1. b # f
    <3>1. PICK k \in 1..i : noise[k] = a
      BY <1>3 DEF Seen
    <3>2. k \in 1..Len(noise) /\ k < j
      BY <3>1
    <3>3. QED
      BY <1>1, <3>1, <3>2 DEF Unheard
  <2>2. InNoise(a, f, noise, i) = At(a, f, <<a>>, FALSE, 0, "receiving")
    BY <1>3 DEF InNoise
  <2>3. InNoise(a, f, noise, j) = At(a, f, <<a>>, FALSE, 0, "receiving")
    BY <1>2, <1>3 DEF InNoise
  <2>4. ReceiveByte(At(a, f, <<a>>, FALSE, 0, "receiving"), b)
          = At(a, f, <<a>>, FALSE, 0, "receiving")
    BY <2>1, SearchSecond
  <2>5. QED
    BY <1>1, <2>2, <2>3, <2>4
<1>4. CASE ~ Seen(noise, i, a)
  <2>1. InNoise(a, f, noise, i) = At(a, f, <<>>, FALSE, 0, "receiving")
    BY <1>4 DEF InNoise
  <2>2. InNoise(a, f, noise, j)
          = At(a, f, IF b = a THEN <<a>> ELSE <<>>, FALSE, 0, "receiving")
    BY <1>2, <1>4 DEF InNoise
  <2>3. ReceiveByte(At(a, f, <<>>, FALSE, 0, "receiving"), b)
          = At(a, f, IF b = a THEN <<a>> ELSE <<>>, FALSE, 0, "receiving")
    BY SearchFirst
  <2>4. QED
    BY <1>1, <2>1, <2>2, <2>3
<1>5. QED
  BY <1>3, <1>4

LEMMA FirstOfFrame ==
  ASSUME NEW S, NEW s \in Seq(S), Len(s) >= 2
  PROVE  SubSeq(s, 1, 1) = <<s[1]>> /\ SubSeq(s, 1, 2) = <<s[1], s[2]>>
<1>0. s[1] \in S /\ s[2] \in S
  OBVIOUS
<1>1. PICK u : u = SubSeq(s, 1, 1)
  OBVIOUS
<1>2. u \in Seq(S) /\ Len(u) = 1 /\ \A i \in 1..1 : u[i] = s[i]
  BY <1>1, Beginning
<1>3. <<s[1]>> \in Seq(S) /\ Len(<<s[1]>>) = 1 /\ <<s[1]>>[1] = s[1]
  BY <1>0
<1>4. u = <<s[1]>>
  <2>1. \A i \in 1..Len(u) : u[i] = <<s[1]>>[i]
    BY <1>2, <1>3
  <2>2. QED
    BY <1>2, <1>3, <2>1, SeqEqual
<1>5. PICK v : v = SubSeq(s, 1, 2)
  OBVIOUS
<1>6. v \in Seq(S) /\ Len(v) = 2 /\ \A i \in 1..2 : v[i] = s[i]
  BY <1>5, Beginning
<1>7. PICK w : w = <<s[1], s[2]>>
  OBVIOUS
<1>8. w \in Seq(S) /\ Len(w) = 2 /\ w[1] = s[1] /\ w[2] = s[2]
  BY <1>0, <1>7
<1>9. v = w
  <2>1. \A i \in 1..Len(v) : v[i] = w[i]
    BY <1>6, <1>8
  <2>2. QED
    BY <1>6, <1>8, <2>1, SeqEqual
<1>10. QED
  BY <1>1, <1>4, <1>5, <1>7, <1>9

LEMMA FrameStart ==
  ASSUME NEW a \in Byte, NEW f \in Byte, a # f, NEW noise \in Seq(Byte), NEW i \in Nat,
         NEW frame, Framed(frame, a, f)
  PROVE  /\ ReceiveByte(InNoise(a, f, noise, i), frame[1]) = InFrame(a, f, frame, 1)
         /\ ReceiveByte(InFrame(a, f, frame, 1), frame[2]) = InFrame(a, f, frame, 2)
<1>1. Len(frame) \in Nat /\ Len(frame) >= 5 /\ frame \in Seq(Byte)
      /\ frame[1] = a /\ frame[2] = f
  BY DEF Framed
<1>2. SubSeq(frame, 1, 1) = <<a>> /\ SubSeq(frame, 1, 2) = <<a, f>>
  BY <1>1, FirstOfFrame
<1>3. InFrame(a, f, frame, 1) = At(a, f, <<a>>, FALSE, 0, "receiving")
  <2>1. (1 >= 2) = FALSE
    OBVIOUS
  <2>2. ~ (1 >= 3) /\ 1 < Len(frame)
    BY <1>1
  <2>3. QED
    BY <1>2, <2>1, <2>2 DEF InFrame
<1>4. InFrame(a, f, frame, 2) = At(a, f, <<a, f>>, TRUE, 0, "receiving")
  <2>1. (2 >= 2) = TRUE
    OBVIOUS
  <2>2. ~ (2 >= 3) /\ 2 < Len(frame)
    BY <1>1
  <2>3. QED
    BY <1>2, <2>1, <2>2 DEF InFrame
<1>5. ReceiveByte(InNoise(a, f, noise, i), a) = At(a, f, <<a>>, FALSE, 0, "receiving")
  <2>1. CASE Seen(noise, i, a)
    <3>1. InNoise(a, f, noise, i) = At(a, f, <<a>>, FALSE, 0, "receiving")
      BY <2>1 DEF InNoise
    <3>2. QED
      BY <3>1, SearchSecond
  <2>2. CASE ~ Seen(noise, i, a)
    <3>1. InNoise(a, f, noise, i) = At(a, f, <<>>, FALSE, 0, "receiving")
      BY <2>2 DEF InNoise
    <3>2. QED
      BY <3>1, SearchFirst
  <2>3. QED
    BY <2>1, <2>2
<1>6. ReceiveByte(At(a, f, <<a>>, FALSE, 0, "receiving"), f)
        = At(a, f, <<a, f>>, TRUE, 0, "receiving")
  BY SearchSecond
<1>7. QED
  BY <1>1, <1>3, <1>4, <1>5, <1>6

Ahead(frame, m, n) == n = m + 1 /\ m >= 2 /\ n =< Len(frame)

LEMMA FrameStep ==
  ASSUME NEW a \in Byte, NEW f \in Byte, a # f,
         NEW frame, Framed(frame, a, f),
         NEW m \in Nat, NEW n \in Nat, Ahead(frame, m, n)
  PROVE  ReceiveByte(InFrame(a, f, frame, m), frame[n]) = InFrame(a, f, frame, n)
<1>1. PICK N \in Nat : N = Len(frame)
  BY DEF Framed
<1>0. n = m + 1 /\ m >= 2 /\ n =< N
  BY <1>1 DEF Ahead
<1>2. frame \in Seq(Byte) /\ N >= 5 /\ frame[3] =< 250 /\ N = frame[3] + 5
  BY <1>1 DEF Framed
<1>3. PICK b \in Byte : b = frame[n]
  <2>1. n \in 1..Len(frame)
    BY <1>0, <1>1
  <2>2. frame[n] \in Byte
    BY <1>2, <2>1
  <2>3. QED
    BY <2>2
<1>4. b \in Nat
  BY ByteWord
<1>5. m \in 1..N /\ n \in 1..N
  BY <1>0
<1>6. PICK buf \in Seq(Byte) : buf = SubSeq(frame, 1, m)
  <2>1. m =< Len(frame)
    BY <1>1, <1>5
  <2>2. SubSeq(frame, 1, m) \in Seq(Byte)
    BY <1>2, <2>1, Beginning
  <2>3. QED
    BY <2>2
<1>7. Len(buf) = m /\ \A i \in 1..m : buf[i] = frame[i]
  <2>1. m =< Len(frame)
    BY <1>1, <1>5
  <2>2. QED
    BY <1>2, <1>6, <2>1, Beginning
<1>8. Append(buf, b) = SubSeq(frame, 1, n)
  BY <1>0, <1>1, <1>2, <1>3, <1>6, NextBeginning
<1>9. (m >= 2) = TRUE /\ (n >= 2) = TRUE /\ n >= 3 /\ m < N
  BY <1>0
<1>10. InFrame(a, f, frame, m) = At(a, f, buf, TRUE, IF m >= 3 THEN N ELSE 0, "receiving")
  BY <1>1, <1>6, <1>9 DEF InFrame
<1>11. InFrame(a, f, frame, n)
         = At(a, f, Append(buf, b), TRUE, N, IF n < N THEN "receiving" ELSE Judged(frame))
  BY <1>1, <1>8, <1>9 DEF InFrame
<1>12. CASE m = 2
  <2>1. ReceiveByte(At(a, f, buf, TRUE, 0, "receiving"), b)
          = At(a, f, Append(buf, b), TRUE, LengthFor(b), "receiving")
    <3>1. Len(buf) = 2
      BY <1>7, <1>12
    <3>2. QED
      BY <3>1, TakeLength
  <2>2. b =< 250 /\ N = b + 5
    BY <1>0, <1>2, <1>3, <1>12
  <2>3. LengthFor(b) = N
    BY <1>4, <2>2 DEF LengthFor
  <2>4. ~ (m >= 3) /\ n < N
    BY <1>0, <1>2, <1>12
  <2>5. QED
    BY <1>3, <1>10, <1>11, <2>1, <2>3, <2>4
<1>13. CASE m # 2 /\ n < N
  <2>1. m # N - 1 /\ m >= 3
    BY <1>0, <1>13
  <2>2. ReceiveByte(At(a, f, buf, TRUE, N, "receiving"), b)
          = At(a, f, Append(buf, b), TRUE, N, "receiving")
    <3>1. Len(buf) # 2 /\ Len(buf) # N - 1
      BY <1>7, <1>13, <2>1
    <3>2. QED
      BY <3>1, TakeByte
  <2>3. QED
    BY <1>3, <1>10, <1>11, <1>13, <2>1, <2>2
<1>14. CASE m # 2 /\ n = N
  <2>1. m = N - 1 /\ m >= 3 /\ ~ (n < N)
    BY <1>0, <1>14
  <2>2. ReceiveByte(At(a, f, buf, TRUE, N, "receiving"), b)
          = At(a, f, Append(buf, b), TRUE, N, Compared(buf, b))
    <3>1. OneMissing(buf, N)
      BY <1>7, <1>14, <2>1 DEF OneMissing
    <3>2. QED
      BY <3>1, TakeLast, ZenonT(60)
  <2>3. buf[m] = frame[m]
    BY <1>7, <2>1
  <2>4. SubSeq(buf, 1, m - 1) = SubSeq(frame, 1, N - 2)
    <3>0. m - 1 \in Nat /\ m - 1 = N - 2 /\ m - 1 =< Len(buf) /\ m - 1 =< Len(frame)
      BY <1>1, <1>7, <2>1
    <3>1. PICK k \in Nat : k = m - 1
      BY <3>0
    <3>2. PICK u \in Seq(Byte) : u = SubSeq(buf, 1, k)
      BY <3>0, <3>1, Beginning
    <3>3. PICK v \in Seq(Byte) : v = SubSeq(frame, 1, k)
      BY <1>2, <3>0, <3>1, Beginning
    <3>4. Len(u) = k /\ \A i \in 1..k : u[i] = buf[i]
      BY <3>0, <3>1, <3>2, Beginning
    <3>5. Len(v) = k /\ \A i \in 1..k : v[i] = frame[i]
      BY <1>2, <3>0, <3>1, <3>3, Beginning
    <3>6. \A i \in 1..k : buf[i] = frame[i]
      BY <1>7, <3>1
    <3>7. \A i \in 1..Len(u) : u[i] = v[i]
      BY <3>4, <3>5, <3>6
    <3>8. u = v
      BY <3>4, <3>5, <3>7, SeqEqual
    <3>9. QED
      BY <3>0, <3>1, <3>2, <3>3, <3>8
  <2>5. Judged(frame) = Compared(buf, b)
    <3>1. N - 1 = m
      BY <2>1
    <3>2. QED
      BY <1>1, <1>3, <1>7, <1>14, <2>3, <2>4, <3>1 DEF Judged, Compared
  <2>6. QED
    BY <1>3, <1>10, <1>11, <2>1, <2>2, <2>5
<1>15. m = 2 \/ (m # 2 /\ n < N) \/ (m # 2 /\ n = N)
  BY <1>0
<1>16. QED
  BY <1>12, <1>13, <1>14, <1>15
-----------------------------------------------------------------------------
(* The loop of receiveModbusResponse over a line.                          *)
IsReceived(h, a, f, bytes) ==
  h = [i \in 0..Len(bytes) |->
         IF i = 0 THEN Listening(a, f) ELSE ReceiveByte(h[i - 1], bytes[i])]

LEMMA ReceivedChosen ==
  ASSUME NEW a, NEW f, NEW bytes
  PROVE  ReceiveModbusResponse(a, f, bytes)
           = (CHOOSE h : IsReceived(h, a, f, bytes))[Len(bytes)]
BY Zenon DEF ReceiveModbusResponse, IsReceived

Watched(e, a, f, bytes) ==
  /\ e = [i \in 0..Len(bytes) |-> e[i]]
  /\ e[0] = Listening(a, f)
  /\ \A i \in Nat : \A j \in 1..Len(bytes) : j = i + 1 => e[j] = ReceiveByte(e[i], bytes[j])

LEMMA ReceivedAs ==
  ASSUME NEW a, NEW f, NEW bytes, Len(bytes) \in Nat, NEW e, Watched(e, a, f, bytes)
  PROVE  ReceiveModbusResponse(a, f, bytes) = e[Len(bytes)]
<1>1. PICK n \in Nat : n = Len(bytes)
  OBVIOUS
<1>2. e = [i \in 0..n |-> e[i]] /\ e[0] = Listening(a, f)
  BY <1>1 DEF Watched
<1>3. ASSUME NEW i \in Nat, NEW j \in 1..n, j = i + 1
      PROVE  e[j] = ReceiveByte(e[i], bytes[j])
  BY <1>1, <1>3 DEF Watched
<1>4. IsReceived(e, a, f, bytes)
  <2> DEFINE h == [i \in 0..n |-> IF i = 0 THEN Listening(a, f)
                                  ELSE ReceiveByte(e[i - 1], bytes[i])]
  <2>1. ASSUME NEW j \in 0..n PROVE e[j] = h[j]
    <3>1. CASE j = 0
      BY <1>2, <3>1
    <3>2. CASE j # 0
      <4>1. PICK i \in Nat : i = j - 1 /\ j = i + 1
        BY <3>2
      <4>2. e[j] = ReceiveByte(e[i], bytes[j])
        BY <1>3, <3>2, <4>1
      <4>3. QED
        BY <3>2, <4>1, <4>2
    <3>3. QED
      BY <3>1, <3>2
  <2>2. e = h
    <3>1. h = [i \in 0..n |-> h[i]]
      OBVIOUS
    <3> HIDE DEF h
    <3>2. QED
      BY <1>2, <2>1, <3>1
  <2>3. QED
    BY <1>1, <2>2 DEF IsReceived
<1>5. PICK h : h = CHOOSE x : IsReceived(x, a, f, bytes)
  OBVIOUS
<1>6. IsReceived(h, a, f, bytes)
  BY <1>4, <1>5, Zenon
<1>7. h[0] = Listening(a, f)
  <2>1. 0 \in 0..Len(bytes)
    BY <1>1
  <2>2. QED
    BY <1>6, <2>1 DEF IsReceived
<1>8. ASSUME NEW i \in Nat, NEW j \in 1..n, j = i + 1
      PROVE  h[j] = ReceiveByte(h[i], bytes[j])
  <2>1. j \in 0..Len(bytes) /\ j # 0 /\ j - 1 = i
    BY <1>1, <1>8
  <2>2. h[j] = ReceiveByte(h[j - 1], bytes[j])
    BY <1>6, <2>1 DEF IsReceived
  <2>3. QED
    BY <2>1, <2>2
<1> DEFINE T == {i \in Nat : i =< n => h[i] = e[i]}
<1>9. 0 \in T
  BY <1>2, <1>7
<1>10. ASSUME NEW i \in Nat, i \in T PROVE i + 1 \in T
  <2>1. SUFFICES ASSUME NEW j \in Nat, j = i + 1, j =< n PROVE h[j] = e[j]
    OBVIOUS
  <2>2. j \in 1..n /\ h[i] = e[i]
    BY <1>10, <2>1
  <2>3. h[j] = ReceiveByte(h[i], bytes[j]) /\ e[j] = ReceiveByte(e[i], bytes[j])
    BY <1>3, <1>8, <2>1, <2>2
  <2>4. QED
    BY <2>2, <2>3
<1>11. \A i \in Nat : i \in T
  <2> HIDE DEF T
  <2>1. QED
    BY <1>9, <1>10, Induction
<1>12. h[n] = e[n]
  BY <1>11
<1>13. QED
  BY <1>1, <1>5, <1>12, ReceivedChosen

(* What has come of noise and the first m bytes of a frame after it.       *)
Line(bytes, noise, frame, m) ==
  /\ Len(bytes) = Len(noise) + m
  /\ m =< Len(frame)
  /\ \A i \in 1..Len(noise) : bytes[i] = noise[i]
  /\ \A i \in 1..m : bytes[Len(noise) + i] = frame[i]

LEMMA ReceiveLine ==
  ASSUME NEW a \in Byte, NEW f \in Byte, a # f,
         NEW noise \in Seq(Byte), Unheard(noise, a, f),
         NEW frame, Framed(frame, a, f),
         NEW m \in Nat, NEW bytes, Line(bytes, noise, frame, m)
  PROVE  ReceiveModbusResponse(a, f, bytes)
           = IF m = 0 THEN InNoise(a, f, noise, Len(noise)) ELSE InFrame(a, f, frame, m)
<1>1. PICK K \in Nat : K = Len(noise)
  OBVIOUS
<1>2. PICK N \in Nat : N = Len(frame)
  BY DEF Framed
<1>3. PICK n \in Nat : n = K + m
  OBVIOUS
<1>4. Len(bytes) = n /\ m =< N
  BY <1>1, <1>2, <1>3 DEF Line
<1>5. PICK e : e = [i \in 0..n |-> IF i =< K THEN InNoise(a, f, noise, i)
                                   ELSE InFrame(a, f, frame, i - K)]
  OBVIOUS
<1>6. e[0] = Listening(a, f)
  <2>1. e[0] = InNoise(a, f, noise, 0)
    BY <1>3, <1>5
  <2>2. ~ Seen(noise, 0, a)
    BY DEF Seen
  <2>3. QED
    BY <2>1, <2>2, ListeningAt DEF InNoise
<1>7. ASSUME NEW i \in Nat, NEW j \in 1..n, j = i + 1
      PROVE  e[j] = ReceiveByte(e[i], bytes[j])
  <2>1. CASE j =< K
    <3>1. j \in 1..Len(noise) /\ i =< K /\ i \in 0..n /\ j \in 0..n
      BY <1>1, <1>3, <1>7, <2>1
    <3>2. e[i] = InNoise(a, f, noise, i) /\ e[j] = InNoise(a, f, noise, j)
      BY <1>5, <2>1, <3>1
    <3>3. bytes[j] = noise[j]
      BY <3>1 DEF Line
    <3>4. ReceiveByte(InNoise(a, f, noise, i), noise[j]) = InNoise(a, f, noise, j)
      BY <1>7, <3>1, NoiseStep
    <3>5. QED
      BY <3>2, <3>3, <3>4
  <2>2. CASE j > K
    <3>1. PICK q \in 1..m : q = j - K /\ j = K + q
      BY <1>3, <2>2
    <3>2. e[j] = InFrame(a, f, frame, q)
      BY <1>5, <2>2, <3>1
    <3>3. bytes[j] = frame[q]
      BY <1>1, <3>1 DEF Line
    <3>4. CASE q = 1
      <4>1. i = K /\ i \in 0..n
        BY <1>3, <1>7, <3>1, <3>4
      <4>2. e[i] = InNoise(a, f, noise, i)
        BY <1>5, <4>1
      <4>3. ReceiveByte(InNoise(a, f, noise, i), frame[1]) = InFrame(a, f, frame, 1)
        BY FrameStart
      <4>4. QED
        BY <3>2, <3>3, <3>4, <4>2, <4>3
    <3>5. CASE q # 1
      <4>1. PICK p \in Nat : p = i - K /\ i = K + p /\ q = p + 1
        BY <1>7, <3>1, <3>5
      <4>2. i \in 0..n /\ ~ (i =< K) /\ p >= 1
        BY <1>7, <3>1, <3>5, <4>1
      <4>3. e[i] = InFrame(a, f, frame, p)
        BY <1>5, <4>1, <4>2
      <4>4. ReceiveByte(InFrame(a, f, frame, p), frame[q]) = InFrame(a, f, frame, q)
        <5>1. CASE p = 1
          <6>1. ReceiveByte(InFrame(a, f, frame, 1), frame[2]) = InFrame(a, f, frame, 2)
            BY FrameStart
          <6>2. q = 2
            BY <4>1, <5>1
          <6>3. QED
            BY <5>1, <6>1, <6>2
        <5>2. CASE p # 1
          <6>1. Ahead(frame, p, q) /\ q \in Nat
            BY <1>2, <1>4, <3>1, <4>1, <4>2, <5>2 DEF Ahead
          <6>2. QED
            BY <6>1, FrameStep
        <5>3. QED
          BY <5>1, <5>2
      <4>5. QED
        BY <3>2, <3>3, <4>3, <4>4
    <3>6. QED
      BY <3>4, <3>5
  <2>3. QED
    BY <2>1, <2>2
<1>8. Watched(e, a, f, bytes)
  <2>1. e = [i \in 0..n |-> e[i]]
    BY <1>5
  <2>2. QED
    BY <1>4, <1>6, <1>7, <2>1 DEF Watched
<1>9. ReceiveModbusResponse(a, f, bytes) = e[n]
  BY <1>4, <1>8, ReceivedAs
<1>10. CASE m = 0
  <2>1. n = K /\ n \in 0..n
    BY <1>3, <1>10
  <2>2. QED
    BY <1>1, <1>5, <1>9, <1>10, <2>1
<1>11. CASE m # 0
  <2>1. n > K /\ n \in 0..n /\ n - K = m
    BY <1>3, <1>11
  <2>2. e[n] = InFrame(a, f, frame, m)
    BY <1>5, <2>1
  <2>3. QED
    BY <1>9, <1>11, <2>2
<1>12. QED
  BY <1>10, <1>11
-----------------------------------------------------------------------------
(* What a sensor sends.                                                    *)
LEMMA Joined ==
  ASSUME NEW S, NEW s \in Seq(S), NEW t \in Seq(S)
  PROVE  /\ s \o t \in Seq(S) /\ Len(s \o t) = Len(s) + Len(t)
         /\ \A i \in 1..Len(s) : (s \o t)[i] = s[i]
         /\ \A i \in 1..Len(t) : (s \o t)[Len(s) + i] = t[i]
<1>1. s \o t \in Seq(S) /\ Len(s \o t) = Len(s) + Len(t)
  BY ConcatProperties
<1>2. ASSUME NEW i \in 1..Len(s) PROVE (s \o t)[i] = s[i]
  <2>1. i \in 1..Len(s) + Len(t) /\ i =< Len(s)
    OBVIOUS
  <2>2. QED
    BY <2>1, ConcatProperties
<1>3. ASSUME NEW i \in 1..Len(t) PROVE (s \o t)[Len(s) + i] = t[i]
  <2>1. PICK j \in 1..Len(s) + Len(t) : j = Len(s) + i /\ ~ (j =< Len(s)) /\ j - Len(s) = i
    OBVIOUS
  <2>2. (s \o t)[j] = t[j - Len(s)]
    BY <2>1, ConcatProperties
  <2>3. QED
    BY <2>1, <2>2
<1>4. QED
  BY <1>1, <1>2, <1>3

LEMMA Two ==
  ASSUME NEW w \in Word16
  PROVE  /\ w % 256 \in Byte /\ w \div 256 \in Byte
         /\ (w \div 256) * 256 + (w % 256) = w
BY DEF Word16, Byte

LEMMA SealedAs ==
  ASSUME NEW bytes \in Seq(Byte), NEW n \in Nat, n = Len(bytes)
  PROVE  /\ Sealed(bytes) \in Seq(Byte)
         /\ Len(Sealed(bytes)) = n + 2
         /\ \A i \in 1..n : Sealed(bytes)[i] = bytes[i]
         /\ Sealed(bytes)[n + 2] * 256 + Sealed(bytes)[n + 1] = Crc16(bytes)
<1>1. PICK crc \in Word16 : crc = Crc16(bytes)
  BY Crc16Word
<1>2. PICK lo \in Byte : lo = crc % 256
  BY Two
<1>3. PICK hi \in Byte : hi = crc \div 256
  BY Two
<1>4. hi * 256 + lo = crc
  BY <1>2, <1>3, Two
<1>5. Sealed(bytes) = bytes \o <<crc % 256, crc \div 256>>
  BY <1>1 DEF Sealed
<1>6. PICK end \in Seq(Byte) : end = <<lo, hi>>
  <2>1. <<lo, hi>> \in Seq(Byte)
    OBVIOUS
  <2>2. QED
    BY <2>1
<1>7. Len(end) = 2 /\ end[1] = lo /\ end[2] = hi
  BY <1>6
<1>8. PICK all : all = bytes \o end
  OBVIOUS
<1>9. /\ all \in Seq(Byte) /\ Len(all) = Len(bytes) + Len(end)
      /\ \A i \in 1..Len(bytes) : all[i] = bytes[i]
      /\ \A i \in 1..Len(end) : all[Len(bytes) + i] = end[i]
  BY <1>8, Joined
<1>10. all[n + 1] = lo /\ all[n + 2] = hi
  BY <1>7, <1>9
<1>11. Sealed(bytes) = all
  BY <1>2, <1>3, <1>5, <1>6, <1>8
<1>12. all[n + 2] * 256 + all[n + 1] = crc
  BY <1>4, <1>10
<1>13. QED
  BY <1>1, <1>7, <1>9, <1>11, <1>12

LEMMA BeginningOf ==
  ASSUME NEW S, NEW s \in Seq(S), NEW t \in Seq(S), NEW n \in Nat, n = Len(t),
         n =< Len(s), \A i \in 1..n : s[i] = t[i]
  PROVE  SubSeq(s, 1, n) = t
<1>1. PICK u \in Seq(S) : u = SubSeq(s, 1, n)
  <2>1. SubSeq(s, 1, n) \in Seq(S)
    BY Beginning
  <2>2. QED
    BY <2>1
<1>2. Len(u) = n /\ \A i \in 1..n : u[i] = s[i]
  BY <1>1, Beginning
<1>3. \A i \in 1..Len(u) : u[i] = t[i]
  BY <1>2
<1>4. QED
  BY <1>1, <1>2, <1>3, SeqEqual

LEMMA Three ==
  ASSUME NEW a \in Byte, NEW f \in Byte, NEW n \in Byte
  PROVE  /\ <<a, f, n>> \in Seq(Byte) /\ Len(<<a, f, n>>) = 3
         /\ <<a, f, n>>[1] = a /\ <<a, f, n>>[2] = f /\ <<a, f, n>>[3] = n
OBVIOUS

(* A whole answer with data d.                                             *)
Answering(frame, a, f, d) ==
  /\ frame \in Seq(Byte) /\ Len(frame) = Len(d) + 5
  /\ frame[1] = a /\ frame[2] = f /\ frame[3] = Len(d)
  /\ \A i \in 1..Len(d) : frame[3 + i] = d[i]
  /\ Judged(frame) = "completed"

LEMMA AnswerFrame ==
  ASSUME NEW a \in Byte, NEW f \in Byte, NEW asked, asked[1] = a, asked[2] = f,
         NEW d \in Seq(Byte), Len(d) =< 250
  PROVE  Answering(ResponseFrame(asked, d), a, f, d)
<1>1. PICK n \in Byte : n = Len(d)
  BY DEF Byte
<1>2. n \in Nat
  BY ByteWord
<1>3. PICK head \in Seq(Byte) : head = <<a, f, n>>
  BY Three
<1>4. Len(head) = 3 /\ head[1] = a /\ head[2] = f /\ head[3] = n
  BY <1>3, Three
<1>5. PICK body : body = head \o d
  OBVIOUS
<1>6. /\ body \in Seq(Byte) /\ Len(body) = Len(head) + Len(d)
      /\ \A i \in 1..Len(head) : body[i] = head[i]
      /\ \A i \in 1..Len(d) : body[Len(head) + i] = d[i]
  BY <1>5, Joined
<1>7. PICK m \in Nat : m = n + 3 /\ m = Len(body)
  BY <1>1, <1>2, <1>4, <1>6
<1>8. PICK frame \in Seq(Byte) : frame = Sealed(body)
  <2>1. Sealed(body) \in Seq(Byte)
    BY <1>6, <1>7, SealedAs
  <2>2. QED
    BY <2>1
<1>9. /\ Len(frame) = m + 2
      /\ \A i \in 1..m : frame[i] = body[i]
      /\ frame[m + 2] * 256 + frame[m + 1] = Crc16(body)
  BY <1>6, <1>7, <1>8, SealedAs
<1>10. ResponseFrame(asked, d) = frame
  BY <1>1, <1>3, <1>5, <1>8 DEF ResponseFrame
<1>11. Judged(frame) = "completed"
  <2>1. SubSeq(frame, 1, m) = body
    BY <1>6, <1>7, <1>9, BeginningOf
  <2>2. Len(frame) - 1 = m + 1 /\ Len(frame) - 2 = m
    BY <1>7, <1>9
  <2>3. QED
    BY <1>9, <2>1, <2>2 DEF Judged
<1>12. frame[1] = a /\ frame[2] = f /\ frame[3] = n
  <2>1. 1 \in 1..m /\ 2 \in 1..m /\ 3 \in 1..m
    BY <1>2, <1>7
  <2>2. QED
    BY <1>4, <1>6, <1>9, <2>1
<1>13. ASSUME NEW i \in 1..Len(d) PROVE frame[3 + i] = d[i]
  <2>1. 3 + i \in 1..m
    BY <1>1, <1>7
  <2>2. QED
    BY <1>4, <1>6, <1>9, <2>1
<1>14. Len(frame) = Len(d) + 5
  BY <1>1, <1>2, <1>7, <1>9
<1>15. QED
  BY <1>1, <1>10, <1>11, <1>12, <1>13, <1>14 DEF Answering

LEMMA AnswerFramed ==
  ASSUME NEW a \in Byte, NEW f \in Byte, NEW d \in Seq(Byte), Len(d) =< 250,
         NEW frame, Answering(frame, a, f, d)
  PROVE  Framed(frame, a, f)
<1>1. Len(d) \in Nat
  OBVIOUS
<1>2. QED
  BY <1>1 DEF Answering, Framed

LEMMA DataOf ==
  ASSUME NEW a \in Byte, NEW f \in Byte, NEW d \in Seq(Byte),
         NEW frame, Answering(frame, a, f, d), NEW r, r.buffer = frame
  PROVE  Data(r) = d
<1>1. PICK n \in Nat : n = Len(d)
  OBVIOUS
<1>2. frame \in Seq(Byte) /\ Len(frame) = n + 5 /\ frame[3] = n
      /\ \A i \in 1..n : frame[3 + i] = d[i]
  BY <1>1 DEF Answering
<1>3. Data(r) = SubSeq(frame, 4, 3 + n)
  BY <1>2 DEF Data
<1>4. PICK u : u = SubSeq(frame, 4, 3 + n)
  OBVIOUS
<1>5. u \in Seq(Byte) /\ Len(u) = n /\ \A i \in 1..n : u[i] = frame[3 + i]
  <2>1. Len(SubSeq(frame, 4, 3 + n)) = n
    BY <1>2
  <2>2. SubSeq(frame, 4, 3 + n) \in Seq(Byte)
    <3>1. ASSUME NEW i \in 4..3 + n PROVE frame[i] \in Byte
      <4>1. i \in 1..Len(frame)
        BY <1>2
      <4>2. QED
        BY <1>2, <4>1
    <3>2. QED
      BY <1>2, <3>1
  <2>3. ASSUME NEW i \in 1..n PROVE SubSeq(frame, 4, 3 + n)[i] = frame[3 + i]
    BY <1>2
  <2>4. QED
    BY <1>4, <2>1, <2>2, <2>3
<1>6. \A i \in 1..Len(u) : u[i] = d[i]
  BY <1>2, <1>5
<1>7. u = d
  BY <1>1, <1>5, <1>6, SeqEqual
<1>8. QED
  BY <1>3, <1>4, <1>7

LEMMA LineOf ==
  ASSUME NEW noise \in Seq(Byte), NEW frame \in Seq(Byte), NEW m \in Nat, m =< Len(frame)
  PROVE  Line(noise \o SubSeq(frame, 1, m), noise, frame, m)
<1>1. PICK u \in Seq(Byte) : u = SubSeq(frame, 1, m)
  <2>1. SubSeq(frame, 1, m) \in Seq(Byte)
    BY Beginning
  <2>2. QED
    BY <2>1
<1>2. Len(u) = m /\ \A i \in 1..m : u[i] = frame[i]
  BY <1>1, Beginning
<1>3. PICK all : all = noise \o u
  OBVIOUS
<1>4. /\ Len(all) = Len(noise) + Len(u)
      /\ \A i \in 1..Len(noise) : all[i] = noise[i]
      /\ \A i \in 1..Len(u) : all[Len(noise) + i] = u[i]
  BY <1>3, Joined
<1>5. Line(all, noise, frame, m)
  BY <1>2, <1>4 DEF Line
<1>6. QED
  BY <1>1, <1>3, <1>5

LEMMA LineWhole ==
  ASSUME NEW noise \in Seq(Byte), NEW frame \in Seq(Byte)
  PROVE  Line(noise \o frame, noise, frame, Len(frame))
<1>1. /\ Len(noise \o frame) = Len(noise) + Len(frame)
      /\ \A i \in 1..Len(noise) : (noise \o frame)[i] = noise[i]
      /\ \A i \in 1..Len(frame) : (noise \o frame)[Len(noise) + i] = frame[i]
  BY Joined
<1>2. QED
  BY <1>1 DEF Line

LEMMA Waiting ==
  ASSUME NEW a \in Byte, NEW f \in Byte, a # f,
         NEW noise \in Seq(Byte), Unheard(noise, a, f),
         NEW frame, Framed(frame, a, f), NEW m \in Nat, m < Len(frame)
  PROVE  ReceiveModbusResponse(a, f, noise \o SubSeq(frame, 1, m)).state = "receiving"
<1>1. frame \in Seq(Byte) /\ m =< Len(frame)
  BY DEF Framed
<1>2. PICK bytes : bytes = noise \o SubSeq(frame, 1, m)
  OBVIOUS
<1>3. Line(bytes, noise, frame, m)
  BY <1>1, <1>2, LineOf
<1>4. ReceiveModbusResponse(a, f, bytes)
        = IF m = 0 THEN InNoise(a, f, noise, Len(noise)) ELSE InFrame(a, f, frame, m)
  BY <1>3, ReceiveLine
<1>5. InNoise(a, f, noise, Len(noise)).state = "receiving"
  BY DEF InNoise, At
<1>6. InFrame(a, f, frame, m).state = "receiving"
  BY DEF InFrame, At
<1>7. QED
  BY <1>2, <1>4, <1>5, <1>6

LEMMA Ended ==
  ASSUME NEW a \in Byte, NEW f \in Byte, a # f,
         NEW noise \in Seq(Byte), Unheard(noise, a, f), NEW frame, Framed(frame, a, f)
  PROVE  /\ ReceiveModbusResponse(a, f, noise \o frame).state = Judged(frame)
         /\ ReceiveModbusResponse(a, f, noise \o frame).buffer = frame
<1>1. PICK n \in Nat : n = Len(frame) /\ n # 0 /\ frame \in Seq(Byte)
  BY DEF Framed
<1>2. PICK bytes : bytes = noise \o frame
  OBVIOUS
<1>3. Line(bytes, noise, frame, n)
  BY <1>1, <1>2, LineWhole
<1>4. ReceiveModbusResponse(a, f, bytes) = InFrame(a, f, frame, n)
  BY <1>1, <1>3, ReceiveLine
<1>5. InFrame(a, f, frame, n).state = Judged(frame)
  <2>1. ~ (n < Len(frame))
    BY <1>1
  <2>2. QED
    BY <2>1 DEF InFrame, At
<1>6. InFrame(a, f, frame, n).buffer = SubSeq(frame, 1, n)
  BY DEF InFrame, At
<1>7. SubSeq(frame, 1, n) = frame
  BY <1>1, BeginningOf
<1>8. QED
  BY <1>2, <1>4, <1>5, <1>6, <1>7

LEMMA WaitingAlone ==
  ASSUME NEW a \in Byte, NEW f \in Byte, a # f, NEW frame, Framed(frame, a, f)
  PROVE  ReceiveModbusResponse(a, f, SubSeq(frame, 1, Len(frame) - 1)).state = "receiving"
<1>1. PICK none \in Seq(Byte) : none = <<>>
  BY EmptySeq
<1>2. Unheard(none, a, f)
  <2>1. Len(none) = 0
    BY <1>1
  <2>2. QED
    BY <2>1 DEF Unheard
<1>3. PICK m \in Nat : m = Len(frame) - 1 /\ m < Len(frame) /\ m =< Len(frame)
  BY DEF Framed
<1>4. SubSeq(frame, 1, m) \in Seq(Byte)
  BY <1>3, Beginning DEF Framed
<1>5. none \o SubSeq(frame, 1, m) = SubSeq(frame, 1, m)
  BY <1>1, <1>4, ConcatEmptySeq
<1>6. ReceiveModbusResponse(a, f, none \o SubSeq(frame, 1, m)).state = "receiving"
  BY <1>2, <1>3, Waiting
<1>7. QED
  BY <1>3, <1>5, <1>6

LEMMA EndedAlone ==
  ASSUME NEW a \in Byte, NEW f \in Byte, a # f, NEW frame, Framed(frame, a, f)
  PROVE  /\ ReceiveModbusResponse(a, f, frame).state = Judged(frame)
         /\ ReceiveModbusResponse(a, f, frame).buffer = frame
<1>1. PICK none \in Seq(Byte) : none = <<>>
  BY EmptySeq
<1>2. Unheard(none, a, f)
  <2>1. Len(none) = 0
    BY <1>1
  <2>2. QED
    BY <2>1 DEF Unheard
<1>3. none \o frame = frame
  <2>1. frame \in Seq(Byte)
    BY DEF Framed
  <2>2. QED
    BY <1>1, <2>1, ConcatEmptySeq
<1>4. /\ ReceiveModbusResponse(a, f, none \o frame).state = Judged(frame)
      /\ ReceiveModbusResponse(a, f, none \o frame).buffer = frame
  BY <1>2, Ended
<1>5. QED
  BY <1>3, <1>4

(* An answer with up to 250 bytes of data, of any sensor to any request,   *)
(* is completed by its last byte and by none before it, and its data are   *)
(* what the sensor sent, whatever noise comes first in which the function  *)
(* code does not follow the address (receiveModbusResponse,                *)
(* calculateCRC16).                                                        *)
THEOREM AnswerTaken ==
  ASSUME NEW a \in Byte, NEW f \in Byte, a # f,
         NEW asked, asked[1] = a, asked[2] = f,
         NEW d \in Seq(Byte), Len(d) =< 250,
         NEW noise \in Seq(Byte), Unheard(noise, a, f)
  PROVE  LET frame == ResponseFrame(asked, d)
             r == ReceiveModbusResponse(a, f, noise \o frame)
         IN  /\ r.state = "completed" /\ Data(r) = d
             /\ \A m \in 0..Len(frame) - 1 :
                  ReceiveModbusResponse(a, f, noise \o SubSeq(frame, 1, m)).state = "receiving"
<1>1. PICK frame : frame = ResponseFrame(asked, d)
  OBVIOUS
<1>2. Answering(frame, a, f, d)
  BY <1>1, AnswerFrame
<1>3. Framed(frame, a, f)
  BY <1>2, AnswerFramed
<1>4. PICK r : r = ReceiveModbusResponse(a, f, noise \o frame)
  OBVIOUS
<1>5. r.state = Judged(frame) /\ r.buffer = frame
  BY <1>3, <1>4, Ended
<1>6. r.state = "completed"
  BY <1>2, <1>5 DEF Answering
<1>7. Data(r) = d
  BY <1>2, <1>5, DataOf
<1>8. ASSUME NEW m \in 0..Len(frame) - 1
      PROVE  ReceiveModbusResponse(a, f, noise \o SubSeq(frame, 1, m)).state = "receiving"
  <2>1. m \in Nat /\ m < Len(frame)
    BY <1>3 DEF Framed
  <2>2. QED
    BY <1>3, <2>1, Waiting
<1>9. QED
  BY <1>1, <1>4, <1>6, <1>7, <1>8

(* An answer in which any one byte after its length is damaged, in however *)
(* many bits, ends as a CRC error: calculateCRC16 tells any two frames     *)
(* apart that differ in one byte, its own two bytes included.              *)
THEOREM DamageNoticed ==
  ASSUME NEW a \in Byte, NEW f \in Byte, a # f,
         NEW asked, asked[1] = a, asked[2] = f,
         NEW d \in Seq(Byte), Len(d) =< 250,
         NEW noise \in Seq(Byte), Unheard(noise, a, f),
         NEW frame \in Seq(Byte), NEW k \in Nat, k > 3,
         DifferAt(ResponseFrame(asked, d), frame, k)
  PROVE  ReceiveModbusResponse(a, f, noise \o frame).state = "crc"
<1>1. PICK sent : sent = ResponseFrame(asked, d)
  OBVIOUS
<1>2. Answering(sent, a, f, d)
  BY <1>1, AnswerFrame
<1>3. PICK n \in Nat : n = Len(d) + 3 /\ n >= 3
  <2>1. Len(d) \in Nat
    OBVIOUS
  <2>2. QED
    BY <2>1
<1>4. /\ sent \in Seq(Byte) /\ Len(sent) = n + 2 /\ Judged(sent) = "completed"
      /\ Len(frame) = n + 2 /\ k \in 1..n + 2 /\ sent[k] # frame[k]
      /\ \A i \in 1..n + 2 : i # k => sent[i] = frame[i]
  BY <1>1, <1>2, <1>3 DEF Answering, DifferAt
<1>5. Framed(frame, a, f)
  <2>1. frame[1] = sent[1] /\ frame[2] = sent[2] /\ frame[3] = sent[3]
    BY <1>3, <1>4
  <2>2. Len(d) \in Nat
    OBVIOUS
  <2>3. QED
    BY <1>2, <1>3, <1>4, <2>1, <2>2 DEF Answering, Framed
<1>6. PICK p \in Byte : p = sent[n + 1]
  <2>1. n + 1 \in 1..Len(sent)
    BY <1>4
  <2>2. QED
    BY <1>4, <2>1
<1>7. PICK q \in Byte : q = sent[n + 2]
  <2>1. n + 2 \in 1..Len(sent)
    BY <1>4
  <2>2. QED
    BY <1>4, <2>1
<1>8. PICK x \in Byte : x = frame[n + 1]
  <2>1. n + 1 \in 1..Len(frame)
    BY <1>4
  <2>2. QED
    BY <1>4, <2>1
<1>9. PICK y \in Byte : y = frame[n + 2]
  <2>1. n + 2 \in 1..Len(frame)
    BY <1>4
  <2>2. QED
    BY <1>4, <2>1
<1>10. PICK s \in Seq(Byte) : s = SubSeq(sent, 1, n)
  <2>1. SubSeq(sent, 1, n) \in Seq(Byte)
    BY <1>4, Beginning
  <2>2. QED
    BY <2>1
<1>11. PICK t \in Seq(Byte) : t = SubSeq(frame, 1, n)
  <2>1. SubSeq(frame, 1, n) \in Seq(Byte)
    BY <1>4, Beginning
  <2>2. QED
    BY <2>1
<1>12. Len(s) = n /\ \A i \in 1..n : s[i] = sent[i]
  BY <1>4, <1>10, Beginning
<1>13. Len(t) = n /\ \A i \in 1..n : t[i] = frame[i]
  BY <1>4, <1>11, Beginning
<1>14. Judged(sent) = IF q * 256 + p = Crc16(s) THEN "completed" ELSE "crc"
  <2>1. Len(sent) - 1 = n + 1 /\ Len(sent) - 2 = n
    BY <1>4
  <2>2. QED
    BY <1>4, <1>6, <1>7, <1>10, <2>1 DEF Judged
<1>15. Judged(frame) = IF y * 256 + x = Crc16(t) THEN "completed" ELSE "crc"
  <2>1. Len(frame) - 1 = n + 1 /\ Len(frame) - 2 = n
    BY <1>4
  <2>2. QED
    BY <1>4, <1>8, <1>9, <1>11, <2>1 DEF Judged
<1>16. q * 256 + p = Crc16(s)
  BY <1>4, <1>14
<1>17. y * 256 + x # Crc16(t)
  <2>1. CASE k =< n
    <3>1. k \in 1..n /\ DifferAt(s, t, k)
      BY <1>4, <1>12, <1>13, <2>1 DEF DifferAt
    <3>2. Crc16(s) # Crc16(t)
      BY <3>1, CrcTellsOneByte
    <3>3. p = x /\ q = y
      BY <1>4, <1>6, <1>7, <1>8, <1>9, <2>1
    <3>4. QED
      BY <1>16, <3>2, <3>3
  <2>2. CASE k > n
    <3>1. \A i \in 1..Len(s) : s[i] = t[i]
      BY <1>4, <1>12, <1>13, <2>2
    <3>2. s = t
      BY <1>12, <1>13, <3>1, SeqEqual
    <3>3. (p # x /\ q = y) \/ (p = x /\ q # y)
      BY <1>4, <1>6, <1>7, <1>8, <1>9, <2>2
    <3>4. p \in Nat /\ q \in Nat /\ x \in Nat /\ y \in Nat
          /\ p < 256 /\ q < 256 /\ x < 256 /\ y < 256
      BY ByteWord
    <3>5. q * 256 + p # y * 256 + x
      BY <3>3, <3>4
    <3>6. QED
      BY <1>16, <3>2, <3>5
  <2>3. QED
    BY <1>3, <1>4, <2>1, <2>2
<1>18. Judged(frame) = "crc"
  BY <1>15, <1>17
<1>19. QED
  BY <1>5, <1>18, Ended

(* Whatever comes on the line: what is completed has been compared.  The   *)
(* length is that of LengthFor, in eight bits.                             *)
Checked(buffer, a, f) ==
  LET n == Len(buffer)
  IN  /\ n >= 4 /\ buffer[1] = a /\ buffer[2] = f
      /\ n = LengthFor(buffer[3])
      /\ buffer[n] * 256 + buffer[n - 1] = Crc16(SubSeq(buffer, 1, n - 2))

Receivers(a, f) ==
  {r \in [slave_addr : {a}, function_code : {f}, buffer : Seq(Byte), frame_started : BOOLEAN,
          expected_length : Nat, state : {"receiving", "completed", "crc"}] :
     IF r.frame_started
     THEN /\ Len(r.buffer) >= 2 /\ r.buffer[1] = a /\ r.buffer[2] = f
          /\ Len(r.buffer) >= 3 => r.expected_length = LengthFor(r.buffer[3])
          /\ r.state = "completed" => Checked(r.buffer, a, f)
     ELSE /\ r.buffer = <<>> \/ (Len(r.buffer) = 1 /\ r.buffer[1] = a)
          /\ r.state = "receiving"}

LEMMA SearchKeeps ==
  ASSUME NEW a \in Byte, NEW f \in Byte, NEW r \in Receivers(a, f), ~ r.frame_started,
         NEW b \in Byte
  PROVE  Search(r, b) \in Receivers(a, f)
<1>1. /\ r \in [slave_addr : {a}, function_code : {f}, buffer : Seq(Byte),
                frame_started : BOOLEAN, expected_length : Nat,
                state : {"receiving", "completed", "crc"}]
      /\ r.slave_addr = a /\ r.function_code = f /\ r.state = "receiving"
      /\ r.buffer = <<>> \/ (Len(r.buffer) = 1 /\ r.buffer[1] = a)
  BY DEF Receivers
<1>2. <<b>> \in Seq(Byte) /\ Len(<<b>>) = 1 /\ <<b>>[1] = b /\ <<b>> # <<>>
      /\ <<>> \in Seq(Byte) /\ Len(<<>>) = 0
  OBVIOUS
<1>3. PICK one \in Seq(Byte) : one = IF r.buffer = <<>> /\ b = r.slave_addr THEN <<b>> ELSE r.buffer
  BY <1>1, <1>2
<1>4. one = <<>> \/ (Len(one) = 1 /\ one[1] = a)
  BY <1>1, <1>2, <1>3
<1>5. CASE Len(one) = 1 /\ b = f
  <2>1. PICK s : s = Search(r, b)
    OBVIOUS
  <2>2. s = [r EXCEPT !.buffer = Append(one, b), !.frame_started = TRUE]
    BY <1>1, <1>3, <1>5, <2>1 DEF Search
  <2>3. PICK buf \in Seq(Byte) : buf = Append(one, b)
    <3>1. Append(one, b) \in Seq(Byte)
      BY Appended
    <3>2. QED
      BY <3>1
  <2>4. Len(buf) = 2 /\ buf[1] = a /\ buf[2] = f
    <3>1. /\ Len(buf) = Len(one) + 1 /\ \A i \in 1..Len(one) : buf[i] = one[i]
          /\ buf[Len(one) + 1] = b
      BY <2>3, Appended
    <3>2. one[1] = a
      <4>1. one # <<>>
        <5>1. 0 # 1
          OBVIOUS
        <5>2. QED
          BY <1>2, <1>5, <5>1, Zenon
      <4>2. QED
        BY <1>4, <4>1
    <3>3. QED
      BY <1>5, <3>1, <3>2
  <2>5. s = [r EXCEPT !.buffer = buf, !.frame_started = TRUE]
    BY <2>2, <2>3
  <2>6. /\ s \in [slave_addr : {a}, function_code : {f}, buffer : Seq(Byte),
                  frame_started : BOOLEAN, expected_length : Nat,
                  state : {"receiving", "completed", "crc"}]
        /\ s.frame_started = TRUE /\ s.buffer = buf /\ s.state = "receiving"
    BY <1>1, <2>5
  <2>7. s \in Receivers(a, f)
    BY <2>4, <2>6 DEF Receivers
  <2>8. QED
    BY <2>1, <2>7
<1>6. CASE ~ (Len(one) = 1 /\ b = f)
  <2>1. PICK s : s = Search(r, b)
    OBVIOUS
  <2>2. s = [r EXCEPT !.buffer = one, !.frame_started = FALSE]
    BY <1>1, <1>3, <1>6, <2>1 DEF Search
  <2>3. /\ s \in [slave_addr : {a}, function_code : {f}, buffer : Seq(Byte),
                  frame_started : BOOLEAN, expected_length : Nat,
                  state : {"receiving", "completed", "crc"}]
        /\ s.frame_started = FALSE /\ s.buffer = one /\ s.state = "receiving"
    BY <1>1, <2>2
  <2>4. s \in Receivers(a, f)
    BY <1>4, <2>3 DEF Receivers
  <2>5. QED
    BY <2>1, <2>4
<1>7. QED
  BY <1>5, <1>6

LEMMA TakeKeeps ==
  ASSUME NEW a \in Byte, NEW f \in Byte, NEW r \in Receivers(a, f), r.frame_started,
         r.state = "receiving", NEW b \in Byte
  PROVE  Take(r, b) \in Receivers(a, f)
<1>1. /\ r \in [slave_addr : {a}, function_code : {f}, buffer : Seq(Byte),
                frame_started : BOOLEAN, expected_length : Nat,
                state : {"receiving", "completed", "crc"}]
      /\ Len(r.buffer) >= 2 /\ r.buffer[1] = a /\ r.buffer[2] = f
      /\ Len(r.buffer) >= 3 => r.expected_length = LengthFor(r.buffer[3])
  BY DEF Receivers
<1>2. PICK old \in Seq(Byte) : old = r.buffer
  BY <1>1
<1>3. PICK n \in Nat : n = Len(old) /\ n >= 2
  BY <1>1, <1>2
<1>4. PICK buf \in Seq(Byte) : buf = Append(old, b)
  <2>1. Append(old, b) \in Seq(Byte)
    BY Appended
  <2>2. QED
    BY <2>1
<1>5. Len(buf) = n + 1 /\ (\A i \in 1..n : buf[i] = old[i]) /\ buf[n + 1] = b
  BY <1>3, <1>4, Appended
<1>6. buf[1] = a /\ buf[2] = f
  BY <1>1, <1>2, <1>3, <1>5
<1>7. PICK t : t = Take(r, b)
  OBVIOUS
<1>8. CASE n = 2
  <2>1. t = [r EXCEPT !.buffer = buf, !.expected_length = LengthFor(b)]
    BY <1>2, <1>3, <1>4, <1>7, <1>8 DEF Take, LengthFor
  <2>2. LengthFor(b) \in Nat
    <3>1. b \in Nat
      BY ByteWord
    <3>2. QED
      BY <3>1 DEF LengthFor
  <2>3. /\ t \in [slave_addr : {a}, function_code : {f}, buffer : Seq(Byte),
                  frame_started : BOOLEAN, expected_length : Nat,
                  state : {"receiving", "completed", "crc"}]
        /\ t.frame_started /\ t.buffer = buf /\ t.state = "receiving"
        /\ t.expected_length = LengthFor(b)
    BY <1>1, <2>1, <2>2
  <2>4. buf[3] = b /\ Len(buf) >= 2
    BY <1>5, <1>8
  <2>5. t \in Receivers(a, f)
    BY <1>6, <2>3, <2>4 DEF Receivers
  <2>6. QED
    BY <1>7, <2>5
<1>9. CASE n # 2
  <2>1. PICK v : v = IF ~ AtEnd(r) THEN "receiving"
                     ELSE IF b * 256 + old[n] = Crc16(SubSeq(old, 1, n - 1))
                     THEN "completed" ELSE "crc"
    OBVIOUS
  <2>2. t = [r EXCEPT !.buffer = buf, !.state = v]
    BY <1>1, <1>2, <1>3, <1>4, <1>7, <1>9, <2>1 DEF Take
  <2>3. /\ t \in [slave_addr : {a}, function_code : {f}, buffer : Seq(Byte),
                  frame_started : BOOLEAN, expected_length : Nat,
                  state : {"receiving", "completed", "crc"}]
        /\ t.frame_started /\ t.buffer = buf /\ t.state = v
        /\ t.expected_length = r.expected_length
    BY <1>1, <2>1, <2>2
  <2>4. n >= 3 /\ buf[3] = old[3] /\ r.expected_length = LengthFor(old[3])
    <3>1. n >= 3
      BY <1>3, <1>9
    <3>2. buf[3] = old[3]
      BY <1>5, <3>1
    <3>3. Len(r.buffer) >= 3
      BY <1>2, <1>3, <3>1
    <3>4. r.expected_length = LengthFor(r.buffer[3])
      BY <1>1, <3>3
    <3>5. QED
      BY <1>2, <3>1, <3>2, <3>4
  <2>5. ASSUME v = "completed" PROVE Checked(buf, a, f)
    <3>1. AtEnd(r) /\ b * 256 + old[n] = Crc16(SubSeq(old, 1, n - 1))
      BY <2>1, <2>5
    <3>2. n = r.expected_length - 1
      BY <1>2, <1>3, <3>1 DEF AtEnd
    <3>3. n + 1 = LengthFor(buf[3]) /\ n + 1 >= 4
      BY <1>1, <2>4, <3>2
    <3>4. buf[n] = old[n] /\ (n + 1) - 1 = n /\ (n + 1) - 2 = n - 1 /\ n - 1 \in Nat
      <4>1. n \in 1..n
        BY <2>4
      <4>2. buf[n] = old[n]
        BY <1>5, <4>1
      <4>3. (n + 1) - 1 = n /\ (n + 1) - 2 = n - 1 /\ n - 1 \in Nat
        BY <2>4
      <4>4. QED
        BY <4>2, <4>3
    <3>5. SubSeq(old, 1, n - 1) = SubSeq(buf, 1, n - 1)
      <4>1. PICK k \in Nat : k = n - 1
        BY <3>4
      <4>2. k =< Len(old) /\ k =< Len(buf)
        BY <1>3, <1>5, <4>1
      <4>3. PICK u \in Seq(Byte) : u = SubSeq(old, 1, k)
        <5>1. SubSeq(old, 1, k) \in Seq(Byte)
          BY <4>2, Beginning
        <5>2. QED
          BY <5>1
      <4>4. Len(u) = k /\ \A i \in 1..k : u[i] = old[i]
        BY <4>2, <4>3, Beginning
      <4>5. \A i \in 1..k : buf[i] = u[i]
        BY <1>5, <4>1, <4>4
      <4>6. SubSeq(buf, 1, k) = u
        BY <4>2, <4>4, <4>5, BeginningOf
      <4>7. QED
        BY <4>1, <4>3, <4>6
    <3>6. QED
      BY <1>5, <1>6, <3>1, <3>3, <3>4, <3>5 DEF Checked
  <2>6. Len(buf) >= 2 /\ t.expected_length = LengthFor(buf[3])
    BY <1>3, <1>5, <2>3, <2>4
  <2>7. t \in Receivers(a, f)
    BY <1>6, <2>3, <2>5, <2>6 DEF Receivers
  <2>8. QED
    BY <1>7, <2>7
<1>10. QED
  BY <1>8, <1>9

LEMMA ReceiverKeeps ==
  ASSUME NEW a \in Byte, NEW f \in Byte, NEW r \in Receivers(a, f), NEW b \in Byte
  PROVE  ReceiveByte(r, b) \in Receivers(a, f)
<1>1. CASE r.state # "receiving"
  BY <1>1 DEF ReceiveByte
<1>2. CASE r.state = "receiving" /\ r.frame_started
  BY <1>2, TakeKeeps DEF ReceiveByte
<1>3. CASE r.state = "receiving" /\ ~ r.frame_started
  BY <1>3, SearchKeeps DEF ReceiveByte
<1>4. QED
  BY <1>1, <1>2, <1>3

LEMMA ReceiverRuns ==
  ASSUME NEW a \in Byte, NEW f \in Byte, NEW bytes \in Seq(Byte)
  PROVE  ReceiveModbusResponse(a, f, bytes) \in Receivers(a, f)
<1> DEFINE S == Receivers(a, f)
           step == [x \in S \X Nat |->
                      IF x[2] \in 1..Len(bytes) THEN ReceiveByte(x[1], bytes[x[2]]) ELSE x[1]]
<1>1. PICK n \in Nat : n = Len(bytes)
  OBVIOUS
<1>2. Listening(a, f) \in S
  BY DEF Listening, Receivers
<1>3. step \in [S \X Nat -> S]
  <2>1. ASSUME NEW r \in S, NEW i \in 1..Len(bytes)
        PROVE  ReceiveByte(r, bytes[i]) \in S
    <3>1. PICK b \in Byte : b = bytes[i]
      OBVIOUS
    <3>2. ReceiveByte(r, b) \in S
      BY ReceiverKeeps
    <3>3. QED
      BY <3>1, <3>2
  <2> HIDE DEF S
  <2>2. QED
    BY <2>1
<1>4. PICK e : Follows(e, n, S, Listening(a, f), step)
  <2> HIDE DEF S, step
  <2>1. QED
    BY <1>2, <1>3, RunExists
<1>5. e \in [0..n -> S] /\ e[0] = Listening(a, f)
  BY <1>4 DEF Follows
<1>6. ASSUME NEW i \in Nat, NEW j \in 1..n, j = i + 1
      PROVE  e[j] = ReceiveByte(e[i], bytes[j])
  <2>1. j - 1 = i /\ i \in 0..n /\ j \in Nat
    BY <1>6
  <2>2. e[j] = step[<<e[j - 1], j>>]
    BY <1>4 DEF Follows
  <2>3. e[i] \in S
    BY <1>5, <2>1
  <2>4. QED
    <3> HIDE DEF S
    <3>1. step[<<e[i], j>>] = ReceiveByte(e[i], bytes[j])
      BY <1>1, <2>1, <2>3
    <3>2. QED
      BY <2>1, <2>2, <3>1
<1>7. Watched(e, a, f, bytes)
  <2>1. e = [i \in 0..n |-> e[i]]
    BY <1>5
  <2>2. QED
    BY <1>1, <1>5, <1>6, <2>1 DEF Watched
<1>8. ReceiveModbusResponse(a, f, bytes) = e[n]
  BY <1>1, <1>7, ReceivedAs
<1>9. e[n] \in S
  BY <1>5
<1>10. QED
  BY <1>8, <1>9

(* Whatever bytes come on the line, in any number, receiveModbusResponse   *)
(* says completed only of a buffer that begins with the address and the    *)
(* function code it waits for, is as long as its third byte says, and ends *)
(* with the CRC of the rest.                                               *)
THEOREM NothingUnchecked ==
  ASSUME NEW a \in Byte, NEW f \in Byte, NEW bytes \in Seq(Byte),
         ReceiveModbusResponse(a, f, bytes).state = "completed"
  PROVE  Checked(ReceiveModbusResponse(a, f, bytes).buffer, a, f)
<1>1. ReceiveModbusResponse(a, f, bytes) \in Receivers(a, f)
  BY ReceiverRuns
<1>2. QED
  BY <1>1 DEF Receivers
-----------------------------------------------------------------------------
(* The frames of Modbus TCP.                                               *)
LEMMA HighLow ==
  ASSUME NEW w \in Word16
  PROVE  /\ High(w) \in Byte /\ Low(w) \in Byte
         /\ High(w) = w \div 256 /\ Low(w) = w % 256
         /\ High(w) * 256 + Low(w) = w
BY DEF Word16, Byte, High, Low

LEMMA ShortLength ==
  ASSUME NEW n \in Byte
  PROVE  High(n) = 0 /\ Low(n) = n /\ Low(n * 256) = 0
BY DEF Byte, High, Low

(* A header in front of a head in front of the data.                       *)
Heads(u, v, w) ==
  /\ Len(w) = Len(u) + Len(v)
  /\ \A i \in 1..Len(u) : w[i] = u[i]
  /\ \A i \in 1..Len(v) : w[Len(u) + i] = v[i]

LEMMA JoinedTwice ==
  ASSUME NEW u \in Seq(Nat), NEW v \in Seq(Nat), NEW d \in Seq(Nat)
  PROVE  (u \o v) \o d = u \o (v \o d)
BY ConcatAssociative, SMTT(20)

InFront(u, v, w, d) == u \o (v \o d) = w \o d

LEMMA HeadsJoined ==
  ASSUME NEW u \in Seq(Nat), NEW v \in Seq(Nat), NEW w \in Seq(Nat), Heads(u, v, w),
         NEW d \in Seq(Nat)
  PROVE  InFront(u, v, w, d)
<1>1. PICK x : x = u \o v
  OBVIOUS
<1>2. /\ x \in Seq(Nat) /\ Len(x) = Len(u) + Len(v)
      /\ \A i \in 1..Len(u) : x[i] = u[i]
      /\ \A i \in 1..Len(v) : x[Len(u) + i] = v[i]
  BY <1>1, Joined
<1>3. ASSUME NEW i \in 1..Len(x) PROVE x[i] = w[i]
  <2>1. CASE i =< Len(u)
    <3>1. i \in 1..Len(u)
      BY <2>1
    <3>2. QED
      BY <1>2, <3>1 DEF Heads
  <2>2. CASE i > Len(u)
    <3>1. PICK j \in 1..Len(v) : i = Len(u) + j
      <4>1. i - Len(u) \in 1..Len(v) /\ i = Len(u) + (i - Len(u))
        BY <1>2, <2>2
      <4>2. QED
        BY <4>1
    <3>2. QED
      BY <1>2, <3>1 DEF Heads
  <2>3. QED
    BY <1>2, <2>1, <2>2
<1>4. x = w
  <2>1. Len(x) = Len(w)
    BY <1>2 DEF Heads
  <2>2. QED
    BY <1>2, <1>3, <2>1, SeqEqual
<1>5. (u \o v) \o d = u \o (v \o d)
  BY JoinedTwice, Zenon
<1>6. QED
  BY <1>1, <1>4, <1>5 DEF InFront

LEMMA PushHead ==
  ASSUME NEW h, NEW l, NEW k, NEW a, NEW p, NEW q, NEW m, NEW n,
         NEW u, NEW v, NEW w,
         u = <<h, l, 0, 0, 0, k>>, v = <<a, 16, p, q, 0, m, n>>,
         w = <<h, l, 0, 0, 0, k, a, 16, p, q, 0, m, n>>
  PROVE  Heads(u, v, w)
<1>1. Len(u) = 6 /\ Len(v) = 7 /\ Len(w) = 13
  OBVIOUS
<1>2. ASSUME NEW i \in 1..6 PROVE w[i] = u[i]
  <2>1. u[1] = h /\ u[2] = l /\ u[3] = 0 /\ u[4] = 0 /\ u[5] = 0 /\ u[6] = k
    OBVIOUS
  <2>2. w[1] = h /\ w[2] = l /\ w[3] = 0 /\ w[4] = 0 /\ w[5] = 0 /\ w[6] = k
    OBVIOUS
  <2>3. i = 1 \/ i = 2 \/ i = 3 \/ i = 4 \/ i = 5 \/ i = 6
    OBVIOUS
  <2>4. QED
    BY <2>1, <2>2, <2>3, Zenon
<1>3. ASSUME NEW i \in 1..7 PROVE w[6 + i] = v[i]
  <2>1. v[1] = a /\ v[2] = 16 /\ v[3] = p /\ v[4] = q /\ v[5] = 0 /\ v[6] = m /\ v[7] = n
    OBVIOUS
  <2>2. w[7] = a /\ w[8] = 16 /\ w[9] = p /\ w[10] = q /\ w[11] = 0 /\ w[12] = m /\ w[13] = n
    OBVIOUS
  <2>3. \/ (i = 1 /\ 6 + i = 7)
        \/ (i = 2 /\ 6 + i = 8)
        \/ (i = 3 /\ 6 + i = 9)
        \/ (i = 4 /\ 6 + i = 10)
        \/ (i = 5 /\ 6 + i = 11)
        \/ (i = 6 /\ 6 + i = 12)
        \/ (i = 7 /\ 6 + i = 13)
    OBVIOUS
  <2>4. QED
    BY <2>1, <2>2, <2>3, Zenon
<1>4. QED
  BY <1>1, <1>2, <1>3 DEF Heads

LEMMA BytesNat ==
  ASSUME NEW d \in Seq(Byte)
  PROVE  d \in Seq(Nat)
<1>1. Byte \subseteq Nat
  BY DEF Byte
<1>2. QED
  BY <1>1, SeqMonotonic

(* What the unit sends of an answer is what the sensor would have sent.    *)
LEMMA TransmitAsSensor ==
  ASSUME NEW id \in Word16, NEW a \in Byte, NEW f \in Byte, NEW d \in Seq(Byte),
         Len(d) =< 247
  PROVE  Transmit485toTcp(id, a, f, d) = SensorResponse(id, a, f, d)
<1>1. PICK n \in Nat : n = Len(d)
  OBVIOUS
<1>2. n \in Byte /\ n + 3 \in Byte
  BY <1>1 DEF Byte
<1>3. PICK h \in Nat : h = High(id)
  BY HighLow, ByteWord
<1>4. PICK l \in Nat : l = Low(id)
  BY HighLow, ByteWord
<1>5. a \in Nat /\ f \in Nat
  BY ByteWord
<1>6. Low(n) = n
  BY <1>2, ShortLength
<1>7. Low((n + 3) * 256) = 0 /\ Low(n + 3) = n + 3 /\ High(n + 3) = 0
  BY <1>2, ShortLength
<1>8. Transmit485toTcp(id, a, f, d) = <<h, l, 0, 0, 0, n + 3, a, f, n>> \o d
  <2>1. 9 + n =< FrameSize
    BY <1>1 DEF FrameSize
  <2>2. Transmit485toTcp(id, a, f, d)
          = <<High(id), Low(id), 0, 0, Low((n + 3) * 256), Low(n + 3), a, f, Low(n)>> \o d
    BY <1>1, <2>1 DEF Transmit485toTcp, Built
  <2>3. QED
    BY <1>3, <1>4, <1>6, <1>7, <2>2
<1>9. <<h, l, 0, 0, 0, n + 3>> \in Seq(Nat) /\ <<a, f, n>> \in Seq(Nat) /\ Len(<<a, f, n>>) = 3
  BY <1>1, <1>5
<1>10. PICK u \in Seq(Nat) : u = <<h, l, 0, 0, 0, n + 3>>
  BY <1>9
<1>11. PICK v \in Seq(Nat) : v = <<a, f, n>>
  BY <1>9
<1>12. PICK s \in Seq(Nat) : s = d
  BY BytesNat
<1>13. Len(v \o s) = n + 3
  <2>1. Len(v \o s) = Len(v) + Len(s)
    BY Joined
  <2>2. QED
    BY <1>1, <1>9, <1>11, <1>12, <2>1
<1>14. SensorResponse(id, a, f, d) = u \o (v \o s)
  <2>1. SensorResponse(id, a, f, d) = Enveloped(id, v \o s)
    BY <1>1, <1>11, <1>12 DEF SensorResponse
  <2>2. Enveloped(id, v \o s) = <<h, l, 0, 0, 0, n + 3>> \o (v \o s)
    BY <1>3, <1>4, <1>7, <1>13 DEF Enveloped
  <2>3. QED
    BY <1>10, <2>1, <2>2
<1>15. PICK w \in Seq(Nat) : w = <<h, l, 0, 0, 0, n + 3, a, f, n>>
  <2>1. <<h, l, 0, 0, 0, n + 3, a, f, n>> \in Seq(Nat)
    BY <1>5
  <2>2. QED
    BY <2>1
<1>16. Heads(u, v, w)
  <2>1. Len(u) = 6 /\ Len(v) = 3 /\ Len(w) = 9
    BY <1>10, <1>11, <1>15
  <2>2. \A i \in 1..6 : w[i] = u[i]
    BY <1>10, <1>15
  <2>3. \A i \in 1..3 : w[6 + i] = v[i]
    BY <1>11, <1>15
  <2>4. Len(w) = Len(u) + Len(v)
    BY <2>1
  <2>5. QED
    BY <2>1, <2>2, <2>3, <2>4, Zenon DEF Heads
<1>17. u \o (v \o s) = w \o s
  <2>1. InFront(u, v, w, s)
    BY <1>16, HeadsJoined, Zenon
  <2>2. QED
    BY <2>1 DEF InFront
<1>18. QED
  BY <1>8, <1>12, <1>14, <1>15, <1>17

(* The push is a whole Write Multiple Registers.                           *)
LEMMA PushWhole ==
  ASSUME NEW id \in Word16, NEW a \in Byte, NEW reg \in Word16,
         NEW d \in Seq(Byte), Len(d) =< 243
  PROVE  Transmit485toTcpWriteMultiple(id, a, reg, d) = WriteMultiple(id, a, reg, d)
<1>1. PICK n \in Nat : n = Len(d)
  OBVIOUS
<1>2. PICK m \in Nat : m = n \div 2
  OBVIOUS
<1>3. n \in Byte /\ n + 7 \in Byte /\ m \in Byte
  BY <1>1, <1>2 DEF Byte
<1>4. PICK h \in Nat : h = High(id)
  BY HighLow, ByteWord
<1>5. PICK l \in Nat : l = Low(id)
  BY HighLow, ByteWord
<1>6. PICK p \in Nat : p = High(reg)
  BY HighLow, ByteWord
<1>7. PICK q \in Nat : q = Low(reg)
  BY HighLow, ByteWord
<1>8. a \in Nat /\ n + 7 \in Nat
  BY <1>1, ByteWord
<1>9. Low(n) = n
  BY <1>3, ShortLength
<1>10. Low((n + 7) * 256) = 0 /\ Low(n + 7) = n + 7 /\ High(n + 7) = 0
  BY <1>3, ShortLength
<1>11. Low(m * 256) = 0 /\ Low(m) = m /\ High(m) = 0
  BY <1>3, ShortLength
<1>12. Transmit485toTcpWriteMultiple(id, a, reg, d)
         = <<h, l, 0, 0, 0, n + 7, a, 16, p, q, 0, m, n>> \o d
  <2>1. 13 + n =< FrameSize
    BY <1>1 DEF FrameSize
  <2>2. Transmit485toTcpWriteMultiple(id, a, reg, d)
          = <<High(id), Low(id), 0, 0, Low((n + 7) * 256), Low(n + 7), a, 16,
              High(reg), Low(reg), Low((n \div 2) * 256), Low(n \div 2), Low(n)>> \o d
    BY <1>1, <2>1 DEF Transmit485toTcpWriteMultiple, Built
  <2>3. QED
    BY <1>2, <1>4, <1>5, <1>6, <1>7, <1>9, <1>10, <1>11, <2>2
<1>13. /\ <<h, l, 0, 0, 0, n + 7>> \in Seq(Nat)
       /\ <<a, 16, p, q, 0, m, n>> \in Seq(Nat) /\ Len(<<a, 16, p, q, 0, m, n>>) = 7
  BY <1>8
<1>14. PICK u \in Seq(Nat) : u = <<h, l, 0, 0, 0, n + 7>>
  BY <1>13
<1>15. PICK v \in Seq(Nat) : v = <<a, 16, p, q, 0, m, n>>
  BY <1>13
<1>16. PICK s \in Seq(Nat) : s = d
  BY BytesNat
<1>17. Len(v \o s) = n + 7
  <2>1. Len(v \o s) = Len(v) + Len(s)
    BY Joined
  <2>2. QED
    BY <1>1, <1>13, <1>15, <1>16, <2>1
<1>18. WriteMultiple(id, a, reg, d) = u \o (v \o s)
  <2>1. WriteMultiple(id, a, reg, d) = Enveloped(id, v \o s)
    BY <1>1, <1>2, <1>6, <1>7, <1>11, <1>15, <1>16 DEF WriteMultiple
  <2>2. Enveloped(id, v \o s) = <<h, l, 0, 0, 0, n + 7>> \o (v \o s)
    BY <1>4, <1>5, <1>10, <1>17 DEF Enveloped
  <2>3. QED
    BY <1>14, <2>1, <2>2
<1>19. PICK w \in Seq(Nat) : w = <<h, l, 0, 0, 0, n + 7, a, 16, p, q, 0, m, n>>
  <2>1. <<h, l, 0, 0, 0, n + 7, a, 16, p, q, 0, m, n>> \in Seq(Nat)
    BY <1>8
  <2>2. QED
    BY <2>1
<1>20. Heads(u, v, w)
  <2>1. PICK k \in Nat : k = n + 7
    BY <1>8
  <2>2. u = <<h, l, 0, 0, 0, k>>
    BY <1>14, <2>1
  <2>3. w = <<h, l, 0, 0, 0, k, a, 16, p, q, 0, m, n>>
    BY <1>19, <2>1
  <2>4. QED
    BY <1>15, <2>2, <2>3, PushHead, Zenon
<1>21. u \o (v \o s) = w \o s
  <2>1. InFront(u, v, w, s)
    BY <1>20, HeadsJoined, Zenon
  <2>2. QED
    BY <2>1 DEF InFront
<1>22. QED
  BY <1>12, <1>16, <1>18, <1>19, <1>21

LEMMA RequestBytes ==
  ASSUME NEW id \in Word16, NEW a \in Byte, NEW f \in Byte, NEW rd,
         rd.reg \in Word16, rd.words \in Word16
  PROVE  /\ MasterRequest(id, a, f, rd) \in Seq(Nat) /\ Len(MasterRequest(id, a, f, rd)) = 12
         /\ \A i \in 1..6 : MasterRequest(id, a, f, rd)[i]
                              = <<High(id), Low(id), 0, 0, 0, 6>>[i]
         /\ \A i \in 1..6 : MasterRequest(id, a, f, rd)[6 + i]
                              = <<a, f, High(rd.reg), Low(rd.reg), High(rd.words), Low(rd.words)>>[i]
<1>1. PICK h \in Nat : h = High(id)
  BY HighLow, ByteWord
<1>2. PICK l \in Nat : l = Low(id)
  BY HighLow, ByteWord
<1>3. PICK p \in Nat : p = High(rd.reg)
  BY HighLow, ByteWord
<1>4. PICK q \in Nat : q = Low(rd.reg)
  BY HighLow, ByteWord
<1>5. PICK m \in Nat : m = High(rd.words)
  BY HighLow, ByteWord
<1>6. PICK n \in Nat : n = Low(rd.words)
  BY HighLow, ByteWord
<1>7. a \in Nat /\ f \in Nat
  BY ByteWord
<1>8. PICK v \in Seq(Nat) : v = <<a, f, p, q, m, n>>
  <2>1. <<a, f, p, q, m, n>> \in Seq(Nat)
    BY <1>7
  <2>2. QED
    BY <2>1
<1>9. Len(v) = 6
  BY <1>8
<1>10. PICK u \in Seq(Nat) : u = <<h, l, 0, 0, 0, 6>>
  <2>1. <<h, l, 0, 0, 0, 6>> \in Seq(Nat)
    OBVIOUS
  <2>2. QED
    BY <2>1
<1>11. Len(u) = 6
  BY <1>10
<1>12. High(6) = 0 /\ Low(6) = 6
  BY DEF High, Low
<1>13. MasterRequest(id, a, f, rd) = u \o v
  <2>1. MasterRequest(id, a, f, rd) = Enveloped(id, v)
    BY <1>3, <1>4, <1>5, <1>6, <1>8 DEF MasterRequest
  <2>2. Enveloped(id, v) = u \o v
    BY <1>1, <1>2, <1>9, <1>10, <1>12 DEF Enveloped
  <2>3. QED
    BY <2>1, <2>2
<1>14. PICK x : x = u \o v
  OBVIOUS
<1>15. /\ x \in Seq(Nat) /\ Len(x) = Len(u) + Len(v)
       /\ \A i \in 1..Len(u) : x[i] = u[i]
       /\ \A i \in 1..Len(v) : x[Len(u) + i] = v[i]
  BY <1>14, Joined
<1>16. /\ x \in Seq(Nat) /\ Len(x) = 12
       /\ \A i \in 1..6 : x[i] = u[i]
       /\ \A i \in 1..6 : x[6 + i] = v[i]
  BY <1>9, <1>11, <1>15
<1>17. u = <<High(id), Low(id), 0, 0, 0, 6>>
       /\ v = <<a, f, High(rd.reg), Low(rd.reg), High(rd.words), Low(rd.words)>>
  BY <1>1, <1>2, <1>3, <1>4, <1>5, <1>6, <1>8, <1>10
<1>18. QED
  BY <1>13, <1>14, <1>16, <1>17

LEMMA RequestAccepted ==
  ASSUME NEW id \in Word16, NEW a \in Byte, NEW f \in Byte, NEW rd,
         rd.reg \in Word16, rd.words \in Word16
  PROVE  LET asked == MasterRequest(id, a, f, rd)
             b == ByteBuffer(asked)
         IN  /\ Accepted(asked)
             /\ \A n \in 1..Len(asked) - 1 : ~ Accepted(SubSeq(asked, 1, n))
             /\ b[1] = a /\ b[2] = f
             /\ b[3] * 256 + b[4] = rd.reg /\ b[5] * 256 + b[6] = rd.words
<1>1. PICK x : x = MasterRequest(id, a, f, rd)
  OBVIOUS
<1>2. /\ x \in Seq(Nat) /\ Len(x) = 12
      /\ \A i \in 1..6 : x[i] = <<High(id), Low(id), 0, 0, 0, 6>>[i]
      /\ \A i \in 1..6 : x[6 + i]
            = <<a, f, High(rd.reg), Low(rd.reg), High(rd.words), Low(rd.words)>>[i]
  BY <1>1, RequestBytes
<1>3. x[3] = 0 /\ x[4] = 0 /\ x[5] = 0 /\ x[6] = 6
  BY <1>2
<1>4. x[7] = a /\ x[8] = f /\ x[9] = High(rd.reg) /\ x[10] = Low(rd.reg)
      /\ x[11] = High(rd.words) /\ x[12] = Low(rd.words)
  <2>1. /\ x[6 + 1] = a /\ x[6 + 2] = f /\ x[6 + 3] = High(rd.reg)
        /\ x[6 + 4] = Low(rd.reg) /\ x[6 + 5] = High(rd.words) /\ x[6 + 6] = Low(rd.words)
    BY <1>2
  <2>2. QED
    BY <2>1
<1>5. Accepted(x)
  BY <1>2, <1>3 DEF Accepted
<1>6. ASSUME NEW n \in 1..Len(x) - 1 PROVE ~ Accepted(SubSeq(x, 1, n))
  <2>1. n \in Nat /\ n =< Len(x) /\ n < 12
    BY <1>2
  <2>2. PICK u : u = SubSeq(x, 1, n)
    OBVIOUS
  <2>3. Len(u) = n /\ \A i \in 1..n : u[i] = x[i]
    BY <1>2, <2>1, <2>2, Beginning
  <2>4. CASE n < 7
    BY <2>2, <2>3, <2>4 DEF Accepted
  <2>5. CASE n >= 7
    <3>1. u[5] = 0 /\ u[6] = 6
      BY <1>3, <2>1, <2>3, <2>5
    <3>2. QED
      BY <2>1, <2>2, <2>3, <3>1 DEF Accepted
  <2>6. QED
    BY <2>1, <2>4, <2>5
<1>7. PICK b : b = ByteBuffer(x)
  OBVIOUS
<1>8. b = SubSeq(x, 7, 12)
  BY <1>2, <1>7 DEF ByteBuffer
<1>9. b[1] = x[7] /\ b[2] = x[8] /\ b[3] = x[9] /\ b[4] = x[10] /\ b[5] = x[11] /\ b[6] = x[12]
  BY <1>2, <1>8
<1>10. High(rd.reg) * 256 + Low(rd.reg) = rd.reg /\ High(rd.words) * 256 + Low(rd.words) = rd.words
  BY HighLow
<1>11. b[3] * 256 + b[4] = rd.reg /\ b[5] * 256 + b[6] = rd.words
  BY <1>4, <1>9, <1>10
<1>12. QED
  BY <1>1, <1>4, <1>5, <1>6, <1>7, <1>9, <1>11

LEMMA FrameHead ==
  ASSUME NEW a \in Byte, NEW f \in Byte, NEW reg \in Word16, NEW words \in Word16
  PROVE  ReadFrame(a, f, reg, words)[1] = a /\ ReadFrame(a, f, reg, words)[2] = f
<1>1. PICK p \in Byte : p = reg \div 256
  BY Two
<1>2. PICK q \in Byte : q = reg % 256
  BY Two
<1>3. PICK m \in Byte : m = words \div 256
  BY Two
<1>4. PICK n \in Byte : n = words % 256
  BY Two
<1>5. <<a, f, p, q, m, n>> \in Seq(Byte)
  OBVIOUS
<1>6. PICK u \in Seq(Byte) : u = <<a, f, p, q, m, n>>
  BY <1>5
<1>7. Len(u) = 6 /\ u[1] = a /\ u[2] = f
  BY <1>6
<1>8. PICK k \in Nat : k = 6
  OBVIOUS
<1>9. \A i \in 1..k : Sealed(u)[i] = u[i]
  BY <1>7, <1>8, SealedAs
<1>10. Sealed(u)[1] = a /\ Sealed(u)[2] = f
  BY <1>7, <1>8, <1>9
<1>11. ReadFrame(a, f, reg, words) = Sealed(u)
  BY <1>1, <1>2, <1>3, <1>4, <1>6 DEF ReadFrame
<1>12. QED
  BY <1>10, <1>11

(* A request to read that comes by TCP is accepted exactly when it is      *)
(* whole (receiveModbusTcp), goes to the sensor as the frame the unit      *)
(* would send itself, and the sensor's answer comes back to the master     *)
(* byte for byte as the sensor's own, for any transaction and registers    *)
(* and up to the 247 bytes of data that frame[256] has room for            *)
(* (TcpReceiveAndReply, transmitModbus485toTcp).                           *)
THEOREM Bypassed ==
  ASSUME NEW id \in Word16, NEW a \in Byte, NEW f \in Byte, a # f, NEW rd,
         rd.reg \in Word16, rd.words \in Word16, NEW d \in Seq(Byte), Len(d) =< 247
  PROVE  LET asked == MasterRequest(id, a, f, rd)
             b == ByteBuffer(asked)
         IN  /\ Accepted(asked)
             /\ \A n \in 1..Len(asked) - 1 : ~ Accepted(SubSeq(asked, 1, n))
             /\ BypassRequest(b) = ReadFrame(a, f, rd.reg, rd.words)
             /\ BypassReply(id, b, ResponseFrame(BypassRequest(b), d)) = SensorResponse(id, a, f, d)
<1>1. PICK x : x = MasterRequest(id, a, f, rd)
  OBVIOUS
<1>2. PICK b : b = ByteBuffer(x)
  OBVIOUS
<1>3. /\ Accepted(x) /\ \A n \in 1..Len(x) - 1 : ~ Accepted(SubSeq(x, 1, n))
      /\ b[1] = a /\ b[2] = f
      /\ b[3] * 256 + b[4] = rd.reg /\ b[5] * 256 + b[6] = rd.words
  BY <1>1, <1>2, RequestAccepted
<1>4. BypassRequest(b) = ReadFrame(a, f, rd.reg, rd.words)
  BY <1>3 DEF BypassRequest
<1>5. PICK asking : asking = BypassRequest(b)
  OBVIOUS
<1>6. asking[1] = a /\ asking[2] = f
  <2>1. ReadFrame(a, f, rd.reg, rd.words)[1] = a /\ ReadFrame(a, f, rd.reg, rd.words)[2] = f
    BY FrameHead
  <2>2. QED
    BY <1>4, <1>5, <2>1
<1>7. PICK frame : frame = ResponseFrame(asking, d)
  OBVIOUS
<1>8. Answering(frame, a, f, d)
  BY <1>6, <1>7, AnswerFrame
<1>9. Framed(frame, a, f)
  BY <1>8, AnswerFramed
<1>10. PICK r : r = ReceiveModbusResponse(a, f, frame)
  OBVIOUS
<1>11. r.state = Judged(frame) /\ r.buffer = frame
  BY <1>9, <1>10, EndedAlone
<1>12. r.state = "completed" /\ r.buffer[1] = a /\ r.buffer[2] = f
  BY <1>8, <1>11 DEF Answering
<1>13. Data(r) = d
  BY <1>8, <1>11, DataOf
<1>14. BypassReply(id, b, frame) = Transmit485toTcp(id, a, f, d)
  BY <1>3, <1>10, <1>12, <1>13 DEF BypassReply
<1>15. Transmit485toTcp(id, a, f, d) = SensorResponse(id, a, f, d)
  BY TransmitAsSensor
<1>16. QED
  BY <1>1, <1>2, <1>3, <1>4, <1>5, <1>7, <1>14, <1>15
-----------------------------------------------------------------------------
(* The requirements of Frame and TcpFrame, for every Sample.               *)
LEMMA SampleBytes == Sample \subseteq Byte
BY SampleAssumption DEF Byte

LEMMA ViconoxTable ==
  /\ DOMAIN ViconoxReads = 1..9
  /\ ViconoxReads[1] = [at |-> 0, reg |-> 10500, words |-> 2]
  /\ ViconoxReads[2] = [at |-> 1, reg |-> 10502, words |-> 2]
  /\ ViconoxReads[3] = [at |-> 2, reg |-> 10508, words |-> 2]
  /\ ViconoxReads[4] = [at |-> 3, reg |-> 10510, words |-> 2]
  /\ ViconoxReads[5] = [at |-> 4, reg |-> 10512, words |-> 2]
  /\ ViconoxReads[6] = [at |-> 6, reg |-> 10504, words |-> 2]
  /\ ViconoxReads[7] = [at |-> 7, reg |-> 10506, words |-> 2]
  /\ ViconoxReads[8] = [at |-> 12, reg |-> 10590, words |-> 1]
  /\ ViconoxReads[9] = [at |-> 13, reg |-> 10591, words |-> 1]
BY DEF ViconoxReads

LEMMA AirflowTable ==
  /\ DOMAIN AirflowReads = 1..7
  /\ AirflowReads[1] = [at |-> 5, reg |-> 10500, words |-> 2]
  /\ AirflowReads[2] = [at |-> 8, reg |-> 10502, words |-> 2]
  /\ AirflowReads[3] = [at |-> 9, reg |-> 10504, words |-> 2]
  /\ AirflowReads[4] = [at |-> 10, reg |-> 10506, words |-> 2]
  /\ AirflowReads[5] = [at |-> 11, reg |-> 10508, words |-> 2]
  /\ AirflowReads[6] = [at |-> 14, reg |-> 10590, words |-> 1]
  /\ AirflowReads[7] = [at |-> 15, reg |-> 10591, words |-> 1]
BY DEF AirflowReads

(* A slot says where it is and what it reads.                              *)
IsSlot(x, a, i, reg, n) == x = <<a, [at |-> i, reg |-> reg, words |-> n]>>

LEMMA ViconoxSlots ==
  ASSUME NEW x \in {<<VICONOX_ADDRESS, ViconoxReads[i]>> : i \in DOMAIN ViconoxReads}
  PROVE  \/ IsSlot(x, 1, 0, 10500, 2)  \/ IsSlot(x, 1, 1, 10502, 2)
         \/ IsSlot(x, 1, 2, 10508, 2)  \/ IsSlot(x, 1, 3, 10510, 2)
         \/ IsSlot(x, 1, 4, 10512, 2)  \/ IsSlot(x, 1, 6, 10504, 2)
         \/ IsSlot(x, 1, 7, 10506, 2)  \/ IsSlot(x, 1, 12, 10590, 1)
         \/ IsSlot(x, 1, 13, 10591, 1)
<1>1. PICK i \in DOMAIN ViconoxReads : x = <<1, ViconoxReads[i]>>
  BY DEF VICONOX_ADDRESS
<1>2. i \in 1..9
  BY ViconoxTable
<1>3. i = 1 \/ i = 2 \/ i = 3 \/ i = 4 \/ i = 5 \/ i = 6 \/ i = 7 \/ i = 8 \/ i = 9
  BY <1>2
<1>4. QED
  BY <1>1, <1>3, ViconoxTable DEF IsSlot

LEMMA AirflowSlots ==
  ASSUME NEW x \in {<<AIRFLOW_ADDRESS, AirflowReads[i]>> : i \in DOMAIN AirflowReads}
  PROVE  \/ IsSlot(x, 2, 5, 10500, 2)   \/ IsSlot(x, 2, 8, 10502, 2)
         \/ IsSlot(x, 2, 9, 10504, 2)   \/ IsSlot(x, 2, 10, 10506, 2)
         \/ IsSlot(x, 2, 11, 10508, 2)  \/ IsSlot(x, 2, 14, 10590, 1)
         \/ IsSlot(x, 2, 15, 10591, 1)
<1>1. PICK i \in DOMAIN AirflowReads : x = <<2, AirflowReads[i]>>
  BY DEF AIRFLOW_ADDRESS
<1>2. i \in 1..7
  BY AirflowTable
<1>3. i = 1 \/ i = 2 \/ i = 3 \/ i = 4 \/ i = 5 \/ i = 6 \/ i = 7
  BY <1>2
<1>4. QED
  BY <1>1, <1>3, AirflowTable DEF IsSlot

LEMMA SlotFields ==
  ASSUME NEW x, NEW a, NEW i, NEW reg, NEW n, IsSlot(x, a, i, reg, n)
  PROVE  x[1] = a /\ x[2].at = i /\ x[2].reg = reg /\ x[2].words = n
BY DEF IsSlot

LEMMA EveryRead ==
  ASSUME NEW x \in Reads
  PROVE  \/ IsSlot(x, 1, 0, 10500, 2)  \/ IsSlot(x, 1, 1, 10502, 2)
         \/ IsSlot(x, 1, 2, 10508, 2)  \/ IsSlot(x, 1, 3, 10510, 2)
         \/ IsSlot(x, 1, 4, 10512, 2)  \/ IsSlot(x, 1, 6, 10504, 2)
         \/ IsSlot(x, 1, 7, 10506, 2)  \/ IsSlot(x, 1, 12, 10590, 1)
         \/ IsSlot(x, 1, 13, 10591, 1)
         \/ IsSlot(x, 2, 5, 10500, 2)   \/ IsSlot(x, 2, 8, 10502, 2)
         \/ IsSlot(x, 2, 9, 10504, 2)   \/ IsSlot(x, 2, 10, 10506, 2)
         \/ IsSlot(x, 2, 11, 10508, 2)  \/ IsSlot(x, 2, 14, 10590, 1)
         \/ IsSlot(x, 2, 15, 10591, 1)
<1>1. \/ x \in {<<VICONOX_ADDRESS, ViconoxReads[i]>> : i \in DOMAIN ViconoxReads}
      \/ x \in {<<AIRFLOW_ADDRESS, AirflowReads[i]>> : i \in DOMAIN AirflowReads}
  BY DEF Reads
<1>2. QED
  BY <1>1, ViconoxSlots, AirflowSlots

(* A slot is known by its index, and by its sensor and first register.     *)
SlotAt(i) ==
  CASE i = 0 -> <<1, [at |-> 0, reg |-> 10500, words |-> 2]>>
    [] i = 1 -> <<1, [at |-> 1, reg |-> 10502, words |-> 2]>>
    [] i = 2 -> <<1, [at |-> 2, reg |-> 10508, words |-> 2]>>
    [] i = 3 -> <<1, [at |-> 3, reg |-> 10510, words |-> 2]>>
    [] i = 4 -> <<1, [at |-> 4, reg |-> 10512, words |-> 2]>>
    [] i = 6 -> <<1, [at |-> 6, reg |-> 10504, words |-> 2]>>
    [] i = 7 -> <<1, [at |-> 7, reg |-> 10506, words |-> 2]>>
    [] i = 12 -> <<1, [at |-> 12, reg |-> 10590, words |-> 1]>>
    [] i = 13 -> <<1, [at |-> 13, reg |-> 10591, words |-> 1]>>
    [] i = 5 -> <<2, [at |-> 5, reg |-> 10500, words |-> 2]>>
    [] i = 8 -> <<2, [at |-> 8, reg |-> 10502, words |-> 2]>>
    [] i = 9 -> <<2, [at |-> 9, reg |-> 10504, words |-> 2]>>
    [] i = 10 -> <<2, [at |-> 10, reg |-> 10506, words |-> 2]>>
    [] i = 11 -> <<2, [at |-> 11, reg |-> 10508, words |-> 2]>>
    [] i = 14 -> <<2, [at |-> 14, reg |-> 10590, words |-> 1]>>
    [] i = 15 -> <<2, [at |-> 15, reg |-> 10591, words |-> 1]>>

LEMMA ReadBySlot ==
  ASSUME NEW x \in Reads
  PROVE  x = SlotAt(x[2].at)
BY EveryRead, SlotFields DEF SlotAt, IsSlot
IndexOf(a, reg) ==
  IF a = 1
  THEN CASE reg = 10500 -> 0 [] reg = 10502 -> 1 [] reg = 10508 -> 2 [] reg = 10510 -> 3
         [] reg = 10512 -> 4 [] reg = 10504 -> 6 [] reg = 10506 -> 7
         [] reg = 10590 -> 12 [] reg = 10591 -> 13
  ELSE CASE reg = 10500 -> 5 [] reg = 10502 -> 8 [] reg = 10504 -> 9 [] reg = 10506 -> 10
         [] reg = 10508 -> 11 [] reg = 10590 -> 14 [] reg = 10591 -> 15

LEMMA ReadByRegister ==
  ASSUME NEW x \in Reads
  PROVE  x[2].at = IndexOf(x[1], x[2].reg)
BY EveryRead, SlotFields DEF IndexOf

(* Where the registers of a slot, and of version and serial number, are.   *)
Placed(x) ==
  /\ x[1] \in {1, 2} /\ x[2].reg \in Nat
  /\ \/ x[2].words = 2 /\ x[2].reg % 2 = 0 /\ 10500 =< x[2].reg /\ x[2].reg =< 10512
     \/ x[2].words = 1 /\ (x[2].reg = 10590 \/ x[2].reg = 10591)

LEMMA ReadPlaced ==
  ASSUME NEW x \in Reads
  PROVE  Placed(x)
BY EveryRead, SlotFields DEF Placed

UnitPlaced(x) ==
  /\ x[1] \in {1, 2} /\ x[2].reg \in Nat
  /\ \/ x[2].reg = 10000 /\ x[2].words = 13
     \/ x[2].reg = 10013 /\ x[2].words = 6
     \/ x[2].reg = 10019 /\ x[2].words = 13

UnitAt(a, reg) == <<a, [reg |-> reg, words |-> IF reg = 10013 THEN 6 ELSE 13]>>

LEMMA UnitReadPlaced ==
  ASSUME NEW x \in UnitReads
  PROVE  UnitPlaced(x) /\ x = UnitAt(x[1], x[2].reg)
<1>1. PICK a \in {1, 2}, u \in AirflowUnit : x = <<a, u>>
  BY DEF UnitReads, ViconoxUnit, VICONOX_ADDRESS, AIRFLOW_ADDRESS
<1>2. \/ u = [reg |-> 10000, words |-> 13]
      \/ u = [reg |-> 10013, words |-> 6]
      \/ u = [reg |-> 10019, words |-> 13]
  BY DEF AirflowUnit
<1>3. QED
  BY <1>1, <1>2 DEF UnitPlaced, UnitAt

LEMMA ReadsApart ==
  ASSUME NEW x \in Reads \cup UnitReads, NEW y \in Reads \cup UnitReads, x # y, x[1] = y[1]
  PROVE  \/ x[2].reg + x[2].words <= y[2].reg
         \/ y[2].reg + y[2].words <= x[2].reg
<1>1. (x \in Reads /\ Placed(x)) \/ (x \in UnitReads /\ UnitPlaced(x))
  BY ReadPlaced, UnitReadPlaced
<1>2. (y \in Reads /\ Placed(y)) \/ (y \in UnitReads /\ UnitPlaced(y))
  BY ReadPlaced, UnitReadPlaced
<1>3. CASE x \in Reads /\ Placed(x) /\ y \in Reads /\ Placed(y)
  <2>1. x[2].reg # y[2].reg
    BY <1>3, ReadBySlot, ReadByRegister
  <2>2. QED
    BY <1>3, <2>1 DEF Placed
<1>4. CASE x \in Reads /\ Placed(x) /\ y \in UnitReads /\ UnitPlaced(y)
  BY <1>4 DEF Placed, UnitPlaced
<1>5. CASE x \in UnitReads /\ UnitPlaced(x) /\ y \in Reads /\ Placed(y)
  BY <1>5 DEF Placed, UnitPlaced
<1>6. CASE x \in UnitReads /\ UnitPlaced(x) /\ y \in UnitReads /\ UnitPlaced(y)
  <2>1. x[2].reg # y[2].reg
    BY <1>6, UnitReadPlaced
  <2>2. QED
    BY <1>6, <2>1 DEF UnitPlaced
<1>7. QED
  BY <1>1, <1>2, <1>3, <1>4, <1>5, <1>6

(* No two entries of RTU_fx have the same slot, and no two reads of one    *)
(* sensor, those of versions and serial number included, share a register: *)
(* an answer taken for another slot's would be seen.                       *)
THEOREM SlotsAreApart == SlotsApart
<1>1. ASSUME NEW x \in Reads, NEW y \in Reads, x # y PROVE x[2].at # y[2].at
  <2>1. x = SlotAt(x[2].at) /\ y = SlotAt(y[2].at)
    BY ReadBySlot
  <2>2. QED
    BY <1>1, <2>1, Zenon
<1>2. ASSUME NEW x \in Reads \cup UnitReads, NEW y \in Reads \cup UnitReads,
             x # y, x[1] = y[1]
      PROVE  \/ x[2].reg + x[2].words <= y[2].reg
             \/ y[2].reg + y[2].words <= x[2].reg
  BY <1>2, ReadsApart
<1>3. QED
  BY <1>1, <1>2 DEF SlotsApart

(* The answer to a slot.                                                   *)
LEMMA SlotBounds ==
  ASSUME NEW ar \in Reads \cup UnitReads
  PROVE  /\ ar[1] \in Byte /\ ar[1] # 3 /\ ar[1] # 4
         /\ ar[2].reg \in Word16 /\ ar[2].words \in Word16
         /\ ar[2].words \in Nat /\ 2 * ar[2].words =< 247
<1>1. (ar \in Reads /\ Placed(ar)) \/ (ar \in UnitReads /\ UnitPlaced(ar))
  BY ReadPlaced, UnitReadPlaced
<1>2. QED
  BY <1>1 DEF Placed, UnitPlaced, Byte, Word16

LEMMA WordsAre ==
  ASSUME NEW n \in Nat, NEW d \in Words(n)
  PROVE  d \in Seq(Byte) /\ Len(d) = 2 * n
<1>1. d \in [1..2 * n -> Byte]
  BY SampleBytes DEF Words
<1>2. PICK m \in Nat : m = 2 * n
  OBVIOUS
<1>3. QED
  BY <1>1, <1>2

(* The answer to every slot of RTU_fx is completed by its last byte, with  *)
(* the content of the sensor's registers, whatever that is.                *)
THEOREM AnswersCompleted == Completed
<1> SUFFICES ASSUME NEW ar \in Reads, NEW d \in Words(ar[2].words)
             PROVE  LET frame == ResponseFrame(RequestFrame(ar[1], ar[2]), d)
                        r == Received(ar, frame)
                    IN  /\ r.state = "completed" /\ Data(r) = d
                        /\ Received(ar, SubSeq(frame, 1, Len(frame) - 1)).state = "receiving"
  BY DEF Completed
<1>1. PICK a \in Byte : a = ar[1] /\ a # 4
  BY SlotBounds
<1>2. ar[2].reg \in Word16 /\ ar[2].words \in Word16 /\ ar[2].words \in Nat
      /\ 2 * ar[2].words =< 250
  BY SlotBounds
<1>3. d \in Seq(Byte) /\ Len(d) = 2 * ar[2].words
  BY <1>2, WordsAre
<1>4. PICK f \in Byte : f = FCODE_READ_INPUT_REGISTER /\ f # a
  BY <1>1 DEF FCODE_READ_INPUT_REGISTER, Byte
<1>5. PICK asking : asking = RequestFrame(ar[1], ar[2])
  OBVIOUS
<1>6. asking[1] = a /\ asking[2] = f
  <2>1. asking = ReadFrame(a, f, ar[2].reg, ar[2].words)
    BY <1>1, <1>4, <1>5 DEF RequestFrame
  <2>2. QED
    BY <1>2, <2>1, FrameHead
<1>7. PICK frame : frame = ResponseFrame(asking, d)
  OBVIOUS
<1>8. Answering(frame, a, f, d)
  BY <1>2, <1>3, <1>6, <1>7, AnswerFrame
<1>9. Framed(frame, a, f)
  BY <1>2, <1>3, <1>8, AnswerFramed
<1>10. PICK r : r = ReceiveModbusResponse(a, f, frame)
  OBVIOUS
<1>11. r.state = Judged(frame) /\ r.buffer = frame
  BY <1>4, <1>9, <1>10, EndedAlone
<1>12. r.state = "completed"
  BY <1>8, <1>11 DEF Answering
<1>13. Data(r) = d
  BY <1>3, <1>8, <1>11, DataOf
<1>14. ReceiveModbusResponse(a, f, SubSeq(frame, 1, Len(frame) - 1)).state = "receiving"
  BY <1>4, <1>9, WaitingAlone
<1>15. QED
  BY <1>1, <1>4, <1>5, <1>7, <1>10, <1>12, <1>13, <1>14 DEF Received

(* Up to 250 bytes of data, 125 registers, the length that                 *)
(* receiveModbusResponse expects does not overflow its eight bits.         *)
THEOREM LongestHeld == Longest
<1>1. PICK a \in Byte : a = VICONOX_ADDRESS
  BY DEF VICONOX_ADDRESS, Byte
<1>2. PICK f \in Byte : f = FCODE_READ_INPUT_REGISTER /\ f # a
  BY <1>1 DEF VICONOX_ADDRESS, FCODE_READ_INPUT_REGISTER, Byte
<1>3. PICK asked \in Seq(Byte) : asked = <<a, f>>
  <2>1. <<a, f>> \in Seq(Byte)
    OBVIOUS
  <2>2. QED
    BY <2>1
<1>4. asked[1] = a /\ asked[2] = f /\ Len(asked) = 2
  BY <1>3
<1>5. PICK none \in Seq(Byte) : none = <<>>
  BY EmptySeq
<1>6. Len(none) = 0 /\ Len(none) =< 250
  BY <1>5
<1>7. PICK frame : frame = ResponseFrame(asked, none)
  OBVIOUS
<1>8. Answering(frame, a, f, none)
  BY <1>4, <1>6, <1>7, AnswerFrame
<1>9. Framed(frame, a, f)
  BY <1>6, <1>8, AnswerFramed
<1>10. Unheard(none, a, f)
  BY <1>6 DEF Unheard
<1>11. PICK m \in Nat : m = 2
  OBVIOUS
<1>12. Line(asked, none, frame, m)
  <2>1. Len(frame) >= 5 /\ frame[1] = a /\ frame[2] = f
    BY <1>9 DEF Framed
  <2>2. \A i \in 1..m : asked[Len(none) + i] = frame[i]
    BY <1>4, <1>6, <1>11, <2>1
  <2>3. QED
    BY <1>4, <1>6, <1>9, <1>11, <2>1, <2>2 DEF Line, Framed
<1>13. ReceiveModbusResponse(a, f, asked) = InFrame(a, f, frame, m)
  <2>1. ReceiveModbusResponse(a, f, asked)
          = IF m = 0 THEN InNoise(a, f, none, Len(none)) ELSE InFrame(a, f, frame, m)
    BY <1>2, <1>9, <1>10, <1>12, ReceiveLine
  <2>2. QED
    BY <1>11, <2>1
<1>14. InFrame(a, f, frame, m) = At(a, f, asked, TRUE, 0, "receiving")
  <2>1. Len(frame) >= 5 /\ frame[1] = a /\ frame[2] = f /\ frame \in Seq(Byte)
    BY <1>9 DEF Framed
  <2>2. SubSeq(frame, 1, 2) = <<frame[1], frame[2]>>
    BY <2>1, FirstOfFrame
  <2>3. SubSeq(frame, 1, m) = asked
    BY <1>3, <1>11, <2>1, <2>2
  <2>4. (m >= 2) = TRUE /\ ~ (m >= 3) /\ m < Len(frame)
    BY <1>11, <2>1
  <2>5. QED
    BY <2>3, <2>4 DEF InFrame
<1>15. ASSUME NEW n \in 0..250
       PROVE  ReceiveByte(At(a, f, asked, TRUE, 0, "receiving"), n).expected_length = n + 5
  <2>1. PICK b \in Byte : b = n
    BY DEF Byte
  <2>2. ReceiveByte(At(a, f, asked, TRUE, 0, "receiving"), b)
          = At(a, f, Append(asked, b), TRUE, LengthFor(b), "receiving")
    <3>1. Len(asked) = 2
      BY <1>4
    <3>2. QED
      BY <3>1, TakeLength
  <2>3. ReceiveByte(At(a, f, asked, TRUE, 0, "receiving"), b).expected_length = LengthFor(b)
    BY <2>2 DEF At
  <2>4. LengthFor(b) = n + 5
    BY <2>1 DEF LengthFor
  <2>5. QED
    BY <2>1, <2>3, <2>4
<1>16. QED
  BY <1>1, <1>2, <1>3, <1>13, <1>14, <1>15 DEF Longest

(* Whatever comes before the answer to a slot, noise or another sensor's   *)
(* answer, does no harm as long as the address of the sensor is not among  *)
(* its bytes.                                                              *)
THEOREM PassedOver ==
  ASSUME NEW ar \in Reads, NEW d \in Words(ar[2].words),
         NEW noise \in Seq(Byte), \A i \in 1..Len(noise) : noise[i] # ar[1]
  PROVE  LET frame == ResponseFrame(RequestFrame(ar[1], ar[2]), d)
             r == Received(ar, noise \o frame)
         IN  r.state = "completed" /\ Data(r) = d
<1>1. PICK a \in Byte : a = ar[1] /\ a # 4
  BY SlotBounds
<1>2. ar[2].reg \in Word16 /\ ar[2].words \in Word16 /\ ar[2].words \in Nat
      /\ 2 * ar[2].words =< 250
  BY SlotBounds
<1>3. d \in Seq(Byte) /\ Len(d) = 2 * ar[2].words
  BY <1>2, WordsAre
<1>4. PICK f \in Byte : f = FCODE_READ_INPUT_REGISTER /\ f # a
  BY <1>1 DEF FCODE_READ_INPUT_REGISTER, Byte
<1>5. PICK asking : asking = RequestFrame(ar[1], ar[2])
  OBVIOUS
<1>6. asking[1] = a /\ asking[2] = f
  <2>1. asking = ReadFrame(a, f, ar[2].reg, ar[2].words)
    BY <1>1, <1>4, <1>5 DEF RequestFrame
  <2>2. QED
    BY <1>2, <2>1, FrameHead
<1>7. PICK frame : frame = ResponseFrame(asking, d)
  OBVIOUS
<1>8. Answering(frame, a, f, d)
  BY <1>2, <1>3, <1>6, <1>7, AnswerFrame
<1>9. Framed(frame, a, f)
  BY <1>2, <1>3, <1>8, AnswerFramed
<1>10. Unheard(noise, a, f)
  BY <1>1 DEF Unheard
<1>11. PICK r : r = ReceiveModbusResponse(a, f, noise \o frame)
  OBVIOUS
<1>12. r.state = Judged(frame) /\ r.buffer = frame
  BY <1>4, <1>9, <1>10, <1>11, Ended
<1>13. r.state = "completed"
  BY <1>8, <1>12 DEF Answering
<1>14. Data(r) = d
  BY <1>3, <1>8, <1>12, DataOf
<1>15. QED
  BY <1>1, <1>4, <1>5, <1>7, <1>11, <1>13, <1>14 DEF Received

LEMMA PayloadBytes ==
  ASSUME NEW n \in Nat, NEW d \in Payload(n)
  PROVE  d \in Seq(Byte) /\ Len(d) = n
<1>1. PICK s \in Sample : d = [i \in 1..n |-> (s * i) % 256]
  BY DEF Payload
<1>2. s \in Nat
  BY SampleBytes, ByteWord
<1>3. ASSUME NEW i \in 1..n PROVE (s * i) % 256 \in Byte
  <2>1. PICK k \in Nat : k = s * i
    BY <1>2
  <2>2. k % 256 \in Byte
    BY DEF Byte
  <2>3. QED
    BY <2>1, <2>2
<1>4. d \in [1..n -> Byte]
  BY <1>1, <1>3
<1>5. QED
  BY <1>4

LEMMA IdsAre == Ids \subseteq Word16
BY DEF Ids, Word16

(* What MCRs485 checks of the bypass for some values of the registers      *)
(* holds for all of them.                                                  *)
THEOREM BypassIsTransparent == BypassTransparent
<1> SUFFICES ASSUME NEW id \in Ids, NEW ar \in Reads \cup UnitReads, NEW fcode \in {3, 4}
             PROVE  LET asked == MasterRequest(id, ar[1], fcode, ar[2])
                        b == ByteBuffer(asked)
                    IN  /\ Accepted(asked)
                        /\ \A n \in 1..Len(asked) - 1 : ~Accepted(SubSeq(asked, 1, n))
                        /\ BypassRequest(b) = ReadFrame(ar[1], fcode, ar[2].reg, ar[2].words)
                        /\ \A d \in Payload(2 * ar[2].words) :
                             BypassReply(id, b, ResponseFrame(BypassRequest(b), d))
                               = SensorResponse(id, ar[1], fcode, d)
  BY DEF BypassTransparent
<1>1. id \in Word16
  BY IdsAre
<1>2. PICK a \in Byte : a = ar[1] /\ a # 3 /\ a # 4
  BY SlotBounds
<1>3. PICK rd : rd = ar[2]
  OBVIOUS
<1>4. rd.reg \in Word16 /\ rd.words \in Word16 /\ rd.words \in Nat /\ 2 * rd.words =< 247
  BY <1>3, SlotBounds
<1>5. PICK f \in Byte : f = fcode /\ f # a
  BY <1>2 DEF Byte
<1>6. PICK asked : asked = MasterRequest(id, a, f, rd)
  OBVIOUS
<1>7. PICK b : b = ByteBuffer(asked)
  OBVIOUS
<1>8. ASSUME NEW d \in Payload(2 * rd.words)
      PROVE  /\ Accepted(asked)
             /\ \A n \in 1..Len(asked) - 1 : ~ Accepted(SubSeq(asked, 1, n))
             /\ BypassRequest(b) = ReadFrame(a, f, rd.reg, rd.words)
             /\ BypassReply(id, b, ResponseFrame(BypassRequest(b), d)) = SensorResponse(id, a, f, d)
  <2>1. PICK n \in Nat : n = 2 * rd.words
    BY <1>4
  <2>2. d \in Seq(Byte) /\ Len(d) = n
    BY <2>1, PayloadBytes
  <2>3. Len(d) =< 247
    BY <1>4, <2>1, <2>2
  <2>4. QED
    BY <1>1, <1>4, <1>5, <1>6, <1>7, <2>2, <2>3, Bypassed
<1>9. /\ Accepted(asked)
      /\ \A n \in 1..Len(asked) - 1 : ~ Accepted(SubSeq(asked, 1, n))
      /\ BypassRequest(b) = ReadFrame(a, f, rd.reg, rd.words)
  <2>1. PICK none \in Seq(Byte) : none = <<>>
    BY EmptySeq
  <2>2. Len(none) =< 247
    BY <2>1
  <2>3. QED
    BY <1>1, <1>4, <1>5, <1>6, <1>7, <2>2, Bypassed
<1>10. QED
  BY <1>2, <1>3, <1>5, <1>6, <1>7, <1>8, <1>9

(* The lengths that transmitModbus485toTcp and the push of measurements    *)
(* write into their headers are those of what follows, up to RoomForData   *)
(* bytes.                                                                  *)
THEOREM LengthsDoHold == LengthsHold
<1>1. ASSUME NEW n \in 0..RoomForData, NEW d \in Payload(n)
      PROVE  Transmit485toTcp(1, 2, 4, d) = SensorResponse(1, 2, 4, d)
  <2>1. n \in Nat /\ n =< 247
    BY DEF RoomForData, FrameSize
  <2>2. d \in Seq(Byte) /\ Len(d) =< 247
    BY <2>1, PayloadBytes
  <2>3. 1 \in Word16 /\ 2 \in Byte /\ 4 \in Byte
    BY DEF Word16, Byte
  <2>4. QED
    BY <2>2, <2>3, TransmitAsSensor
<1>2. ASSUME NEW d \in Payload(80), NEW id \in Ids
      PROVE  Transmit485toTcpWriteMultiple(id, 1, 4096, d) = WriteMultiple(id, 1, 4096, d)
  <2>1. PICK n \in Nat : n = 80
    OBVIOUS
  <2>2. d \in Seq(Byte) /\ Len(d) = n
    BY <2>1, PayloadBytes
  <2>3. Len(d) =< 243
    BY <2>1, <2>2
  <2>4. PICK reg \in Word16 : reg = 4096
    BY DEF Word16
  <2>5. PICK a \in Byte : a = 1
    BY DEF Byte
  <2>6. id \in Word16
    BY IdsAre
  <2>7. Transmit485toTcpWriteMultiple(id, a, reg, d) = WriteMultiple(id, a, reg, d)
    BY <2>2, <2>3, <2>6, PushWhole
  <2>8. QED
    BY <2>4, <2>5, <2>7
<1>3. QED
  BY <1>1, <1>2 DEF LengthsHold

(* What is pushed to a TCP server shows every slot of VICONOX once, as     *)
(* wide as it is read, one behind the other without a gap                  *)
(* (mergeVICONOXdata).                                                     *)
THEOREM ViconoxMapWhole == WholeMap(ViconoxMap, ViconoxReads)
<1>1. ASSUME NEW p \in ViconoxMap
      PROVE  \/ p = <<0, 0, 4>> \/ p = <<1, 4, 4>> \/ p = <<6, 8, 4>> \/ p = <<7, 12, 4>>
             \/ p = <<2, 16, 4>> \/ p = <<3, 20, 4>> \/ p = <<4, 24, 4>>
             \/ p = <<12, 28, 2>> \/ p = <<13, 30, 2>>
  BY DEF ViconoxMap
<1>2. ASSUME NEW i \in DOMAIN ViconoxReads
      PROVE  \E p \in ViconoxMap : p[1] = ViconoxReads[i].at /\ p[3] = 2 * ViconoxReads[i].words
  <2>1. i = 1 \/ i = 2 \/ i = 3 \/ i = 4 \/ i = 5 \/ i = 6 \/ i = 7 \/ i = 8 \/ i = 9
    BY ViconoxTable
  <2>2. QED
    BY <2>1, ViconoxTable DEF ViconoxMap
<1>3. ASSUME NEW p \in ViconoxMap PROVE \E i \in DOMAIN ViconoxReads : p[1] = ViconoxReads[i].at
  BY <1>1, ViconoxTable
<1>4. ASSUME NEW p \in ViconoxMap PROVE p[2] = 0 \/ \E q \in ViconoxMap : p[2] = q[2] + q[3]
  BY <1>1 DEF ViconoxMap
<1>5. ASSUME NEW p \in ViconoxMap, NEW q \in ViconoxMap \ {p}
      PROVE  p[1] # q[1] /\ (p[2] + p[3] <= q[2] \/ q[2] + q[3] <= p[2])
  BY <1>1
<1>6. QED
  BY <1>2, <1>3, <1>4, <1>5 DEF WholeMap

(* The same for the slots of AIRFLOW (mergeAIRFLOWdata).                   *)
THEOREM AirflowMapWhole == WholeMap(AirflowMap, AirflowReads)
<1>1. ASSUME NEW p \in AirflowMap
      PROVE  \/ p = <<5, 0, 4>> \/ p = <<8, 4, 4>> \/ p = <<9, 8, 4>> \/ p = <<10, 12, 4>>
             \/ p = <<11, 16, 4>> \/ p = <<14, 20, 2>> \/ p = <<15, 22, 2>>
  BY DEF AirflowMap
<1>2. ASSUME NEW i \in DOMAIN AirflowReads
      PROVE  \E p \in AirflowMap : p[1] = AirflowReads[i].at /\ p[3] = 2 * AirflowReads[i].words
  <2>1. i = 1 \/ i = 2 \/ i = 3 \/ i = 4 \/ i = 5 \/ i = 6 \/ i = 7
    BY AirflowTable
  <2>2. QED
    BY <2>1, AirflowTable DEF AirflowMap
<1>3. ASSUME NEW p \in AirflowMap PROVE \E i \in DOMAIN AirflowReads : p[1] = AirflowReads[i].at
  BY <1>1, AirflowTable
<1>4. ASSUME NEW p \in AirflowMap PROVE p[2] = 0 \/ \E q \in AirflowMap : p[2] = q[2] + q[3]
  BY <1>1 DEF AirflowMap
<1>5. ASSUME NEW p \in AirflowMap, NEW q \in AirflowMap \ {p}
      PROVE  p[1] # q[1] /\ (p[2] + p[3] <= q[2] \/ q[2] + q[3] <= p[2])
  BY <1>1
<1>6. QED
  BY <1>2, <1>3, <1>4, <1>5 DEF WholeMap

(* Together: the half of ReceiverAgrees about the frames of Modbus TCP.    *)
THEOREM TcpFramesDoAgree == TcpFramesAgree
BY BypassIsTransparent, LengthsDoHold, ViconoxMapWhole, AirflowMapWhole DEF TcpFramesAgree
=============================================================================
