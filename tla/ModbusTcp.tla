----------------------------- MODULE ModbusTcp ------------------------------
(***************************************************************************)
(* The Modbus TCP server of the SIU-01 (app.c, modbusTCP.c): what it makes *)
(* of the bytes it finds on its sockets, the map of its own registers, the *)
(* bypass of requests to the sensors, and the timers behind the flags      *)
(* tcpPollBusy and client_busy.                                            *)
(*                                                                         *)
(* A read takes whatever has arrived.  Only a whole request is copied to   *)
(* byteBuffer; but receiveModbusTcp ends with a bare "return;" when it has *)
(* read less than a header or no Modbus, the build then returns what rcvfrom *)
(* returned, and the caller answers the request that byteBuffer still      *)
(* holds, whichever socket it came from.                                   *)
(*                                                                         *)
(* How connections come and go is the subject of Sockets, the transaction  *)
(* with a sensor that of Rs485.  The numbers and contents of the pushes of *)
(* the client are left out.                                                *)
(***************************************************************************)
EXTENDS Integers, Sequences

CONSTANTS
  Sockets,  \* number of server sockets, one master on each
  Calm,     \* masters that send each request in one piece and wait for its end
  Ask,      \* the requests
  Tids      \* so many transaction numbers

Master == 1..Sockets
Tid == 0..Tids - 1
Own == "siuAddress"
Viconox == 10000
Airflow == 10020

ASSUME MasterAssumption ==
  /\ Sockets \in Nat \ {0} /\ Calm \subseteq Master
  /\ Tids \in Nat \ {0}
ASSUME AskAssumption ==
  \A a \in Ask : a.reg \in Nat /\ a.bytes \in 0..240 /\ DOMAIN a = {"unit", "reg", "bytes"}

NoAsk == [unit |-> "none", reg |-> 0, bytes |-> 0]
NoTid == -1
Nothing == [tid |-> NoTid, ask |-> NoAsk]
Request == [tid : Tid, ask : Ask]
Rest == [part |-> "tail", tid |-> NoTid, ask |-> NoAsk]
Piece == [part : {"whole", "head"}, tid : Tid, ask : Ask] \cup {Rest}

VARIABLES
  up,          \* the connection of each socket is established
  rx,          \* its receive buffer: pieces of requests
  out,         \* the answer that is not acknowledged yet
  asked,       \* what the master waits for
  byteBuffer,  \* the request taken last
  tid,         \* its number, or that of a later piece
  turn,        \* the socket the main loop is at; 0 is that of the client
  step,        \* where it is there
  busy,        \* tcpPollBusy and client_busy
  runs         \* the timers that clear them

network == <<up, rx, out, asked>>
buffer == <<byteBuffer, tid>>
flags == <<busy, runs>>
vars == <<network, buffer, turn, step, flags>>

NoAnswer == [tid |-> NoTid, ask |-> NoAsk, bytes |-> 0, filled |-> 0]
Answer == [tid : Tid \cup {NoTid}, ask : Ask \cup {NoAsk}, bytes : 0..240,
           filled : 0..240]

TypeOK ==
  /\ up \in [Master -> BOOLEAN]
  /\ rx \in [Master -> Seq(Piece)]
  /\ out \in [Master -> Answer]
  /\ asked \in [Master -> Request \cup {Nothing}]
  /\ byteBuffer \in Ask \cup {NoAsk}
  /\ tid \in Tid \cup {NoTid}
  /\ turn \in 0..Sockets + 1
  /\ step \in {"look", "sensor", "first", "second"}
  /\ busy \in [{"poll", "push"} -> BOOLEAN]
  /\ runs \in [{"poll", "push"} -> BOOLEAN]

Init ==
  /\ up = [m \in Master |-> FALSE]
  /\ rx = [m \in Master |-> <<>>]
  /\ out = [m \in Master |-> NoAnswer]
  /\ asked = [m \in Master |-> Nothing]
  /\ byteBuffer = NoAsk /\ tid = NoTid
  /\ turn = 0 /\ step = "look"
  /\ busy = [f \in {"poll", "push"} |-> FALSE]
  /\ runs = [f \in {"poll", "push"} |-> FALSE]

-----------------------------------------------------------------------------
\* Definitions named "Wrong..." are variants with one mistake each; the
\* properties are seen to fail when one of them replaces the definition
\* that follows it.

(* The registers of the unit: 40 bytes of VICONOX from 10000, 40 bytes of  *)
(* AIRFLOW from 10020.  An answer has so many bytes, and so many were      *)
(* filled from the register asked for; the rest is what the stack held.    *)
Length(a) ==
  CASE a.reg = Viconox /\ a.bytes > 80 -> 40
    [] a.reg = Airflow /\ a.bytes > 40 -> 40
    [] OTHER                           -> a.bytes
Filled(a) ==
  CASE a.reg = Viconox -> IF a.bytes <= 40 THEN 40 ELSE 80
    [] a.reg = Airflow -> 40
    [] OTHER           -> 0

WrongReply(m, a, t, bytes, filled) ==      \* one flag for all sockets
  IF up[m] /\ \A n \in Master : out[n] = NoAnswer
    THEN [out EXCEPT ![m] = [tid |-> t, ask |-> a, bytes |-> bytes, filled |-> filled]]
    ELSE out

(* transmitModbus485toTcp and sendtoServer: nothing is sent on a socket    *)
(* that is not connected or whose last answer is not acknowledged.         *)
Reply(m, a, t, bytes, filled) ==
  IF up[m] /\ out[m] = NoAnswer
    THEN [out EXCEPT ![m] = [tid |-> t, ask |-> a, bytes |-> bytes, filled |-> filled]]
    ELSE out

-----------------------------------------------------------------------------
(* The main loop.                                                          *)

NextTurn == turn' = (turn + 1) % (Sockets + 2) /\ step' = "look"
At(m, s) == turn = m /\ step = s

(* receiveModbusTcp: what a read makes of what is there, as pairs of the   *)
(* request in byteBuffer with tid and of the value returned.  A first      *)
(* piece is shorter than a header, or has one and leaves its number.       *)
Outcome(a, t, r) == [ask |-> a, tid |-> t, ret |-> r]

WrongIsWhole(q) ==     \* the length taken for one with the header
  Len(q) = 2 /\ q[1].part = "head"
IsWhole(q) ==
  \/ Len(q) = 1 /\ q[1].part = "whole"
  \/ Len(q) = 2 /\ q[1].part = "head" /\ q[2].part = "tail"

WrongReads(q) ==       \* appended to what is there already
  CASE q = <<>>            -> {Outcome(byteBuffer, tid, FALSE)}
    [] IsWhole(q)          -> {Outcome(IF byteBuffer = NoAsk THEN q[1].ask
                                       ELSE byteBuffer, q[1].tid, TRUE)}
    [] OTHER               -> {Outcome(byteBuffer, q[1].tid, FALSE)}
Reads(q) ==
  IF q = <<>> THEN {Outcome(byteBuffer, tid, FALSE)}
  ELSE CASE IsWhole(q)         -> {Outcome(q[1].ask, q[1].tid, TRUE)}
         [] Len(q) = 1 /\ q[1].part = "head" ->
              {Outcome(byteBuffer, tid, TRUE), Outcome(byteBuffer, q[1].tid, FALSE)}
         [] q[1].part = "tail" -> {Outcome(byteBuffer, NoTid, r) : r \in BOOLEAN}
                                  \cup {Outcome(byteBuffer, tid, TRUE)}
         [] OTHER              -> {Outcome(byteBuffer, q[1].tid, FALSE)}

(* TcpReceiveAndReply of the request in byteBuffer, whoever sent it; a     *)
(* request for another unit goes to the sensors first.  Then the guard.    *)
ReceiveAndReply(m, o) ==
  /\ byteBuffer' = o.ask /\ tid' = o.tid
  /\ turn' = m
  /\ IF o.ask.unit = Own
       THEN /\ out' = Reply(m, o.ask, o.tid, Length(o.ask), Filled(o.ask))
            /\ step' = "first"
       ELSE step' = "sensor" /\ UNCHANGED out

(* tcp_server shows the socket established.                                *)
Receive(m) ==
  /\ At(m, "look") /\ up[m]
  /\ rx' = [rx EXCEPT ![m] = <<>>]
  /\ \E o \in Reads(rx[m]) :
       IF o.ret THEN ReceiveAndReply(m, o)
       ELSE /\ byteBuffer' = o.ask /\ tid' = o.tid
            /\ NextTurn
            /\ UNCHANGED out
  /\ UNCHANGED <<up, asked, flags>>

(* readSensor has an answer, or none.                                      *)
SensorDone ==
  /\ step = "sensor"
  /\ \/ out' = Reply(turn, byteBuffer, tid, byteBuffer.bytes, byteBuffer.bytes)
     \/ UNCHANGED out
  /\ step' = "first"
  /\ UNCHANGED <<up, rx, asked, buffer, turn, flags>>

(* client_busy is clear: a push, then its timer.                           *)
Push ==
  /\ At(0, "look") /\ ~busy["push"]
  /\ step' = "first"
  /\ UNCHANGED <<network, buffer, turn, flags>>

(* The client has nothing to do, or a server socket is not connected, or   *)
(* the rest of the loop runs.                                              *)
GoOn ==
  /\ step = "look"
  /\ turn \in Master => ~up[turn]
  /\ NextTurn
  /\ UNCHANGED <<network, buffer, flags>>

(* tcp_server has connected; Sockets has its steps.                        *)
Connect(m) ==
  /\ At(m, "look") /\ ~up[m]
  /\ up' = [up EXCEPT ![m] = TRUE]
  /\ NextTurn
  /\ UNCHANGED <<rx, out, asked, buffer, flags>>

(* TcpPollGuardTimeStart and the end of a push set the flag first; a timer *)
(* that runs is left alone.                                                *)
Flag == IF turn = 0 THEN "push" ELSE "poll"
WrongMark ==           \* the timer first
  [first |-> "timer", second |-> "flag"]
Mark == [first |-> "flag", second |-> "timer"]
Started(what) ==
  IF what = "flag" THEN busy' = [busy EXCEPT ![Flag] = TRUE] /\ UNCHANGED runs
                   ELSE runs' = [runs EXCEPT ![Flag] = TRUE] /\ UNCHANGED busy

StartGuard ==
  /\ \/ step = "first" /\ step' = "second" /\ UNCHANGED turn
     \/ step = "second" /\ NextTurn
  /\ Started(Mark[step])
  /\ UNCHANGED <<network, buffer>>

MainLoop ==
  \/ SensorDone \/ Push \/ GoOn \/ StartGuard
  \/ \E m \in Master : Receive(m) \/ Connect(m)

-----------------------------------------------------------------------------
(* The timers, the network and the masters.                                *)

TimerCallBack(f) ==
  /\ runs[f]
  /\ runs' = [runs EXCEPT ![f] = FALSE]
  /\ busy' = [busy EXCEPT ![f] = FALSE]
  /\ UNCHANGED <<network, buffer, turn, step>>

(* A connection ends, with all that is under way on it...                  *)
Ended(m) ==
  /\ up' = [up EXCEPT ![m] = FALSE]
  /\ rx' = [rx EXCEPT ![m] = <<>>]
  /\ asked' = [asked EXCEPT ![m] = Nothing]
Disconnect(m) ==
  /\ up[m] /\ Ended(m)
  /\ out' = [out EXCEPT ![m] = NoAnswer]
  /\ UNCHANGED <<buffer, turn, step, flags>>

(* ...or while recv reads from it, which then fails with a negative value. *)
DisconnectInRead(m) ==
  /\ At(m, "look") /\ up[m] /\ rx[m] # <<>>
  /\ Ended(m)
  /\ out' = [out EXCEPT ![m] = NoAnswer]
  /\ step' = IF byteBuffer.unit = Own THEN "first" ELSE "sensor"
  /\ UNCHANGED <<buffer, turn, flags>>

(* No number comes again while something under it is on its way.           *)
InUse(m) == {rx[m][i].tid : i \in 1..Len(rx[m])} \cup {out[m].tid}

(* A master asks.  Only one that is not calm asks again before the answer, *)
(* and cuts its request in two.  What it sends acknowledges what it has.   *)
AskFor(m) ==
  /\ up[m] /\ rx[m] = <<>>                    \* a bound
  /\ m \in Calm => asked[m] = Nothing
  /\ \E a \in Ask, t \in Tid \ InUse(m), p \in {"whole", "head"} :
       /\ m \in Calm => p = "whole"
       /\ asked' = [asked EXCEPT ![m] = [tid |-> t, ask |-> a]]
       /\ rx' = [rx EXCEPT ![m] = <<[part |-> p, tid |-> t, ask |-> a]>>]
  /\ UNCHANGED <<up, out, buffer, turn, step, flags>>

(* The second piece of a request, perhaps after the first has been read;   *)
(* alone it stands for any bytes that are no Modbus request.               *)
RestComes(m) ==
  /\ up[m] /\ m \notin Calm /\ asked[m] # Nothing
  /\ rx[m] = <<>> \/ (Len(rx[m]) = 1 /\ rx[m][1].part = "head")
  /\ rx' = [rx EXCEPT ![m] = Append(@, Rest)]
  /\ UNCHANGED <<up, out, asked, buffer, turn, step, flags>>

(* An answer comes; one with another number is ignored.                    *)
Deliver(m) ==
  /\ out[m] # NoAnswer
  /\ out' = [out EXCEPT ![m] = NoAnswer]
  /\ asked' = IF out[m].tid = asked[m].tid THEN [asked EXCEPT ![m] = Nothing] ELSE asked
  /\ UNCHANGED <<up, rx, buffer, turn, step, flags>>

(* The timeout of the master; a calm one waits as long as an answer may    *)
(* come.                                                                   *)
UnderWay(m) == rx[m] # <<>> \/ out[m] # NoAnswer \/ (turn = m /\ step = "sensor")
GiveUp(m) ==
  /\ asked[m] # Nothing
  /\ m \in Calm => ~UnderWay(m)
  /\ asked' = [asked EXCEPT ![m] = Nothing]
  /\ UNCHANGED <<up, rx, out, buffer, turn, step, flags>>

Next ==
  \/ MainLoop
  \/ \E f \in {"poll", "push"} : TimerCallBack(f)
  \/ \E m \in Master : \/ Disconnect(m) \/ DisconnectInRead(m) \/ AskFor(m)
                       \/ RestComes(m) \/ Deliver(m) \/ GiveUp(m)

(* The main loop goes on, timers fire, TCP delivers, masters give up.      *)
Fairness ==
  /\ WF_vars(MainLoop)
  /\ \A f \in {"poll", "push"} : WF_vars(TimerCallBack(f))
  /\ \A m \in Master : WF_vars(Deliver(m)) /\ WF_vars(GiveUp(m))

Spec == Init /\ [][Next]_vars /\ Fairness

-----------------------------------------------------------------------------
(* Requirements.                                                           *)

(* A calm master never takes for its answer what is none: the answer that  *)
(* carries the number it waits for is that to its request, whatever pieces *)
(* the other master sends, and however often these make the unit answer a  *)
(* request again.  And it is complete: of the registers the unit has, all  *)
(* that were asked for have been filled in.                                *)
InMap(a) == \/ a.reg = Viconox /\ a.bytes <= 80
            \/ a.reg = Airflow /\ a.bytes <= 40
OwnAnswer ==
  \A m \in Calm :
    asked[m] # Nothing /\ out[m].tid = asked[m].tid =>
      /\ out[m].ask = asked[m].ask
      /\ out[m].ask.unit = Own /\ InMap(out[m].ask) =>
           out[m].bytes = out[m].ask.bytes /\ out[m].bytes <= out[m].filled

(* No request of a calm master to the unit itself is lost: it waits in the *)
(* buffer of its socket or is answered; its last answer never holds the    *)
(* new one back (SOCK_BUSY), and no read throws it away.                   *)
NothingLost ==
  \A m \in Calm :
    asked[m].ask.unit = Own =>
      \/ \E i \in 1..Len(rx[m]) : rx[m][i].tid = asked[m].tid
      \/ out[m].tid = asked[m].tid

(* So the answer to it is on its way in time, whatever the other does, as  *)
(* long as the transactions with the sensors end, i.e. their echoes come.  *)
Served ==
  \A m \in Calm : asked[m].ask.unit = Own ~> out[m] # NoAnswer \/ ~up[m]

(* A flag that is set has its timer behind it: the polling and the pushes  *)
(* are not shut out for ever, although the timer interrupt may come        *)
(* between the flag and the start of the timer.                            *)
FlagTimed ==
  \A f \in {"poll", "push"} :
    busy[f] => runs[f] \/ (f = Flag /\ step = "second")
=============================================================================
