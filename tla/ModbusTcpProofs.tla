--------------------------- MODULE ModbusTcpProofs ---------------------------
(***************************************************************************)
(* Proofs about ModbusTcp for any number of sockets, masters, requests and *)
(* transaction numbers: type correctness, the timers behind the flags, and *)
(* what a master that is calm may rely on.                                 *)
(***************************************************************************)
EXTENDS ModbusTcp, TLAPS

(* The loop's turns go round.                                              *)
LEMMA Remainder ==
  ASSUME NEW a \in Nat, NEW n \in Nat \ {0}
  PROVE  a % n \in 0..n - 1
  OBVIOUS

(* Requests and answers of the unit have sizes of a byte.                  *)
LEMMA AskType ==
  ASSUME NEW a \in Ask \cup {NoAsk}
  PROVE  /\ a.reg \in Nat /\ a.bytes \in 0..240
         /\ Length(a) \in 0..240 /\ Filled(a) \in 0..240
<1>1. a.reg \in Nat /\ a.bytes \in 0..240
  BY AskAssumption DEF NoAsk
<1>2. Length(a) \in 0..240
  BY <1>1 DEF Length
<1>3. Filled(a) \in 0..240
  BY <1>1 DEF Filled
<1>4. QED
  BY <1>1, <1>2, <1>3

(* A reply is an answer in its own socket, or nothing.                     *)
LEMMA ReplyType ==
  ASSUME TypeOK, NEW m, NEW a \in Ask \cup {NoAsk},
         NEW t \in Tid \cup {NoTid}, NEW b \in 0..240, NEW f \in 0..240
  PROVE  Reply(m, a, t, b, f) \in [Master -> Answer]
<1>1. [tid |-> t, ask |-> a, bytes |-> b, filled |-> f] \in Answer
  BY DEF Answer
<1>2. QED
  BY <1>1 DEF Reply, TypeOK

LEMMA PieceType ==
  ASSUME NEW p \in Piece
  PROVE  p.ask \in Ask \cup {NoAsk} /\ p.tid \in Tid \cup {NoTid}
  BY DEF Piece, Rest

(* What a read makes of its bytes has the types of byteBuffer and tid.     *)
LEMMA ReadsType ==
  ASSUME TypeOK, NEW q \in Seq(Piece), NEW o \in Reads(q)
  PROVE  /\ o.ask \in Ask \cup {NoAsk} /\ o.tid \in Tid \cup {NoTid}
         /\ o.ret \in BOOLEAN
<1>1. byteBuffer \in Ask \cup {NoAsk} /\ tid \in Tid \cup {NoTid}
  BY DEF TypeOK
<1>2. q # <<>> => q[1].ask \in Ask \cup {NoAsk} /\ q[1].tid \in Tid \cup {NoTid}
  BY PieceType
<1>3. PICK a \in Ask \cup {NoAsk}, t \in Tid \cup {NoTid}, r \in BOOLEAN :
        o = Outcome(a, t, r)
  <2>1. CASE q = <<>>
    BY <1>1, <2>1 DEF Reads
  <2>2. CASE q # <<>> /\ IsWhole(q)
    BY <1>2, <2>2 DEF Reads, IsWhole
  <2>3. CASE q # <<>> /\ ~IsWhole(q) /\ Len(q) = 1 /\ q[1].part = "head"
    <3>1. Reads(q) = {Outcome(byteBuffer, tid, TRUE), Outcome(byteBuffer, q[1].tid, FALSE)}
      BY <2>3 DEF Reads
    <3>2. QED
      BY <1>1, <1>2, <2>3, <3>1
  <2>4. CASE /\ q # <<>> /\ ~IsWhole(q) /\ ~(Len(q) = 1 /\ q[1].part = "head")
             /\ q[1].part = "tail"
    BY <1>1, <2>4 DEF Reads
  <2>5. CASE /\ q # <<>> /\ ~IsWhole(q) /\ ~(Len(q) = 1 /\ q[1].part = "head")
             /\ q[1].part # "tail"
    BY <1>1, <1>2, <2>5 DEF Reads
  <2>6. QED
    BY <2>1, <2>2, <2>3, <2>4, <2>5
<1>4. QED
  BY <1>3 DEF Outcome

-----------------------------------------------------------------------------
(* Type correctness.                                                       *)
LEMMA InitTypeOK == Init => TypeOK
<1> SUFFICES ASSUME Init PROVE TypeOK
  OBVIOUS
<1>1. NoAnswer \in Answer
  BY DEF NoAnswer, Answer
<1>2. <<>> \in Seq(Piece)
  OBVIOUS
<1>3. 0 \in 0..Sockets + 1
  BY MasterAssumption
<1>4. QED
  BY <1>1, <1>2, <1>3 DEF Init, TypeOK

LEMMA NextTurnType ==
  ASSUME TypeOK, NextTurn
  PROVE  turn' \in 0..Sockets + 1 /\ step' = "look"
<1>1. turn + 1 \in Nat /\ Sockets + 2 \in Nat \ {0}
  BY MasterAssumption DEF TypeOK
<1>2. (turn + 1) % (Sockets + 2) \in 0..(Sockets + 2) - 1
  BY <1>1, Remainder
<1>3. (Sockets + 2) - 1 = Sockets + 1
  BY MasterAssumption
<1>4. QED
  BY <1>2, <1>3 DEF NextTurn

LEMMA EndedType ==
  ASSUME TypeOK, NEW m \in Master, Ended(m)
  PROVE  /\ up' \in [Master -> BOOLEAN] /\ rx' \in [Master -> Seq(Piece)]
         /\ asked' \in [Master -> Request \cup {Nothing}]
<1>1. <<>> \in Seq(Piece)
  OBVIOUS
<1>2. QED
  BY <1>1 DEF Ended, TypeOK

LEMMA NextTypeOK == TypeOK /\ [Next]_vars => TypeOK'
<1> SUFFICES ASSUME TypeOK, [Next]_vars
             PROVE  TypeOK'
  OBVIOUS
<1> USE DEF network, buffer, flags
<1>a. NoAnswer \in Answer
  BY DEF NoAnswer, Answer
<1>1. ASSUME NEW m \in Master, Receive(m)
      PROVE  TypeOK'
  <2>1. rx' \in [Master -> Seq(Piece)]
    <3>1. <<>> \in Seq(Piece)
      OBVIOUS
    <3>2. QED
      BY <1>1, <3>1 DEF Receive, TypeOK
  <2>2. rx[m] \in Seq(Piece)
    BY DEF TypeOK
  <2>3. PICK o \in Reads(rx[m]) :
          IF o.ret THEN ReceiveAndReply(m, o)
          ELSE /\ byteBuffer' = o.ask /\ tid' = o.tid
               /\ NextTurn
               /\ UNCHANGED out
    BY <1>1 DEF Receive
  <2>4. o.ask \in Ask \cup {NoAsk} /\ o.tid \in Tid \cup {NoTid}
    BY <2>2, ReadsType
  <2>5. byteBuffer' = o.ask /\ tid' = o.tid
    BY <2>3 DEF ReceiveAndReply
  <2>6. CASE o.ret
    <3>1. Reply(m, o.ask, o.tid, Length(o.ask), Filled(o.ask)) \in [Master -> Answer]
      <4>1. Length(o.ask) \in 0..240 /\ Filled(o.ask) \in 0..240
        BY <2>4, AskType
      <4>2. QED
        BY <2>4, <4>1, ReplyType
    <3>2. out' \in [Master -> Answer] /\ turn' = m /\ step' \in {"sensor", "first"}
      BY <2>3, <2>6, <3>1 DEF ReceiveAndReply, TypeOK
    <3>3. m \in 0..Sockets + 1
      BY MasterAssumption DEF Master
    <3>4. QED
      BY <1>1, <2>1, <2>4, <2>5, <3>2, <3>3 DEF Receive, TypeOK
  <2>7. CASE ~o.ret
    BY <1>1, <2>1, <2>3, <2>4, <2>5, <2>7, NextTurnType DEF Receive, TypeOK
  <2>8. QED
    BY <2>6, <2>7
<1>2. CASE SensorDone
  <2>1. Reply(turn, byteBuffer, tid, byteBuffer.bytes, byteBuffer.bytes)
          \in [Master -> Answer]
    BY AskType, ReplyType DEF TypeOK
  <2>2. QED
    BY <1>2, <2>1 DEF SensorDone, TypeOK
<1>3. CASE Push
  BY <1>3 DEF Push, TypeOK
<1>4. CASE GoOn
  BY <1>4, NextTurnType DEF GoOn, TypeOK
<1>5. CASE StartGuard
  <2>1. busy' \in [{"poll", "push"} -> BOOLEAN] /\ runs' \in [{"poll", "push"} -> BOOLEAN]
    BY <1>5 DEF StartGuard, Started, TypeOK
  <2>2. turn' \in 0..Sockets + 1 /\ step' \in {"look", "second"}
    BY <1>5, NextTurnType DEF StartGuard, TypeOK
  <2>3. QED
    BY <1>5, <2>1, <2>2 DEF StartGuard, TypeOK
<1>6. ASSUME NEW m \in Master, Connect(m)
      PROVE  TypeOK'
  BY <1>6, NextTurnType DEF Connect, TypeOK
<1>7. ASSUME NEW f \in {"poll", "push"}, TimerCallBack(f)
      PROVE  TypeOK'
  BY <1>7 DEF TimerCallBack, TypeOK
<1>8. ASSUME NEW m \in Master, Disconnect(m)
      PROVE  TypeOK'
  BY <1>8, <1>a, EndedType DEF Disconnect, TypeOK
<1>9. ASSUME NEW m \in Master, DisconnectInRead(m)
      PROVE  TypeOK'
  BY <1>9, <1>a, EndedType DEF DisconnectInRead, TypeOK
<1>10. ASSUME NEW m \in Master, AskFor(m)
       PROVE  TypeOK'
  <2>1. PICK a \in Ask, t \in Tid \ InUse(m), p \in {"whole", "head"} :
          /\ asked' = [asked EXCEPT ![m] = [tid |-> t, ask |-> a]]
          /\ rx' = [rx EXCEPT ![m] = <<[part |-> p, tid |-> t, ask |-> a]>>]
    BY <1>10 DEF AskFor
  <2>2. [tid |-> t, ask |-> a] \in Request
    BY DEF Request
  <2>3. [part |-> p, tid |-> t, ask |-> a] \in Piece
    BY DEF Piece
  <2>4. <<[part |-> p, tid |-> t, ask |-> a]>> \in Seq(Piece)
    BY <2>3
  <2>5. asked' \in [Master -> Request \cup {Nothing}] /\ rx' \in [Master -> Seq(Piece)]
    BY <2>1, <2>2, <2>4 DEF TypeOK
  <2>6. QED
    BY <1>10, <2>5 DEF AskFor, TypeOK
<1>11. ASSUME NEW m \in Master, RestComes(m)
       PROVE  TypeOK'
  <2>1. Append(rx[m], Rest) \in Seq(Piece)
    <3>1. Rest \in Piece /\ rx[m] \in Seq(Piece)
      BY DEF Piece, TypeOK
    <3>2. QED
      BY <3>1
  <2>2. rx' \in [Master -> Seq(Piece)]
    BY <1>11, <2>1 DEF RestComes, TypeOK
  <2>3. QED
    BY <1>11, <2>2 DEF RestComes, TypeOK
<1>12. ASSUME NEW m \in Master, Deliver(m)
       PROVE  TypeOK'
  BY <1>12, <1>a DEF Deliver, TypeOK
<1>13. ASSUME NEW m \in Master, GiveUp(m)
       PROVE  TypeOK'
  BY <1>13 DEF GiveUp, TypeOK
<1>14. CASE UNCHANGED vars
  BY <1>14 DEF vars, TypeOK
<1>15. QED
  BY <1>1, <1>2, <1>3, <1>4, <1>5, <1>6, <1>7, <1>8, <1>9, <1>10, <1>11,
     <1>12, <1>13, <1>14 DEF Next, MainLoop

(* Every variable keeps its type, whatever arrives in whatever pieces.     *)
THEOREM TypeCorrect == Spec => []TypeOK
  BY InitTypeOK, NextTypeOK, PTL DEF Spec

-----------------------------------------------------------------------------
(* The flags of the polling and of the pushes always have a timer behind   *)
(* them that will clear them, or one is about to be started.               *)
LEMMA NextFlagTimed == TypeOK /\ FlagTimed /\ [Next]_vars => FlagTimed'
<1> SUFFICES ASSUME TypeOK, FlagTimed, [Next]_vars,
                    NEW f \in {"poll", "push"}, busy'[f]
             PROVE  runs'[f] \/ (f = Flag' /\ step' = "second")
  BY DEF FlagTimed
<1> USE DEF FlagTimed, flags
<1>1. CASE StartGuard
  <2>1. CASE step = "first"
    <3>1. busy' = [busy EXCEPT ![Flag] = TRUE] /\ runs' = runs
          /\ step' = "second" /\ turn' = turn
      BY <1>1, <2>1 DEF StartGuard, Started, Mark
    <3>2. QED
      BY <2>1, <3>1 DEF Flag, TypeOK
  <2>2. CASE step = "second"
    <3>1. runs' = [runs EXCEPT ![Flag] = TRUE] /\ busy' = busy
      BY <1>1, <2>2 DEF StartGuard, Started, Mark
    <3>2. QED
      BY <3>1 DEF Flag, TypeOK
  <2>3. QED
    BY <1>1, <2>1, <2>2 DEF StartGuard
<1>2. ASSUME NEW g \in {"poll", "push"}, TimerCallBack(g)
      PROVE  runs'[f] \/ (f = Flag' /\ step' = "second")
  <2>1. f # g /\ busy[f] /\ runs'[f] = runs[f]
    BY <1>2 DEF TimerCallBack, TypeOK
  <2>2. QED
    BY <1>2, <2>1 DEF TimerCallBack, Flag
<1>3. CASE UNCHANGED flags /\ (UNCHANGED <<turn, step>> \/ step # "second")
  BY <1>3 DEF Flag
<1>4. ASSUME NEW m \in Master, Receive(m) \/ Connect(m) \/ DisconnectInRead(m)
      PROVE  UNCHANGED flags /\ step # "second"
  BY <1>4 DEF Receive, Connect, DisconnectInRead, At
<1>5. SensorDone \/ Push \/ GoOn => UNCHANGED flags /\ step # "second"
  BY DEF SensorDone, Push, GoOn, At
<1>6. ASSUME NEW m \in Master,
             Disconnect(m) \/ AskFor(m) \/ RestComes(m) \/ Deliver(m) \/ GiveUp(m)
      PROVE  UNCHANGED flags /\ UNCHANGED <<turn, step>>
  BY <1>6 DEF Disconnect, AskFor, RestComes, Deliver, GiveUp
<1>7. UNCHANGED vars => UNCHANGED flags /\ UNCHANGED <<turn, step>>
  BY DEF vars
<1>8. QED
  BY <1>1, <1>2, <1>3, <1>4, <1>5, <1>6, <1>7 DEF Next, MainLoop

(* The polling and the pushes are never shut out for ever, although the    *)
(* timer interrupt may come between the flag and the start of the timer.   *)
THEOREM FlagsTimed == Spec => []FlagTimed
<1>1. Init => FlagTimed
  BY DEF Init, FlagTimed
<1>2. QED
  BY <1>1, InitTypeOK, NextTypeOK, NextFlagTimed, PTL DEF Spec

-----------------------------------------------------------------------------
(* A calm master goes through the same phases again and again: nothing is  *)
(* under way; its request, whole, waits in the buffer of its socket; the   *)
(* request is with a sensor; its answer is on the way.                     *)
Waits(m) ==
  rx[m] # <<>> =>
    /\ rx[m] = <<[part |-> "whole", tid |-> asked[m].tid, ask |-> asked[m].ask]>>
    /\ asked[m] # Nothing /\ out[m] = NoAnswer
WithSensor(m) ==
  turn = m /\ step = "sensor" /\ up[m] =>
    /\ asked[m] = [tid |-> tid, ask |-> byteBuffer] /\ asked[m] # Nothing
    /\ rx[m] = <<>> /\ out[m] = NoAnswer
Right(a) ==
  a.ask.unit = Own /\ InMap(a.ask) =>
    a.bytes = a.ask.bytes /\ a.bytes <= a.filled
Answered(m) ==
  out[m] # NoAnswer =>
    /\ asked[m] # Nothing /\ rx[m] = <<>>
    /\ out[m].tid = asked[m].tid /\ out[m].ask = asked[m].ask
    /\ Right(out[m])
Kept(m) ==
  asked[m].ask.unit = Own => rx[m] # <<>> \/ out[m] # NoAnswer
Phase(m) == Waits(m) /\ WithSensor(m) /\ Answered(m) /\ Kept(m)
Calmly ==
  /\ \A m \in Calm : Phase(m)
  /\ step = "sensor" => byteBuffer.unit # Own

(* What the phases are for.                                                *)
LEMMA CalmlyProves == TypeOK /\ Calmly => OwnAnswer /\ NothingLost
<1> SUFFICES ASSUME TypeOK, Calmly, NEW m \in Calm
             PROVE  /\ asked[m] # Nothing /\ out[m].tid = asked[m].tid =>
                         out[m].ask = asked[m].ask /\ Right(out[m])
                    /\ asked[m].ask.unit = Own =>
                         \/ \E i \in 1..Len(rx[m]) : rx[m][i].tid = asked[m].tid
                         \/ out[m].tid = asked[m].tid
  BY DEF OwnAnswer, NothingLost, Right
<1>1. Phase(m) /\ m \in Master
  BY MasterAssumption DEF Calmly
<1>2. ASSUME asked[m] # Nothing, out[m].tid = asked[m].tid
      PROVE  out[m].ask = asked[m].ask /\ Right(out[m])
  <2>1. asked[m].tid \in Tid
    BY <1>1, <1>2 DEF TypeOK, Request
  <2>2. NoAnswer.tid \notin Tid
    BY DEF NoAnswer, NoTid, Tid
  <2>3. out[m] # NoAnswer
    BY <1>2, <2>1, <2>2
  <2>4. QED
    BY <1>1, <2>3 DEF Phase, Answered
<1>3. ASSUME asked[m].ask.unit = Own
      PROVE  \/ \E i \in 1..Len(rx[m]) : rx[m][i].tid = asked[m].tid
             \/ out[m].tid = asked[m].tid
  <2>1. CASE rx[m] # <<>>
    <3>1. rx[m] = <<[part |-> "whole", tid |-> asked[m].tid, ask |-> asked[m].ask]>>
      BY <1>1, <2>1 DEF Phase, Waits
    <3>2. 1 \in 1..Len(rx[m]) /\ rx[m][1].tid = asked[m].tid
      BY <3>1
    <3>3. QED
      BY <3>2
  <2>2. CASE out[m] # NoAnswer
    BY <1>1, <2>2 DEF Phase, Answered
  <2>3. QED
    BY <1>1, <1>3, <2>1, <2>2 DEF Phase, Kept
<1>4. QED
  BY <1>2, <1>3

LEMMA InitCalmly == Init => Calmly
<1> SUFFICES ASSUME Init, NEW m \in Calm
             PROVE  Phase(m) /\ step # "sensor"
  BY DEF Calmly, Init
<1>1. m \in Master
  BY MasterAssumption
<1>2. rx[m] = <<>> /\ out[m] = NoAnswer /\ asked[m] = Nothing /\ step = "look"
  BY <1>1 DEF Init
<1>3. Nothing.ask.unit # Own
  BY DEF Nothing, NoAsk, Own
<1>4. QED
  BY <1>2, <1>3 DEF Phase, Waits, WithSensor, Answered, Kept

(* A step that leaves what is under way for a master alone.                *)
LEMMA Aside ==
  ASSUME NEW m, Phase(m),
         rx'[m] = rx[m], out'[m] = out[m], asked'[m] = asked[m],
         turn' = m /\ step' = "sensor" /\ up'[m] =>
           /\ turn = m /\ step = "sensor" /\ up[m]
           /\ tid' = tid /\ byteBuffer' = byteBuffer
  PROVE  Phase(m)'
<1> USE DEF Phase
<1>1. Waits(m)'
  BY DEF Waits
<1>2. WithSensor(m)'
  BY DEF WithSensor
<1>3. Answered(m)'
  BY DEF Answered, Right, InMap
<1>4. Kept(m)'
  BY DEF Kept
<1>5. QED
  BY <1>1, <1>2, <1>3, <1>4

(* A master with which nothing is under way.                               *)
LEMMA AtRest ==
  ASSUME NEW m, rx'[m] = <<>>, out'[m] = NoAnswer, asked'[m] = Nothing,
         ~(turn' = m /\ step' = "sensor" /\ up'[m])
  PROVE  Phase(m)'
<1>1. Nothing.ask.unit # Own
  BY DEF Nothing, NoAsk, Own
<1>2. QED
  BY <1>1 DEF Phase, Waits, WithSensor, Answered, Kept

(* The registers of the unit are all filled in.                            *)
LEMMA AllFilled ==
  ASSUME NEW a \in Ask \cup {NoAsk}, InMap(a)
  PROVE  Length(a) = a.bytes /\ Length(a) <= Filled(a)
<1>1. a.reg \in Nat /\ a.bytes \in 0..240
  BY AskType
<1>2. QED
  BY <1>1 DEF InMap, Length, Filled, Viconox, Airflow

(* What is read for a calm master is its request.                          *)
LEMMA ReceiveCalm ==
  ASSUME TypeOK, NEW m \in Calm, Phase(m), Receive(m)
  PROVE  Phase(m)'
<1>1. m \in Master
  BY MasterAssumption
<1>2. rx'[m] = <<>> /\ asked' = asked /\ up'[m] = up[m] /\ up[m]
  BY <1>1 DEF Receive, TypeOK
<1>3. CASE rx[m] = <<>>
  <2>1. NextTurn /\ out' = out
    BY <1>3 DEF Receive, Reads, Outcome
  <2>2. QED
    BY <1>2, <1>3, <2>1, Aside DEF NextTurn
<1>4. CASE rx[m] # <<>>
  <2> DEFINE r == [part |-> "whole", tid |-> asked[m].tid, ask |-> asked[m].ask]
  <2>1. rx[m] = <<r>> /\ asked[m] # Nothing /\ out[m] = NoAnswer
    BY <1>4 DEF Phase, Waits
  <2>2. Reads(rx[m]) = {Outcome(asked[m].ask, asked[m].tid, TRUE)}
    <3>1. IsWhole(rx[m]) /\ rx[m][1] = r
      BY <2>1 DEF IsWhole
    <3>2. ~(Len(rx[m]) = 1 /\ rx[m][1].part = "head") /\ rx[m][1].part # "tail"
      BY <2>1
    <3>3. QED
      BY <1>4, <3>1, <3>2 DEF Reads
  <2>3. ReceiveAndReply(m, Outcome(asked[m].ask, asked[m].tid, TRUE))
    <3>1. PICK o \in Reads(rx[m]) : o.ret => ReceiveAndReply(m, o)
      BY DEF Receive
    <3>2. o = Outcome(asked[m].ask, asked[m].tid, TRUE) /\ o.ret
      BY <2>2 DEF Outcome
    <3>3. QED
      BY <3>1, <3>2
  <2>4. byteBuffer' = asked[m].ask /\ tid' = asked[m].tid /\ turn' = m
    BY <2>3 DEF ReceiveAndReply, Outcome
  <2>5. asked[m] \in Request
    BY <1>1, <2>1 DEF TypeOK
  <2>6. CASE asked[m].ask.unit = Own
    <3> DEFINE a == [tid |-> asked[m].tid, ask |-> asked[m].ask,
                     bytes |-> Length(asked[m].ask), filled |-> Filled(asked[m].ask)]
    <3>1. step' = "first" /\ out'[m] = a
      BY <1>1, <1>2, <2>1, <2>3, <2>6 DEF ReceiveAndReply, Outcome, Reply, TypeOK
    <3>2. Right(a)
      BY <2>5, AllFilled DEF Right, Request
    <3>3. a # NoAnswer
      BY <2>5 DEF NoAnswer, Request, Tid, NoTid
    <3>4. Answered(m)'
      BY <1>2, <2>1, <3>1, <3>2 DEF Answered, Right, InMap
    <3>5. Waits(m)' /\ WithSensor(m)' /\ Kept(m)'
      BY <1>2, <3>1, <3>3 DEF Waits, WithSensor, Kept
    <3>6. QED
      BY <3>4, <3>5 DEF Phase
  <2>7. CASE asked[m].ask.unit # Own
    <3>1. out' = out
      BY <2>3, <2>7 DEF ReceiveAndReply, Outcome
    <3>2. asked[m] = [tid |-> asked[m].tid, ask |-> asked[m].ask]
      BY <2>5 DEF Request
    <3>3. Waits(m)' /\ WithSensor(m)' /\ Answered(m)' /\ Kept(m)'
      BY <1>2, <2>1, <2>4, <2>7, <3>1, <3>2 DEF Waits, WithSensor, Answered, Kept
    <3>4. QED
      BY <3>3 DEF Phase
  <2>8. QED
    BY <2>6, <2>7
<1>5. QED
  BY <1>3, <1>4

(* What comes back from a sensor for a calm master answers its request.    *)
LEMMA SensorCalm ==
  ASSUME TypeOK, NEW m \in Calm, Phase(m), SensorDone, byteBuffer.unit # Own
  PROVE  Phase(m)'
<1>1. m \in Master /\ out[m] \in Answer
  BY MasterAssumption DEF TypeOK
<1>2. step' = "first" /\ rx' = rx /\ asked' = asked /\ up' = up
  BY DEF SensorDone
<1> DEFINE a == [tid |-> tid, ask |-> byteBuffer, bytes |-> byteBuffer.bytes,
                 filled |-> byteBuffer.bytes]
<1>3. CASE out'[m] = out[m]
  BY <1>2, <1>3, Aside
<1>4. CASE out'[m] # out[m]
  <2>1. out' = Reply(turn, byteBuffer, tid, byteBuffer.bytes, byteBuffer.bytes)
    BY <1>4 DEF SensorDone
  <2>2. turn = m /\ up[m] /\ out' = [out EXCEPT ![m] = a]
    BY <1>1, <1>4, <2>1 DEF Reply, TypeOK
  <2>3. out'[m] = a
    BY <1>1, <2>2 DEF TypeOK
  <2>4. asked[m] = [tid |-> tid, ask |-> byteBuffer] /\ asked[m] # Nothing
        /\ rx[m] = <<>>
    BY <2>2 DEF SensorDone, Phase, WithSensor
  <2>5. Right(a)
    BY DEF Right
  <2>6. Answered(m)'
    BY <1>2, <2>3, <2>4, <2>5 DEF Answered, Right, InMap
  <2>7. Waits(m)' /\ WithSensor(m)'
    BY <1>2, <2>4 DEF Waits, WithSensor
  <2>8. Kept(m)'
    BY <1>2, <2>4 DEF Kept
  <2>9. QED
    BY <2>6, <2>7, <2>8 DEF Phase
<1>5. QED
  BY <1>3, <1>4

LEMMA NextPhase ==
  ASSUME TypeOK, Calmly, [Next]_vars, NEW m \in Calm
  PROVE  Phase(m)'
<1>a. Phase(m) /\ m \in Master
  BY MasterAssumption DEF Calmly
<1> USE DEF flags, buffer, network
<1>1. ASSUME NEW n \in Master, Receive(n)
      PROVE  Phase(m)'
  <2>1. CASE n = m
    BY <1>a, <1>1, <2>1, ReceiveCalm
  <2>2. CASE n # m
    <3>1. rx'[m] = rx[m] /\ asked' = asked
      BY <1>a, <1>1, <2>2 DEF Receive, TypeOK
    <3>2. PICK o \in Reads(rx[n]) :
            IF o.ret THEN ReceiveAndReply(n, o)
            ELSE NextTurn /\ UNCHANGED out
      BY <1>1 DEF Receive
    <3>3. out'[m] = out[m] /\ ~(turn' = m /\ step' = "sensor")
      BY <1>a, <2>2, <3>2 DEF ReceiveAndReply, Reply, NextTurn, TypeOK
    <3>4. QED
      BY <1>a, <3>1, <3>3, Aside
  <2>3. QED
    BY <2>1, <2>2
<1>2. CASE SensorDone
  BY <1>a, <1>2, SensorCalm DEF Calmly, SensorDone
<1>3. CASE Push \/ GoOn \/ StartGuard \/ \E n \in Master : Connect(n)
  <2>1. /\ rx' = rx /\ out' = out /\ asked' = asked
        /\ step' # "sensor"
    BY <1>3 DEF Push, GoOn, StartGuard, Connect, NextTurn
  <2>2. QED
    BY <1>a, <2>1, Aside
<1>4. CASE (\E f \in {"poll", "push"} : TimerCallBack(f)) \/ UNCHANGED vars
  <2>1. UNCHANGED <<up, rx, out, asked, byteBuffer, tid, turn, step>>
    BY <1>4 DEF TimerCallBack, vars
  <2>2. QED
    BY <1>a, <2>1, Aside
<1>5. ASSUME NEW n \in Master, Disconnect(n) \/ DisconnectInRead(n)
      PROVE  Phase(m)'
  <2>1. CASE n = m
    <3>1. rx'[m] = <<>> /\ out'[m] = NoAnswer /\ asked'[m] = Nothing /\ ~up'[m]
      BY <1>a, <1>5, <2>1 DEF Disconnect, DisconnectInRead, Ended, TypeOK
    <3>2. QED
      BY <3>1, AtRest
  <2>2. CASE n # m
    <3>1. /\ rx'[m] = rx[m] /\ out'[m] = out[m] /\ asked'[m] = asked[m]
          /\ up'[m] = up[m] /\ byteBuffer' = byteBuffer /\ tid' = tid
      BY <1>a, <1>5, <2>2 DEF Disconnect, DisconnectInRead, Ended, TypeOK
    <3>2. turn' = turn /\ (step' = step \/ turn = n)
      BY <1>5 DEF Disconnect, DisconnectInRead, At
    <3>3. QED
      BY <1>a, <2>2, <3>1, <3>2, Aside
  <2>3. QED
    BY <2>1, <2>2
<1>6. ASSUME NEW n \in Master, AskFor(n)
      PROVE  Phase(m)'
  <2>1. PICK a \in Ask, t \in Tid \ InUse(n), p \in {"whole", "head"} :
          /\ n \in Calm => p = "whole"
          /\ asked' = [asked EXCEPT ![n] = [tid |-> t, ask |-> a]]
          /\ rx' = [rx EXCEPT ![n] = <<[part |-> p, tid |-> t, ask |-> a]>>]
    BY <1>6 DEF AskFor
  <2>2. UNCHANGED <<up, out, byteBuffer, tid, turn, step>>
    BY <1>6 DEF AskFor
  <2>3. CASE n = m
    <3>1. asked[m] = Nothing /\ rx[m] = <<>>
      BY <1>6, <2>3 DEF AskFor
    <3>2. out[m] = NoAnswer /\ ~(turn = m /\ step = "sensor" /\ up[m])
      BY <1>a, <3>1 DEF Phase, Answered, WithSensor
    <3>3. /\ asked'[m] = [tid |-> t, ask |-> a]
          /\ rx'[m] = <<[part |-> "whole", tid |-> t, ask |-> a]>>
      BY <1>a, <2>1, <2>3 DEF TypeOK
    <3>4. asked'[m] # Nothing
      BY <3>3 DEF Nothing, Tid, NoTid
    <3>5. rx'[m] # <<>>
      BY <3>3
    <3>6. QED
      BY <2>2, <3>2, <3>3, <3>4, <3>5 DEF Phase, Waits, WithSensor, Answered, Kept
  <2>4. CASE n # m
    <3>1. rx'[m] = rx[m] /\ asked'[m] = asked[m]
      BY <1>a, <2>1, <2>4 DEF TypeOK
    <3>2. QED
      BY <1>a, <2>2, <3>1, Aside
  <2>5. QED
    BY <2>3, <2>4
<1>7. ASSUME NEW n \in Master, RestComes(n)
      PROVE  Phase(m)'
  <2>1. rx'[m] = rx[m] /\ UNCHANGED <<up, out, asked, byteBuffer, tid, turn, step>>
    BY <1>a, <1>7 DEF RestComes, TypeOK
  <2>2. QED
    BY <1>a, <2>1, Aside
<1>8. ASSUME NEW n \in Master, Deliver(n)
      PROVE  Phase(m)'
  <2>1. UNCHANGED <<up, rx, byteBuffer, tid, turn, step>>
    BY <1>8 DEF Deliver
  <2>2. CASE n = m
    <3>1. out[m] # NoAnswer
      BY <1>8, <2>2 DEF Deliver
    <3>2. out[m].tid = asked[m].tid /\ rx[m] = <<>>
          /\ ~(turn = m /\ step = "sensor" /\ up[m])
      BY <1>a, <3>1 DEF Phase, Answered, WithSensor
    <3>3. out'[m] = NoAnswer /\ asked'[m] = Nothing
      BY <1>a, <1>8, <2>2, <3>2 DEF Deliver, TypeOK
    <3>4. QED
      BY <2>1, <3>2, <3>3, AtRest
  <2>3. CASE n # m
    <3>1. out'[m] = out[m] /\ asked'[m] = asked[m]
      BY <1>a, <1>8, <2>3 DEF Deliver, TypeOK
    <3>2. QED
      BY <1>a, <2>1, <3>1, Aside
  <2>4. QED
    BY <2>2, <2>3
<1>9. ASSUME NEW n \in Master, GiveUp(n)
      PROVE  Phase(m)'
  <2>1. UNCHANGED <<up, rx, out, byteBuffer, tid, turn, step>>
    BY <1>9 DEF GiveUp
  <2>2. CASE n = m
    <3>1. rx[m] = <<>> /\ out[m] = NoAnswer /\ ~(turn = m /\ step = "sensor")
      BY <1>9, <2>2 DEF GiveUp, UnderWay
    <3>2. asked'[m] = Nothing
      BY <1>a, <1>9, <2>2 DEF GiveUp, TypeOK
    <3>3. QED
      BY <2>1, <3>1, <3>2, AtRest
  <2>3. CASE n # m
    <3>1. asked'[m] = asked[m]
      BY <1>a, <1>9, <2>3 DEF GiveUp, TypeOK
    <3>2. QED
      BY <1>a, <2>1, <3>1, Aside
  <2>4. QED
    BY <2>2, <2>3
<1>10. QED
  BY <1>1, <1>2, <1>3, <1>4, <1>5, <1>6, <1>7, <1>8, <1>9 DEF Next, MainLoop

LEMMA NextCalmly == TypeOK /\ Calmly /\ [Next]_vars => Calmly'
<1> SUFFICES ASSUME TypeOK, Calmly, [Next]_vars
             PROVE  Calmly'
  OBVIOUS
<1> USE DEF flags, buffer, network
<1>1. \A m \in Calm : Phase(m)'
  BY NextPhase
<1>2. step' = "sensor" => byteBuffer'.unit # Own
  <2>1. ASSUME NEW m \in Master, Receive(m), step' = "sensor"
        PROVE  byteBuffer'.unit # Own
    BY <2>1 DEF Receive, ReceiveAndReply, NextTurn
  <2>2. ASSUME NEW m \in Master, DisconnectInRead(m), step' = "sensor"
        PROVE  byteBuffer'.unit # Own
    BY <2>2 DEF DisconnectInRead
  <2>3. CASE SensorDone \/ Push \/ GoOn \/ StartGuard \/ \E n \in Master : Connect(n)
    BY <2>3 DEF SensorDone, Push, GoOn, StartGuard, Connect, NextTurn
  <2>4. CASE \/ \E f \in {"poll", "push"} : TimerCallBack(f)
             \/ \E n \in Master : Disconnect(n) \/ AskFor(n) \/ RestComes(n)
                                  \/ Deliver(n) \/ GiveUp(n)
             \/ UNCHANGED vars
    <3>1. UNCHANGED <<byteBuffer, step>>
      BY <2>4 DEF TimerCallBack, Disconnect, AskFor, RestComes, Deliver, GiveUp, vars
    <3>2. QED
      BY <3>1 DEF Calmly
  <2>5. QED
    BY <2>1, <2>2, <2>3, <2>4 DEF Next, MainLoop
<1>3. QED
  BY <1>1, <1>2 DEF Calmly

(* A master that sends whole requests and waits for their end never takes  *)
(* another answer for its own and gets all registers it asked for, whatever *)
(* the other masters send and whenever connections break.                  *)
THEOREM AnswersOwn == Spec => []OwnAnswer
  BY InitTypeOK, NextTypeOK, InitCalmly, NextCalmly, CalmlyProves, PTL DEF Spec

(* And no request of it to the unit is lost: in the buffer, or answered.   *)
THEOREM NothingIsLost == Spec => []NothingLost
  BY InitTypeOK, NextTypeOK, InitCalmly, NextCalmly, CalmlyProves, PTL DEF Spec
=============================================================================
