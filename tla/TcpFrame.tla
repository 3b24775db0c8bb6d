------------------------------- MODULE TcpFrame -------------------------------
(***************************************************************************)
(* The frames of Modbus TCP byte by byte (modbusTCP.c, receiveModbusTcp in *)
(* app.c): a request on its way through the unit to a sensor and back, the *)
(* push of the client, and the map of the unit's own registers.            *)
(***************************************************************************)
EXTENDS Frame

High(n) == (n \div 256) % 256
Low(n) == n % 256

(* As the standard has it: the length counts what follows it.              *)
Enveloped(id, body) ==
  <<High(id), Low(id), 0, 0, High(Len(body)), Low(Len(body))>> \o body
MasterRequest(id, unit, fcode, read) ==
  Enveloped(id, <<unit, fcode, High(read.reg), Low(read.reg), High(read.words), Low(read.words)>>)
SensorResponse(id, unit, fcode, data) ==
  Enveloped(id, <<unit, fcode, Len(data)>> \o data)
WriteMultiple(id, unit, reg, data) ==
  Enveloped(id, <<unit, 16, High(reg), Low(reg), High(Len(data) \div 2), Low(Len(data) \div 2),
                  Len(data)>> \o data)

-----------------------------------------------------------------------------
(* receiveModbusTcp accepts what it has read; the header is not copied to  *)
(* byteBuffer.                                                             *)
Accepted(read) ==
  /\ Len(read) >= 7
  /\ read[3] * 256 + read[4] = 0
  /\ Len(read) = read[5] * 256 + read[6] + 6
ByteBuffer(read) == SubSeq(read, 7, Len(read))

(* frame[256] of both functions.  What is written behind its end, and what *)
(* is sent then, is undefined: nothing can be said of Overrun.             *)
FrameSize == 256
Overrun == CHOOSE sent : TRUE
Built(n, bytes) == IF n =< FrameSize THEN bytes ELSE Overrun

(* transmitModbus485toTcp shifts the length out of the byte it is for.     *)
Transmit485toTcp(id, addr, fcode, data) ==
  LET n == Len(data)
  IN  Built(9 + n,
        <<High(id), Low(id), 0, 0, Low((n + 3) * 256), Low(n + 3), addr, fcode, Low(n)>> \o data)

Transmit485toTcpWriteMultiple(id, addr, reg, data) ==
  LET n == Len(data)
  IN  Built(13 + n,
        <<High(id), Low(id), 0, 0, Low((n + 7) * 256), Low(n + 7), addr, 16,
          High(reg), Low(reg), Low((n \div 2) * 256), Low(n \div 2), Low(n)>> \o data)

(* What TcpReceiveAndReply asks a sensor for, and what it makes of the     *)
(* bytes on the line after that: no answer, or that of the sensor.         *)
BypassRequest(b) == ReadFrame(b[1], b[2], b[3] * 256 + b[4], b[5] * 256 + b[6])
BypassReply(id, b, bytes) ==
  LET r == ReceiveModbusResponse(b[1], b[2], bytes)
  IN  IF r.state = "completed"
        THEN Transmit485toTcp(id, r.buffer[1], r.buffer[2], Data(r)) ELSE <<>>

(* mergeVICONOXdata and mergeAIRFLOWdata: slot, first byte and width.      *)
ViconoxMap ==
  {<<0, 0, 4>>, <<1, 4, 4>>, <<6, 8, 4>>, <<7, 12, 4>>, <<2, 16, 4>>, <<3, 20, 4>>,
   <<4, 24, 4>>, <<12, 28, 2>>, <<13, 30, 2>>}
AirflowMap ==
  {<<5, 0, 4>>, <<8, 4, 4>>, <<9, 8, 4>>, <<10, 12, 4>>, <<11, 16, 4>>, <<14, 20, 2>>,
   <<15, 22, 2>>}

-----------------------------------------------------------------------------
(* Requirements.                                                           *)

(* A master that asks the unit for registers of a sensor gets what it      *)
(* would get from the sensor itself, under the number of its request: for  *)
(* the slots, and for versions and serial numbers, which are longer.       *)
Payload(n) == {[i \in 1..n |-> (s * i) % 256] : s \in Sample}
Ids == {0, 258, 65535}

BypassTransparent ==
  \A id \in Ids, ar \in Reads \cup UnitReads, fcode \in {3, 4} :
    LET asked == MasterRequest(id, ar[1], fcode, ar[2])
        b == ByteBuffer(asked)
    IN  /\ Accepted(asked)
        /\ \A n \in 1..Len(asked) - 1 : ~Accepted(SubSeq(asked, 1, n))
        /\ BypassRequest(b) = ReadFrame(ar[1], fcode, ar[2].reg, ar[2].words)
        /\ \A d \in Payload(2 * ar[2].words) :
             BypassReply(id, b, ResponseFrame(BypassRequest(b), d))
               = SensorResponse(id, ar[1], fcode, d)

(* The high bytes that the shifts leave zero are zero anyway, up to the    *)
(* longest answer the frame has room for, and in the push, which is a      *)
(* whole Write Multiple Registers of 80 bytes.                             *)
RoomForData == FrameSize - 9
LengthsHold ==
  /\ \A n \in 0..RoomForData : \A d \in Payload(n) :
       Transmit485toTcp(1, 2, 4, d) = SensorResponse(1, 2, 4, d)
  /\ \A d \in Payload(80), id \in Ids :
       Transmit485toTcpWriteMultiple(id, 1, 4096, d) = WriteMultiple(id, 1, 4096, d)

(* The map of the unit shows every slot once, as wide as it is read, and   *)
(* one behind the other without a gap.                                     *)
WholeMap(map, reads) ==
  /\ \A i \in DOMAIN reads : \E p \in map : p[1] = reads[i].at /\ p[3] = 2 * reads[i].words
  /\ \A p \in map :
       /\ \E i \in DOMAIN reads : p[1] = reads[i].at
       /\ \A q \in map \ {p} : p[1] # q[1]
       /\ p[2] = 0 \/ \E q \in map : p[2] = q[2] + q[3]
       /\ \A q \in map \ {p} : p[2] + p[3] <= q[2] \/ q[2] + q[3] <= p[2]

TcpFramesAgree ==
  /\ BypassTransparent /\ LengthsHold
  /\ WholeMap(ViconoxMap, ViconoxReads) /\ WholeMap(AirflowMap, AirflowReads)
=============================================================================
