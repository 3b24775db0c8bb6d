--------------------------------- MODULE Frame --------------------------------
(***************************************************************************)
(* The frames of the Modbus RTU master byte by byte: what it sends for     *)
(* each slot of the polling table (sensor.c), the CRC, and what            *)
(* receiveModbusResponse (rs485.c) makes of the bytes that follow.         *)
(* Operators only; Rs485 has the times, and takes from here what the       *)
(* receiver may do with a frame that is not the one it waits for.          *)
(***************************************************************************)
EXTENDS Integers, Sequences

CONSTANT Sample    \* bytes that registers and noise are made of

ASSUME SampleAssumption == Sample \subseteq 0..255

VICONOX_ADDRESS == 1
AIRFLOW_ADDRESS == 2
FCODE_READ_INPUT_REGISTER == 4

(* What the slots of RTU_fx read: sensor, first register and how many.     *)
AirflowReads ==
  <<[at |-> 5, reg |-> 10500, words |-> 2], [at |-> 8, reg |-> 10502, words |-> 2],
    [at |-> 9, reg |-> 10504, words |-> 2], [at |-> 10, reg |-> 10506, words |-> 2],
    [at |-> 11, reg |-> 10508, words |-> 2], [at |-> 14, reg |-> 10590, words |-> 1],
    [at |-> 15, reg |-> 10591, words |-> 1]>>
ViconoxReads ==
  <<[at |-> 0, reg |-> 10500, words |-> 2], [at |-> 1, reg |-> 10502, words |-> 2],
    [at |-> 2, reg |-> 10508, words |-> 2], [at |-> 3, reg |-> 10510, words |-> 2],
    [at |-> 4, reg |-> 10512, words |-> 2], [at |-> 6, reg |-> 10504, words |-> 2],
    [at |-> 7, reg |-> 10506, words |-> 2], [at |-> 12, reg |-> 10590, words |-> 1],
    [at |-> 13, reg |-> 10591, words |-> 1]>>

(* Versions and serial number, the same registers in both sensors; the     *)
(* commands UV2, US2 and UCV2 read those of AIRFLOW.                       *)
AirflowUnit ==
  {[reg |-> 10000, words |-> 13], [reg |-> 10013, words |-> 6], [reg |-> 10019, words |-> 13]}
ViconoxUnit == AirflowUnit

-----------------------------------------------------------------------------
(* calculateCRC16                                                          *)
Ones == 65535
Poly == 40961      \* 0xA001

Xor[p \in Nat \X Nat] ==
  IF p[1] = 0 THEN p[2]
  ELSE 2 * Xor[<<p[1] \div 2, p[2] \div 2>>] + ((p[1] + p[2]) % 2)

Shifted(crc) == IF crc % 2 = 1 THEN Xor[<<crc \div 2, Poly>>] ELSE crc \div 2
CrcByte(crc, byte) ==
  LET after[j \in 0..8] == IF j = 0 THEN Xor[<<crc, byte>>] ELSE Shifted(after[j - 1])
  IN  after[8]
Crc16(bytes) ==
  LET after[i \in 0..Len(bytes)] ==
        IF i = 0 THEN Ones ELSE CrcByte(after[i - 1], bytes[i])
  IN  after[Len(bytes)]

(* The CRC goes out, and is expected, with its low byte first.             *)
Sealed(bytes) ==
  bytes \o LET crc == Crc16(bytes) IN <<crc % 256, crc \div 256>>

ReadFrame(addr, fcode, reg, words) ==
  Sealed(<<addr, fcode, reg \div 256, reg % 256, words \div 256, words % 256>>)
RequestFrame(addr, read) ==
  ReadFrame(addr, FCODE_READ_INPUT_REGISTER, read.reg, read.words)

(* What a sensor makes of a request: the content of its registers.         *)
ResponseFrame(asked, data) ==
  Sealed(<<asked[1], asked[2], Len(data)>> \o data)

-----------------------------------------------------------------------------
(* receiveModbusResponse.  "state" is whether and how the loop has ended.  *)
Listening(addr, fcode) ==
  [slave_addr |-> addr, function_code |-> fcode, buffer |-> <<>>,
   frame_started |-> FALSE, expected_length |-> 0, state |-> "receiving"]

(* The address, once found, is kept until the function code comes; when    *)
(* both are the same, one byte counts as both.                             *)
Search(r, byte) ==
  LET one == IF r.buffer = <<>> /\ byte = r.slave_addr THEN <<byte>> ELSE r.buffer
      hit == Len(one) = 1 /\ byte = r.function_code
  IN  [r EXCEPT !.buffer = IF hit THEN Append(one, byte) ELSE one,
                !.frame_started = hit]

WrongAtEnd(r) == Len(r.buffer) = r.expected_length      \* one byte too late
AtEnd(r) == Len(r.buffer) = r.expected_length - 1

(* The third byte tells the length, in eight bits; at the last byte the    *)
(* CRC is compared.                                                        *)
Take(r, byte) ==
  LET n == Len(r.buffer)
      buffer == Append(r.buffer, byte)
      received == byte * 256 + r.buffer[n]
  IN  IF n = 2
      THEN [r EXCEPT !.buffer = buffer, !.expected_length = (byte + 5) % 256]
      ELSE [r EXCEPT
              !.buffer = buffer,
              !.state = IF ~AtEnd(r) THEN @
                        ELSE IF received = Crc16(SubSeq(r.buffer, 1, n - 1))
                        THEN "completed" ELSE "crc"]

ReceiveByte(r, byte) ==
  IF r.state # "receiving" THEN r
  ELSE IF r.frame_started THEN Take(r, byte) ELSE Search(r, byte)

ReceiveModbusResponse(addr, fcode, bytes) ==
  LET after[i \in 0..Len(bytes)] ==
        IF i = 0 THEN Listening(addr, fcode) ELSE ReceiveByte(after[i - 1], bytes[i])
  IN  after[Len(bytes)]

Data(r) == SubSeq(r.buffer, 4, 3 + r.buffer[3])

-----------------------------------------------------------------------------
(* Requirements, over lines made of these pieces.                          *)

Reads ==
  {<<VICONOX_ADDRESS, ViconoxReads[i]>> : i \in DOMAIN ViconoxReads} \cup
  {<<AIRFLOW_ADDRESS, AirflowReads[i]>> : i \in DOMAIN AirflowReads}
UnitReads == ({VICONOX_ADDRESS} \X ViconoxUnit) \cup ({AIRFLOW_ADDRESS} \X AirflowUnit)
Words(n) == [1..2*n -> Sample]
Answers(ar) == {ResponseFrame(RequestFrame(ar[1], ar[2]), d) : d \in Words(ar[2].words)}
Received(ar, bytes) ==
  ReceiveModbusResponse(ar[1], FCODE_READ_INPUT_REGISTER, bytes)

Flip(byte, bit) == Xor[<<byte, 2^bit>>]
Damaged(frame) ==      \* one or two bits are wrong
  LET bits == (DOMAIN frame) \X (0..7)
      Once(f, b) == [f EXCEPT ![b[1]] = Flip(@, b[2])]
  IN  {IF b = c THEN Once(frame, b) ELSE Once(Once(frame, b), c) : b, c \in bits}

(* Every slot has an index and registers of its own, and so have version   *)
(* and serial number.                                                      *)
SlotsApart ==
  /\ \A x, y \in Reads : x # y => x[2].at # y[2].at
  /\ \A x, y \in Reads \cup UnitReads :
       x # y /\ x[1] = y[1] =>
         \/ x[2].reg + x[2].words <= y[2].reg
         \/ y[2].reg + y[2].words <= x[2].reg

(* An answer is completed by its last byte, with the data the sensor sent. *)
Completed ==
  \A ar \in Reads : \A d \in Words(ar[2].words) :
    LET frame == ResponseFrame(RequestFrame(ar[1], ar[2]), d)
        r == Received(ar, frame)
    IN  /\ r.state = "completed" /\ Data(r) = d
        /\ Received(ar, SubSeq(frame, 1, Len(frame) - 1)).state = "receiving"

(* The bypass may ask for up to 125 registers: their length is just held.  *)
Longest ==
  LET r == ReceiveModbusResponse(VICONOX_ADDRESS, FCODE_READ_INPUT_REGISTER,
                                 <<VICONOX_ADDRESS, FCODE_READ_INPUT_REGISTER>>)
  IN  \A n \in 0..250 : ReceiveByte(r, n).expected_length = n + 5

(* A longer one wraps its eight bits, and is not taken for a short answer, *)
(* whatever the next byte is.                                              *)
TooLong ==
  \A a \in {VICONOX_ADDRESS, AIRFLOW_ADDRESS}, n \in 251..255, byte \in 0..255 :
    ReceiveModbusResponse(a, FCODE_READ_INPUT_REGISTER,
      <<a, FCODE_READ_INPUT_REGISTER, n, byte>>).state # "completed"

Short == {ar \in Reads : ar[2].words = 1}

(* After what another sensor sends, or noise, it is completed too, unless  *)
(* the address has been seen there; and then it is not mistaken.           *)
Before(ar) ==
  UNION {[1..n -> Sample] : n \in 0..2} \cup UNION {Answers(o) : o \in {o \in Short : o[1] # ar[1]}}
PassesOver ==
  \A ar \in Short : \A d \in Words(1), noise \in Before(ar) :
    LET r == Received(ar, noise \o ResponseFrame(RequestFrame(ar[1], ar[2]), d))
    IN  /\ ar[1] \notin {noise[i] : i \in DOMAIN noise} => r.state = "completed"
        /\ r.state = "completed" => Data(r) = d

(* How the receiver may be left by one frame, of the sensor it asked or of *)
(* another, in order or damaged.                                           *)
Verdict ==
  [mine, good \in BOOLEAN |->
     UNION {LET asked == IF mine THEN ar ELSE <<3 - ar[1], ar[2]>>
            IN  {Received(asked, f).state :
                   f \in IF good THEN Answers(ar) ELSE UNION {Damaged(a) : a \in Answers(ar)}}
            : ar \in Short}]

FramesAgree == SlotsApart /\ Completed /\ Longest /\ TooLong /\ PassesOver
=============================================================================
