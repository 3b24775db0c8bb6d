--------------------------------- MODULE W5500 --------------------------------
(***************************************************************************)
(* How bytes of a connection get through the W5500 (w5500.c, socket.c):    *)
(* recv and send of the library, register by register, while the chip goes *)
(* on receiving and sending.                                               *)
(*                                                                         *)
(* The chip has a buffer of Size bytes for each direction and 16-bit       *)
(* pointers that run through all of Word and count modulo Size in the      *)
(* buffer.  The host sees how much has arrived and how much is free in     *)
(* registers of two bytes that it must read one byte at a time, so a size  *)
(* may change in the middle of being read.  Here a byte has Base values,   *)
(* and the content of a byte is its place in the stream.                   *)
(***************************************************************************)
EXTENDS W5500Map, Sequences

CONSTANTS
  Base,      \* values of a byte
  Size,      \* Sn_RXBUF_SIZE and Sn_TXBUF_SIZE: bytes of each buffer
  Segment,   \* sizes of the segments a peer sends, each a whole request
  Message,   \* sizes of the messages the program sends
  First      \* where the pointers may be when a connection starts

Word == Base * Base

ASSUME BufferAssumption ==
  /\ {Base, Size} \subseteq Nat \ {0}
  /\ Size < Word /\ Word % Size = 0
  /\ Segment \subseteq 1..Size /\ Message \subseteq 1..Size
  /\ First \subseteq 0..Word-1

VARIABLES
  sr,        \* Sn_SR
  rx,        \* the receive buffer: memory mem, end of what has arrived wr,
             \* register Sn_RX_RD rd, and freed, its value at the last RECV
  tx,        \* the transmit buffer: memory mem, register Sn_TX_WR wr, sent,
             \* its value at the last SEND, and acked, Sn_TX_RD
  ends,      \* where segments end that have not been read
  sendOk,    \* Sn_IR_SENDOK
  sending,   \* sock_is_sending
  app,       \* the place in its stream of the next byte the program sends
  func,      \* the library function the main loop is in, or "idle"
  part,      \* bytes of the size register read so far
  val1, val, \* as in getSn_TX_FSR and getSn_RX_RSR
  len,       \* how much recv or send is to copy
  buf        \* what recv has copied

chipVars == <<sr, rx, tx, ends, sendOk>>
hostVars == <<sending, app, func, part, val1, val, len, buf>>
streamVars == <<chipVars, hostVars>>

Places == 0..Word-1
Sizing == {"look", "recv", "drain", "send"}    \* a size is being read

StreamTypeOK ==
  /\ sr \in {"ESTABLISHED", "CLOSE_WAIT", "CLOSED"}
  /\ rx \in [mem : [0..Size-1 -> Places], wr : Places, rd : Places, freed : Places]
  /\ tx \in [mem : [0..Size-1 -> Places], wr : Places, sent : Places, acked : Places]
  /\ ends \subseteq Places
  /\ sendOk \in BOOLEAN /\ sending \in BOOLEAN
  /\ app \in Places
  /\ func \in {"idle", "status", "copy", "RECV", "space", "fill", "SEND"} \cup Sizing
  /\ part \in 0..4
  /\ val1 \in Places /\ val \in Places
  /\ len \in 0..Size
  /\ Len(buf) <= Size

-----------------------------------------------------------------------------
(* Pointers and memory.  Definitions named "Wrong..." are variants with one *)
(* mistake each; the properties are seen to fail when one of them replaces *)
(* the definition that follows it.                                         *)

WrongAhead(p, n) == p + n                     \* the pointer is wider
Ahead(p, n) == (p + n) % Word                 \* ptr += len, in 16 bits
Distance(from, to) == (to + Word - from) % Word

Received == Distance(rx.freed, rx.wr)         \* Sn_RX_RSR
Free == Size - Distance(tx.acked, tx.sent)    \* Sn_TX_FSR

(* n bytes from address ptr on; the chip wraps at the end of the buffer.   *)
Load(mem, ptr, n) == [i \in 1..n |-> mem[(ptr + i - 1) % Size]]
Store(mem, ptr, n, first) ==
  [a \in 0..Size-1 |->
     LET i == (a + Size - (ptr % Size)) % Size IN
     IF i < n THEN Ahead(first, i) ELSE mem[a]]

StreamInit ==
  /\ sr = "CLOSED"
  /\ rx = [mem |-> [a \in 0..Size-1 |-> 0], wr |-> 0, rd |-> 0, freed |-> 0]
  /\ tx = [mem |-> [a \in 0..Size-1 |-> 0], wr |-> 0, sent |-> 0, acked |-> 0]
  /\ ends = {} /\ sendOk = FALSE /\ sending = FALSE /\ app = 0
  /\ func = "idle" /\ part = 0 /\ val1 = 0 /\ val = 0 /\ len = 0 /\ buf = <<>>

-----------------------------------------------------------------------------
(* getSn_RX_RSR and getSn_TX_FSR: high byte and low byte into val1, again  *)
(* into val unless val1 is zero, until both agree.                         *)
Register(call) == IF call \in {"look", "recv"} THEN Received ELSE Free
ByteRead(call) ==
  IF part \in {0, 2} THEN Register(call) \div Base ELSE Register(call) % Base

Begin(call) == func' = call /\ part' = 0 /\ val1' = 0 /\ val' = 0

SizeByte ==
  /\ func \in Sizing /\ part < 4
  /\ IF part < 2
       THEN /\ val1' = (IF part = 0 THEN 0 ELSE val1 * Base) + ByteRead(func)
            /\ part' = IF part = 1 /\ val1' = 0 THEN 4 ELSE part + 1
            /\ UNCHANGED val
       ELSE /\ val' = (IF part = 2 THEN 0 ELSE val * Base) + ByteRead(func)
            /\ part' = part + 1
            /\ UNCHANGED val1
  /\ UNCHANGED <<chipVars, sending, app, func, len, buf>>

WrongAgree == TRUE                  \* one reading is enough
Agree == val = val1
WrongRestart == 2                   \* only val is read again
Restart == 0
SizeAgain ==
  /\ func \in Sizing /\ part = 4 /\ ~Agree
  /\ part' = Restart
  /\ UNCHANGED <<chipVars, sending, app, func, val1, val, len, buf>>

SizeRead(call) == func = call /\ part = 4 /\ Agree

(* The end of a call: its local variables are gone.                        *)
Leave == Begin("idle") /\ len' = 0 /\ buf' = <<>>

(* close                                                                   *)
CloseSocket == sr' = "CLOSED" /\ ends' = {} /\ sendOk' = FALSE /\ sending' = FALSE

-----------------------------------------------------------------------------
(* Receiving: rcvfromServer and recv.                                      *)

(* There may be something to read: SOCK_ESTABLISHED only.                  *)
Look ==
  /\ func = "idle" /\ sr = "ESTABLISHED"
  /\ Begin("look")
  /\ UNCHANGED <<chipVars, sending, app, len, buf>>
Looked ==
  /\ SizeRead("look")
  /\ IF val = 0 THEN Leave ELSE Begin("recv") /\ len' = val /\ UNCHANGED buf
  /\ UNCHANGED <<chipVars, sending, app>>

(* recv asks for the size again, and for the state after it.               *)
RecvSized ==
  /\ SizeRead("recv")
  /\ func' = "status"
  /\ UNCHANGED <<chipVars, sending, app, part, val1, val, len, buf>>
RecvStatus ==
  /\ func = "status"
  /\ \/ /\ sr # "CLOSED" /\ val # 0
        /\ func' = "copy" /\ len' = (IF val < len THEN val ELSE len)
        /\ UNCHANGED <<chipVars, sending, part, val1, val, buf>>
     \/ /\ sr # "CLOSED" /\ val = 0
        /\ Begin(IF sr = "ESTABLISHED" THEN "recv" ELSE "drain")
        /\ UNCHANGED <<chipVars, sending, len, buf>>
     \/ /\ sr = "CLOSED"
        /\ CloseSocket /\ Leave
        /\ UNCHANGED <<rx, tx>>
  /\ UNCHANGED app

(* The peer has closed and nothing is there: give up when all is sent.     *)
Drained ==
  /\ SizeRead("drain")
  /\ IF val = Size
       THEN CloseSocket /\ Leave /\ UNCHANGED <<rx, tx>>
       ELSE Begin("recv") /\ UNCHANGED <<chipVars, sending, len, buf>>
  /\ UNCHANGED app

(* wiz_recv_data                                                           *)
RecvData ==
  /\ func = "copy"
  /\ buf' = Load(rx.mem, rx.rd, len)
  /\ rx' = [rx EXCEPT !.rd = Ahead(@, len)]
  /\ func' = "RECV"
  /\ UNCHANGED <<sr, tx, ends, sendOk, sending, app, part, val1, val, len>>

(* The command RECV frees what has been read.                              *)
WrongFreed == rx.wr                 \* all that has arrived
Freed == rx.rd
RecvCommand ==
  /\ func = "RECV"
  /\ rx' = [rx EXCEPT !.freed = Freed]
  /\ ends' = {e \in ends : Distance(rx.freed, e) > Distance(rx.freed, rx'.freed)}
  /\ Leave
  /\ UNCHANGED <<sr, tx, sendOk, sending, app>>

-----------------------------------------------------------------------------
(* Sending: sendtoServer and send.                                         *)

(* Nothing is sent before the last message is acknowledged.                *)
Send(n) ==
  /\ func = "idle" /\ sr = "ESTABLISHED"
  /\ sending => sendOk
  /\ sending' = FALSE /\ sendOk' = FALSE
  /\ len' = n /\ Begin("send")
  /\ UNCHANGED <<sr, rx, tx, ends, app, buf>>
SendSized ==
  /\ SizeRead("send")
  /\ func' = "space"
  /\ UNCHANGED <<chipVars, sending, app, part, val1, val, len, buf>>
SendStatus ==
  /\ func = "space"
  /\ IF sr = "CLOSED" THEN CloseSocket /\ Leave /\ UNCHANGED <<rx, tx>>
     ELSE /\ IF len <= val THEN func' = "fill" /\ UNCHANGED <<part, val1, val>>
                           ELSE Begin("send")
          /\ UNCHANGED <<chipVars, sending, len, buf>>
  /\ UNCHANGED app

(* wiz_send_data                                                           *)
Written == Ahead(tx.wr, len)
SendData ==
  /\ func = "fill"
  /\ tx' = [tx EXCEPT !.mem = Store(tx.mem, tx.wr, len, app), !.wr = Written]
  /\ func' = "SEND"
  /\ UNCHANGED <<sr, rx, ends, sendOk, sending, app, part, val1, val, len, buf>>

(* The command SEND passes it to the chip.                                 *)
SendCommand ==
  /\ func = "SEND"
  /\ tx' = [tx EXCEPT !.sent = tx.wr]
  /\ app' = Ahead(app, len)
  /\ sending' = TRUE
  /\ Leave
  /\ UNCHANGED <<sr, rx, ends, sendOk>>

(* disconnect: what has not been read is never read.                       *)
Disconnect ==
  /\ func = "idle" /\ sr = "CLOSE_WAIT"
  /\ CloseSocket
  /\ UNCHANGED <<rx, tx, app, func, part, val1, val, len, buf>>

(* Opening the socket again until a peer is there: the subject of Sockets. *)
Connect ==
  /\ func = "idle" /\ sr = "CLOSED"
  /\ sr' = "ESTABLISHED" /\ ends' = {} /\ sendOk' = FALSE /\ sending' = FALSE
  /\ \E p \in First : rx' = [rx EXCEPT !.wr = p, !.rd = p, !.freed = p]
  /\ \E p \in First :
       /\ tx' = [tx EXCEPT !.wr = p, !.sent = p, !.acked = p]
       /\ app' = p
  /\ UNCHANGED <<func, part, val1, val, len, buf>>

Call ==
  \/ SizeByte \/ SizeAgain
  \/ Looked \/ RecvSized \/ RecvStatus \/ Drained \/ RecvData \/ RecvCommand
  \/ SendSized \/ SendStatus \/ SendData \/ SendCommand
Host == Call \/ Look \/ Disconnect \/ Connect \/ \E n \in Message : Send(n)

-----------------------------------------------------------------------------
(* The chip and the peer.                                                  *)

(* A segment is taken whole, and only if there is room.                    *)
Arrive(n) ==
  /\ sr = "ESTABLISHED" /\ n <= Size - Received
  /\ rx' = [rx EXCEPT !.mem = Store(rx.mem, rx.wr, n, rx.wr), !.wr = Ahead(@, n)]
  /\ ends' = ends \cup {Ahead(rx.wr, n)}
  /\ UNCHANGED <<sr, tx, sendOk, hostVars>>

(* The peer acknowledges n bytes; when all are, the message is sent.       *)
Acknowledge(n) ==
  /\ sr # "CLOSED" /\ n <= Distance(tx.acked, tx.sent)
  /\ tx' = [tx EXCEPT !.acked = Ahead(@, n)]
  /\ sendOk' = (tx'.acked = tx.sent)
  /\ UNCHANGED <<sr, rx, ends, hostVars>>

PeerCloses ==
  /\ sr = "ESTABLISHED" /\ sr' = "CLOSE_WAIT"
  /\ UNCHANGED <<rx, tx, ends, sendOk, hostVars>>

(* A reset, or no answer for too long.                                     *)
ConnectionLost ==
  /\ sr # "CLOSED" /\ sr' = "CLOSED"
  /\ UNCHANGED <<rx, tx, ends, sendOk, hostVars>>

Chip ==
  \/ PeerCloses \/ ConnectionLost
  \/ \E n \in Segment : Arrive(n)
  \/ \E n \in 1..Size : Acknowledge(n)

StreamNext == Host \/ Chip

(* A library call goes on.  Nothing is assumed of the peer.                *)
StreamSpec == StreamInit /\ [][StreamNext]_streamVars /\ WF_streamVars(Call)

-----------------------------------------------------------------------------
(* Requirements.                                                           *)

(* The bytes a connection carries to the program, and from it, are those   *)
(* that were sent, in order, each once, through wrapping pointers and      *)
(* while the chip writes next to what is being read.                       *)
Up == sr # "CLOSED"
In == INSTANCE Channel WITH
  Capacity <- Size,
  open <- Up,
  queue <- IF Up THEN Load(rx.mem, rx.freed, Received) ELSE <<>>,
  chunk <- IF Up /\ func = "RECV" THEN buf ELSE <<>>,
  put <- IF Up THEN rx.wr ELSE 0
Out == INSTANCE Channel WITH
  Capacity <- Size,
  open <- Up,
  queue <- IF Up THEN Load(tx.mem, tx.acked, Distance(tx.acked, tx.sent)) ELSE <<>>,
  chunk <- <<>>,
  put <- IF Up THEN app ELSE 0
CarriesStreams == In!Spec /\ Out!Spec

(* receiveModbusTcp takes what one read returns for one request            *)
(* (app.c:967).  A read never ends inside a segment, although the size it  *)
(* goes by is read byte by byte while more arrives.                        *)
SegmentsWhole == [][rx'.freed # rx.freed /\ func = "RECV" => rx'.freed \in ends]_streamVars

(* Reading sizes that change ends, and with it every call of the library.  *)
CallsEnd == []<>(func = "idle")

(* No transfer opens at a register, or in a buffer, other than the one     *)
(* meant, for any register, any of its bytes, any socket and either        *)
(* direction; and no result of the library passes for SOCK_ESTABLISHED.    *)
Apart == AllApart
MapUnambiguous ==
  /\ Apart
  /\ sr = "ESTABLISHED" => State[sr] \notin {Result[r] : r \in DOMAIN Result}
=============================================================================
