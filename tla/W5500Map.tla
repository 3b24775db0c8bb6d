------------------------------- MODULE W5500Map -------------------------------
(***************************************************************************)
(* The address map of the W5500 as w5500.h gives it: where the registers   *)
(* are, how many bytes their access functions read or write, how block and *)
(* offset make the three bytes that open a transfer, and the codes of      *)
(* states and results that share one return value.  Constants only.        *)
(***************************************************************************)
EXTENDS Integers

(* Offsets in the block of the common registers.                           *)
AddressOffset ==
  [MR |-> \h0, GAR |-> \h1, SUBR |-> \h5, SHAR |-> \h9, SIPR |-> \hF]
InterruptOffset ==
  [INTLEVEL |-> \h13, IR |-> \h15, IMR |-> \h16, SIR |-> \h17, SIMR |-> \h18,
   RTR |-> \h19, RCR |-> \h1B]
LinkOffset ==
  [PTIMER |-> \h1C, PMAGIC |-> \h1D, PHAR |-> \h1E, PSID |-> \h24,
   PMRU |-> \h26, UIPR |-> \h28, UPORTR |-> \h2C, PHYCFGR |-> \h2E,
   VERSIONR |-> \h39]

(* Offsets in the block of each socket.                                    *)
WrongControlOffset ==      \* the port of the peer where its address is
  [MR |-> \h0, CR |-> \h1, IR |-> \h2, SR |-> \h3, PORT |-> \h4,
   DHAR |-> \h6, DIPR |-> \hC, DPORT |-> \hE, MSSR |-> \h12, TOS |-> \h15,
   TTL |-> \h16, RXBUF_SIZE |-> \h1E, TXBUF_SIZE |-> \h1F]
ControlOffset ==
  [MR |-> \h0, CR |-> \h1, IR |-> \h2, SR |-> \h3, PORT |-> \h4,
   DHAR |-> \h6, DIPR |-> \hC, DPORT |-> \h10, MSSR |-> \h12, TOS |-> \h15,
   TTL |-> \h16, RXBUF_SIZE |-> \h1E, TXBUF_SIZE |-> \h1F]
PointerOffset ==
  [TX_FSR |-> \h20, TX_RD |-> \h22, TX_WR |-> \h24, RX_RSR |-> \h26,
   RX_RD |-> \h28, RX_WR |-> \h2A, IMR |-> \h2C, FRAG |-> \h2D,
   KPALVTR |-> \h2F]

(* How many bytes their access functions transfer.                         *)
AddressWidth == [MR |-> 1, GAR |-> 4, SUBR |-> 4, SHAR |-> 6, SIPR |-> 4]
InterruptWidth ==
  [INTLEVEL |-> 2, IR |-> 1, IMR |-> 1, SIR |-> 1, SIMR |-> 1, RTR |-> 2,
   RCR |-> 1]
LinkWidth ==
  [PTIMER |-> 1, PMAGIC |-> 1, PHAR |-> 6, PSID |-> 2, PMRU |-> 2,
   UIPR |-> 4, UPORTR |-> 2, PHYCFGR |-> 1, VERSIONR |-> 1]
ControlWidth ==
  [MR |-> 1, CR |-> 1, IR |-> 1, IMR |-> 1, SR |-> 1, PORT |-> 2,
   DHAR |-> 6, DIPR |-> 4]
PeerWidth ==
  [DPORT |-> 2, MSSR |-> 2, TOS |-> 1, TTL |-> 1, RXBUF_SIZE |-> 1,
   TXBUF_SIZE |-> 1]
PointerWidth ==
  [TX_FSR |-> 2, TX_RD |-> 2, TX_WR |-> 2, RX_RSR |-> 2, RX_RD |-> 2,
   RX_WR |-> 2, FRAG |-> 2, KPALVTR |-> 1]

(* The tables in one; a register has its row in one of them only.          *)
Over(f, g) ==
  [r \in (DOMAIN f) \cup (DOMAIN g) |-> IF r \in DOMAIN f THEN f[r] ELSE g[r]]

CommonOffset == Over(AddressOffset, Over(InterruptOffset, LinkOffset))
CommonWidth == Over(AddressWidth, Over(InterruptWidth, LinkWidth))
SocketOffset == Over(ControlOffset, PointerOffset)
SocketWidth == Over(ControlWidth, Over(PeerWidth, PointerWidth))

-----------------------------------------------------------------------------
(* The address of a byte selects block and offset, and leaves three bits   *)
(* for the direction and the length mode; WIZCHIP_READ and _WRITE send it  *)
(* highest byte first.                                                     *)
CREG == 0
SREG(n) == 1 + 4*n
TXBUF(n) == 2 + 4*n
RXBUF(n) == 3 + 4*n

AddrSel(block, offset) == offset * 256 + block * 8
OffsetInc(addr, n) == addr + n * 256
Opening(addr, write) ==
  LET a == addr + IF write THEN 4 ELSE 0
  IN  <<(a \div 65536) % 256, (a \div 256) % 256, a % 256>>

(* What the chip makes of them.                                            *)
Selected(bytes) == <<bytes[3] \div 8, bytes[1] * 256 + bytes[2]>>

Sn == 0..7
CommonByte == {b \in (DOMAIN CommonOffset) \X (0..5) : b[2] < CommonWidth[b[1]]}
SocketByte == {b \in (DOMAIN SocketOffset) \X (0..5) : b[2] < SocketWidth[b[1]]}

CommonPlace(b, write) ==
  Selected(Opening(OffsetInc(AddrSel(CREG, CommonOffset[b[1]]), b[2]), write))
SocketPlace(n, b, write) ==
  Selected(Opening(OffsetInc(AddrSel(SREG(n), SocketOffset[b[1]]), b[2]), write))

BufferBlocks == {TXBUF(n) : n \in Sn} \cup {RXBUF(n) : n \in Sn}

(* No byte of a register, of a socket or common to all, shares its place   *)
(* with another or lies in a buffer; and a transfer from a buffer, or into *)
(* one, begins where the 16-bit pointer says.                              *)
UINT16_MAX == 65535

CommonApart(write) ==
  \A b, c \in CommonByte : b # c => CommonPlace(b, write) # CommonPlace(c, write)
SocketsApart(write) ==
  \A nb, mc \in Sn \X SocketByte :
    nb # mc => SocketPlace(nb[1], nb[2], write) # SocketPlace(mc[1], mc[2], write)
BlocksApart(write) ==
  /\ \A b \in CommonByte, n \in Sn, c \in SocketByte :
       CommonPlace(b, write) # SocketPlace(n, c, write)
  /\ \A b \in CommonByte : CommonPlace(b, write)[1] \notin BufferBlocks
  /\ \A n \in Sn, b \in SocketByte : SocketPlace(n, b, write)[1] \notin BufferBlocks
BuffersReached(write) ==
  \A block \in BufferBlocks, ptr \in 0..UINT16_MAX :
    Selected(Opening(AddrSel(block, ptr), write)) = <<block, ptr>>

AllApart ==
  \A write \in BOOLEAN :
    CommonApart(write) /\ SocketsApart(write) /\ BlocksApart(write) /\ BuffersReached(write)

-----------------------------------------------------------------------------
(* tcp_server and tcp_client return the state SOCK_ESTABLISHED or whatever *)
(* the library returned, in one integer.                                   *)
State ==
  [CLOSED |-> \h0, INIT |-> \h13, LISTEN |-> \h14, SYNSENT |-> \h15,
   SYNRECV |-> \h16, ESTABLISHED |-> \h17, FIN_WAIT |-> \h18,
   CLOSING |-> \h1A, TIME_WAIT |-> \h1B, CLOSE_WAIT |-> \h1C,
   LAST_ACK |-> \h1D, UDP |-> \h22, IPRAW |-> \h32, MACRAW |-> \h42]
Result ==
  [OK |-> 1, BUSY |-> 0, SOCKNUM |-> -1, SOCKOPT |-> -2, SOCKINIT |-> -3,
   SOCKCLOSED |-> -4, SOCKMODE |-> -5, SOCKFLAG |-> -6, SOCKSTATUS |-> -7,
   ARG |-> -10, PORTZERO |-> -11, IPINVALID |-> -12, TIMEOUT |-> -13,
   DATALEN |-> -14, BUFFER |-> -15]
=============================================================================
