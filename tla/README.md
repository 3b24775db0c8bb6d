# SIU-01: a TLA+ model of the firmware

The SIU-01 is a sensor interface unit: a Silicon Labs BGM22 that polls two
sensors over RS-485 (VICONOX and AIRFLOW, Modbus RTU), keeps a log of their
status events in a serial EEPROM, shows everything in a menu on a 16x2 LCD, and
offers the values to Modbus TCP masters through a W5500. It is set up with eight
buttons and with text commands over Bluetooth LE. There is no operating system:
a super-loop (`main.c`) runs the SDK's event processing and
`app_process_action`, and **timer callbacks run in the interrupt**. One of them,
every 20 ms, runs the whole menu: it edits the configuration, writes the EEPROM
and walks the event log in the middle of whatever the main loop is doing. Nothing
in the code is protected against that, so it is what most of this project is
about.

## Inventory

| Part | State | Operations | Talks to | What is hard | What makes it correct |
|---|---|---|---|---|---|
| Event log (`event_log.c`, `at24c256.c`) | counter and records in EEPROM, counter and one record in RAM | save, clear, load counter, load record, rebuild at start | called by main loop (events, ECLEAR, EVENT, EVIEW) and by the menu | two contexts, two-step writes of several ms, power loss, ignored I2C errors | a bounded durable sequence; nothing lost, doubled or damaged |
| Event viewer (`event_log.c`, page 301 of `menu.c`) | position, copy of a record, last button | up, down, turn, enter, leave | reads the log | position kept while the log changes; loops inside the interrupt | every event once a round and in order; every press ends |
| Polling, events, fault LED (`sensor.c`, `app.c`, `modbusTCP.c`) | slot, pause flag, guard flag, values, communication faults, masks, known status words | poll a slot, handle events, drive the LED | RS-485, event log, menu (settings), TCP guard | settings change during a transaction; events handled only during a pause | no slot starves; no event lost or doubled; the LED tells the truth in the end |
| Network configuration (`menu.c`, `app.c`, `wizchip_conf.c`) | five copies of it and a request flag | edit, ENTER, ESC, ten-minute return, Bluetooth commands, update of the chip | EEPROM, W5500 | two writers in two contexts, an update with a window | only what was confirmed is stored; it reaches the chip |
| RS-485 / Modbus RTU master (`rs485.c`) | timeout flag, timer, receive buffer | request, echo, frame receiver | sensors, polling, TCP bypass | late and damaged answers, timer restart, an echo without a timeout | an answer belongs to its request; a transaction whose echo comes ends |
| Modbus TCP server and client (`app.c`, `modbusTCP.c`, `w5500_tcp.c`) | three sockets, one receive buffer, transaction id | accept, receive, reply from the register map, bypass to RS-485, push | W5500, polling guard, RS-485 | one buffer for two masters, partial packets | a reply answers the request it belongs to |
| Menu navigation and passcode (`menu.c`) | stage, indices, page, mode, pass level, digits | eight buttons, ten-minute return | everything that is set | a page tree kept in three indices and rebuilt at each press | no setting without a passcode; what is shown is what is set |
| Clock (`isl1208.c`, `menu.c`) | RTC chip, `rtcTime`, edited date and time | read, set date, set time, ST command | event records | offsets by one between four representations | a setting stays whole, an edit is not overwritten, stamps are refreshed |
| Buttons and inputs (`hc165.c`) | state and history of each | poll every 20 ms | menu, LED, register map | several buttons at once | one press is one action |
| Bluetooth (`app.c`) | connection handle | commands, notifications | all of the above | retry without bound | out of scope beyond the commands |
| LCD (`lcd.c`, printing in `menu.c`) | what is printed, the cursor | print a page, a value, the time; move the cursor | menu in the interrupt, home page in the main loop | two contexts print; a cursor position, a table of digits and a format must fit | the operator sees the page and the digit the buttons change |
| W5500 library (`w5500.c`, `socket.c`) | pointers and buffers in the chip, flags of each socket | socket, listen, connect, recv, send, disconnect | the main loop, the chip | a chip that goes on between two bytes of a register; pointers that wrap | bytes in order, each once; calls end |

The SDK, generated files and build output are third-party or have no
state the program depends on; they are not modelled. Of the W5500 library the calls the
unit uses are.

## The modules

### EventLog (implements EventStore)

`EventLog` models `saveEventLogData`, `saveEventLogCounter`,
`loadEventLogCounter`, `clearAllEventLog` and, below them, `writeEEPROM`: a
transfer on the bus (`...Xfer`), whose bytes the chip takes at the stop
condition, and the 5 ms write cycle after it (`...Cycle`), during which the chip
answers nothing. `pc` is where the main loop is. The interrupt cannot be
preempted by the main loop, so each of its handlers is one action, enabled at
every `pc`. `aborted` says that the interrupt took the bus in the middle of a
transfer; the code ignores the error, and so does the model. `PowerLoss` is
enabled everywhere.

`disturbed` is a history variable: an interrupt hit a step of a save that is
not protected, and the counter has not been synchronised since. The code really
does lose or resurrect records then, so the promises are made for undisturbed
saves and resume at the next start, reload or clear. `CounterBounded` is promised
always.

`EventStore` is the abstract specification: a bounded sequence, a pending
request, and `trusted`, which suspends the promise. `ImplementsStore` maps the
log onto it; an append is durable with the counter's write, not with the
record's.

### EventView

The walks `onClick` and `onReverseClick` bit by bit (`WalkUp`, `WalkDown` are
one iteration of their loops), the button handling of page 301 with its double
call when the direction changes, and the main loop's appends and clears between
two presses. A record is the set of its bits that the log mask lets through: the
code tests bit and mask together. `EventSlots` has what log and viewer share, the number of slots;
the names with `View...` keep the two apart where one proof module has both. With an empty log the code may read record -1;
`Loaded` gives that read any value.

### Polling

One pass of the main loop: serve TCP (only its guard matters here), poll one
slot, then the event section of `app_process_action` while the pause runs. `pc`
says which comes next; `wait` is the RS-485 transaction, during which the menu
may turn sensors on and off, timers expire and the plant changes. `Polled`
chooses which of the sixteen slots of `RTU_fx` are in the table. A slot number is the
one of the code. Measured values are left out, status words are sets of bits.
`mUnitStatus` starts with any value because `initUnitStatus` takes it from the
log; `handed` holds the bits passed to `saveEventLogData`. `ApplyConfig` is the part of ENTER
that reaches here, `ToggleSensor` a button on a sensor page. `BitClearedWhenOff` keeps the code's `0x20`.

### NetConfig

`mNetworkConfig`, its backup, the EEPROM block, the working copy (`gWIZNETINFO`
and `gSERVERNETINFO`) and the chip's registers, with the setting menu in the
interrupt and the Bluetooth commands and `ethUpdate` in the main loop. Commands are
cut where the interrupt can see it: working copy, copy to `mNetworkConfig`,
write. `EthField` are the members that are copied together and configured in the chip,
`ServerField` those with a command and page of their own (port, remote IP). The
pages 125 and 126 (remote register, own address) do not request an update and
count as "other" pages here, as do sensors, modes, clock and passcode.
`want` remembers what was last confirmed per field, also while the power is off: a
confirmation that a power loss or a restart threw away would be seen by `MenuAlone`. The block is
shorter than a page of the EEPROM and is written as a whole or not at all.

### Rs485

One transaction of the Modbus RTU master at a time, for its three requesters: the
polling (`Poll`, then a pause), the bypass of TCP requests (`Bypass`, then the guard) and
the measuring commands of Bluetooth (`Command`, which look at neither and leave none).
`Send` empties the receive buffer and sends. The line echoes the request, and only when all of it
is there is the timeout started (`KickOff`) and the receiver runs; while bytes are `missing`
the main loop waits without a timeout (`flushrs485Buffer`), and takes whatever comes for
the echo: a whole answer (`EchoShort`), or the first bytes of one, of which the rest is left
(`EchoFilled`). `EchoLost` is the state in which the code hangs: bytes of the echo are
missing and nothing is on the line. `PollingGoesOn` excuses that state and no other.
With the echo complete (`Receiving`) the receiver skips
frames of others (`SkipFrame`), completes an answer (`Answer`), or gives up
(`CrcError`, `TimedOut`). An answer carries its sensor and its register, but the code
sees only the former: `Mine` compares address and function code, and `got` is the
register whose value the requester receives. The receiver may find address and function
code inside a frame of somebody else and take what follows, the real answer included, for
one: `astray`. `line` holds the answers still
to come, which survive the end of their transaction. `Tick` is the SDK's timer
interrupt; `StartTimer` leaves a running timer alone, as
`sl_sleeptimer_start_timer` does. A sensor answers within the timeout or never;
frames do not collide; sending itself takes no time; any slot may be polled next
(`Polling` has the order). `Patient` masters leave the guard time between requests: the code
cannot make them, so what is promised is promised to those.
Any answer may be damaged on its way; the history variable `clean` says that none has been
so far, none was taken for an echo, and no measuring command has come, and the promises about single answers are made as
long as it holds.

### Frame, TcpFrame, and Rs485Frames (Rs485 with both)

`Frame` is the byte level of `rs485.c`: the registers of the slots, the request
(`Sealed`), the CRC as the bitwise loop of `calculateCRC16`, and
`ReceiveModbusResponse` as a function that takes one byte after the other, with the search for
address and function code, the length in eight bits and the comparison with the CRC.
`TcpFrame` has the other side of the bypass: what `receiveModbusTcp` accepts, the
request that `TcpReceiveAndReply` makes of it, the answer and the push as `modbusTCP.c`
writes them (the high bytes of lengths are shifted out and always zero), and where
`mergeVICONOXdata` and `mergeAIRFLOWdata` put each slot. A master gets what the sensor
would have answered it (`BypassTransparent`), under the number of its request; the
lengths are right up to 247 bytes of data, which is the room the 256 bytes of `frame`
leave (`LengthsHold`; beyond it both functions write over the end of `frame`, and nothing is
said of `Overrun`, what they send then); and each half of the map shows every slot of its sensor
once, as wide as it is read. The answers of 124 and 125 registers, which a master may
ask for and the receiver takes, are longer than that: no theorem and no requirement of `TcpFrame`
speaks of them. `TooLong` is the wrap of the receiver's length, which has eight bits: a length
of 251 to 255 does not make a short answer of it and the byte that follows.
`Rs485Frames` composes them: `ReceiverAgrees` says that what `Rs485` takes
for an answer is exactly what the bytes complete, that noise and other sensors before it are passed over, that no damage of
one or two bits gets through, that no two slots read the same registers, and all that `TcpFrame` requires.

### Menu (implements Panel)

`menuProcess`, `setProcess` and `autoReturnToHome`, one call of the 20 ms timer
interrupt per step, with at most one button event (`Press`) or none (`Pause`). The
state is the record `m_menu` (stage, three indices, page, mode, cursor, passcode
level), the digits entered, the configured passcodes, which a Bluetooth command may
change at any time, and the two variables of the ten-minute return. `PageOf` is
`getMenu`, the table from position to page, `Show` its use with the side effect on
the locked settings. The values set on the pages are left to the modules that have
them; `cleared` says that a tick cleared the log. In the code `x` and the indices
are bytes, hence `None = 255` and limits of 256.

`Panel` is what the menu looks like to the clock: home page, page of the date, page
of the time and the rest, and whether a value is being changed. `ImplementsPanel`
shows that `Menu` implements it, and `Clock` takes its steps from `Panel`: the two
modules are checked apart and hold together.

### Display and Lcd (over Menu)

`Lcd` has the tables: where the format of each setting page puts its numbers, where the cursor
stands for each `x` and what a button adds there (`Pack`), how far a number goes (`Limit`),
and what `displayMeasuremet` prints with how many blanks after it (`Texts`). `Display` adds
to `Menu` what the LCD shows: `Tick` is a step of the menu with what it prints (`Screen`,
`Redraws`, with the page of an event left to the viewer: `KeepsEvent`) and where it leaves the cursor
(`Cursor`); `TimeDisplay` and `PrintTime` are the main loop printing the time on the home
page, between which a tick may open another page. The display takes whole bytes.

### Clock

The registers of the ISL1208 with its write enable bit WRTC, the copy
`mDateTimeConfig` that the main loop refreshes for the home page and the menu edits
in place, and three users of the chip: the main loop for the home page
(`TimeDisplay`, `TimeRead`), the Bluetooth command ST (`SetWrtc`, `WriteRegister` three
times, `ClearWrtc`, with the interrupt possible between any two) and the panel
(`ChangePage` reads, `Enter` sets). `Reading` lets a second pass before any transfer of
a reading, so that readings may be torn. `Shown` and `Unshown` are the conversions
between the chip's counting of days and months from one and the pages' from zero, in bytes; `SetTime`
leaves out the way back for the date, as `setTime` does. Hour, day and month stand
for all six registers. `by` is a history variable: who wrote each register last.

### Sockets

The states of the three sockets as the register `Sn_SR` shows them, and what
`tcp_server`, `tcp_client` and the library calls below them do in each. `todo` is
what is left of the current pass. `listen`, `connect` and `disconnect` have a step of their own
at their return, because chip, network and peers (`Network`) go on while they
run or wait. `sending`, `irSendOk` and `irTimeout` are the flags that decide whether a
message is sent, dropped or ends the connection. A peer is there, has vanished without a word, or there is
none. `ModeChanges` is the menu turning the client off and on.

### ModbusTcp

What the server makes of bytes: `Reads` is `receiveModbusTcp` on what a read
returns (a whole request, pieces of one, anything else), with the buffer
`byteBuffer` and the transaction number `tid` that both sockets share.
`receiveModbusTcp` has paths that end in a bare `return;` in a function that returns a
value; the build returns what is in the register, the result of the last call, and
the outcomes in `Reads` are those. `ReceiveAndReply` is `TcpReceiveAndReply` with the
register map (`Length`, `Filled`) or the way to a sensor; the transaction there is
that of `Rs485`, here it succeeds or fails (`SensorDone`). `DisconnectInRead` is a
connection that ends under `recv`. `StartGuard` sets flag and timer one after the
other, for the guard and for the client's pushes. `Calm` masters send whole requests and wait for the answer or
until none can come; the others send pieces and ask again at any time.

### W5500 (implements two of Channel) and W5500Map

`W5500` is one connection at the level of the chip's registers: `getSn_RX_RSR` and `getSn_TX_FSR`, which read
sixteen bits as two bytes, twice, until two readings agree (`SizeByte`, `SizeAgain`),
`recv`, `send` and `disconnect` step by step, the copies `wiz_recv_data` and
`wiz_send_data` with their wrapping pointers, and the commands RECV and SEND. The chip
and the peer (`Arrive`, `Acknowledge`, `PeerCloses`, `ConnectionLost`) go on between any two
of these steps. The content of a byte is its place in the stream. `Channel` is what one
direction promises, a bounded queue of bytes; `CarriesStreams` shows that the connection
implements two of them. Its specification is `StreamSpec`, since one proof module has it together
with `NetConfig`. `W5500Map` is the register map of `w5500.h`: offsets, widths of the
access functions, the three bytes that open a transfer, and the codes of states and results.

### Conventions

MC modules give constants and nothing else. Operators named `Wrong...` are
one-mistake variants of the definition after them; every property has been seen
to fail with one of them in place of its original.

## What the runs check

| Run | Bounds | Shows |
|---|---|---|
| `event_log` | 2 events, 3 slots | `CounterBounded`, `Agreement`, `CountedRecordsStay`, `ImplementsStore` |
| `polling` | slots 0, 5 and 14 (two sensors, one status word), 1 bit | `RoundRobin`, `FaultLit`, `FaultReleased`, `BitNoticed`, `NoEventTwice` |
| `polling_airflow_off` | slots 0 and 5 | `AirflowFaultReleased` is violated |
| `event_view` | all logs of up to 2 records of 3 bits | `ViewTypeOK`, `ShowsInOrder`, `PressEndsIfVisible` |
| `event_view_hang` | 2 records of 2 bits | `PressEnds` is violated |
| `net_config` | 1 field of each kind, 2 values | `MenuAlone`, `RequestReachesChip` |
| `rs485` | 2 sensors, 2 registers, 1 patient master, measuring commands, damaged answers; frames with bytes 1 and 4 as data | `AnswerBelongs`, `PollFaultReal`, `ReceiverAgrees`, `PollingGoesOn` |
| `display` | passcodes of 2 places of 3 digits, 3 possible codes, ten minutes of 14 ticks, measurements of 4 to 8 characters | `Gate`, `ShowsPosition`, `UnattendedLocks`, `ImplementsPanel`, `DigitUnderCursor`, `PageDisplayed` |
| `clock` | 2 hours, 2 days, 2 months, one command | `OneSetting`, `EditKept`, `StampsRefreshed` |
| `sockets` | 2 server sockets and the client, one vanished master | `FreshConnection`, `HealthyKept`, `MainLoopGoesOn`, `ConnectionsComeBack` |
| `w5500` | buffers of 8 bytes, pointers that wrap at 16, segments of 3 and 5 and messages of 4 bytes, two bytes a register of base 4 | `StreamTypeOK`, `CarriesStreams`, `SegmentsWhole`, `CallsEnd`, `MapUnambiguous` |
| `modbus_tcp` | 1 calm master, 1 of any kind, 2 transaction numbers, a request to the unit and one to a sensor | `OwnAnswer`, `NothingLost`, `FlagTimed`, `Served` |

Every type invariant is proved; `ViewTypeOK` and `StreamTypeOK` are checked as well. The constants of the real unit are within those of the proofs.

The bounds. Three slots make a log empty, partly filled, one short of full and
full; two events make a lost one, a doubled one and two in the wrong order
differ. Nothing in the scheduler compares slots other than by "next" and "is a communication
slot", so one slot of each role suffices, and two sensors for interference between
them. One bit suffices because bits are handled independently. Two records
of three bits have a first, a last and an inner bit and both kinds of border (next record and
wrap-around). In `Rs485` a tick is 33 ms: timeout, polling pause and guard
are 3, the pause after a failure 1 (`SENSOR_POLLING_TIME/5`, 20 ms), answers come after
1 or 2. Data and noise are made of the bytes that can mislead the receiver, an address and the
function code; the registers, requests and CRCs are those of the unit. The menu has its whole tree of pages; passcodes of two places have a cursor with
a first and a last place, digits of three values a way up and a way down that differ,
and ten minutes longer than the longest way through the tree let every page be reached before
they pass; the cursor's tables are those of the unit. In the small W5500 a size of up to three bytes
has one digit and a larger one two, a full buffer one that ends in zero, and both pointer and
buffer wrap. The clock carries between all its registers within eight seconds. Two
masters of different kinds are what the two server sockets can have at once; two transaction
numbers are what a master needs to tell its last request from the one before.

Three bounds exclude behaviour and not only size. `MaxVanished = 1`: with two
masters gone silently both server sockets are taken until the link goes down, and
`ConnectionsComeBack` fails (`w5500_tcp.c:48`: no keep-alive). `AbruptServer = FALSE`: a remote
server that closes what it has just accepted, before `connect` looks, leaves the
main loop waiting for ever (`socket.c:280`). In `Clock`, `InCalendar` stops setting the time
once `setTime` has written a day or month of zero, since the data sheet says nothing about the rest.

The violations are disagreements between the code and what it says of itself:

1. `sensor.c:329` clears bit `0x20` instead of `0x02`: a communication fault of
   the AIRFLOW outlives turning the sensor off.
2. A press in the viewer never ends on a log without a visible bit
   (`event_log.c:187`), inside the interrupt.
Other behaviour the models have, because the code has it, and which the properties
leave room for:

* Masters that do not leave the guard time between requests, and measuring commands, can be
  sent another register's value, or make others be sent one (`rs485.c:179`, `app.c:782`): the late
  answer of a transaction is taken by the next one to the same sensor.
* A frame of another sensor that contains address and function code sends the receiver astray
  until its timeout (`rs485.c:176`), and a slave whose address is the function code, 4, is never
  understood.
* Page 22 leaves the end of a longer value beside a shorter one (`menu.c:967`: no blanks after the unit).
* Overtaken by a button, the time of the home page is printed over the page that is there, and
  stays until that is printed again (`menu.c:214`): the pages next to the home page.
* RIGHT on page 31 shows the home page (`menu.c:695`).
* With the VI turned off its unit is printed beyond the sixteenth column (`menu.c:947`).
* What came with the end of a connection may be lost: `recv` reads the size before the state
  (`socket.c:410`).
* ENTER between the configuration of the chip and the clearing of the request
  is lost (`menu.c:552`).
* A Bluetooth command stores the unconfirmed digits of a page that is being
  edited (`app.c:611`).
* A transaction soon after another has only the rest of its predecessor's timeout
  (`rs485.c:10`): starting a running timer does nothing. After a wrong CRC the polling itself meets
  this, so `AnswerBelongs` and `PollFaultReal` are promised until an answer is damaged.
* A request whose echo is incomplete stops the main loop until other bytes come, and takes
  those of a late answer for its own (`rs485.c:30`).
* An answer of 248 to 250 bytes to a request by TCP is written over the end of a buffer
  (`modbusTCP.c:27`).
* With every sensor turned off no pause ever runs, and the fault LED keeps its last
  state (`app.c:239`): `FaultReleased` asks for a sensor that is on.
* Setting the time writes the date back one day and one month lower (`menu.c:902`).
* Pieces of a request make the unit answer the request it took last again, even that of
  the other master (`app.c:952`); a failing read does the same.
* A request for more than 80 bytes is answered with 40 (`app.c:1104`).
* `ethUpdate` resets the chip, and its retry count and timeout, set only at the
  start, fall back to the defaults (`menu.c:548`).
* Counting a passcode digit down to the right code says that the log is cleared, without clearing it (`menu.c:526`).

## Fairness

* `Polling`: the loop never blocks for ever, so its steps are weakly fair; timers
  that were started expire. A pass takes a few milliseconds and the pause 20 or
  100, so the event section does run within a pause: strong fairness on
  `ProcessEvents`. Nothing is assumed of the plant, the links, the user or the TCP masters;
  properties that need a quiet one say so (`TcpQuiet`).
* `EventView`: a running interrupt handler goes on.
* `NetConfig`: a command that has begun ends (weak); `ethUpdate` is called on
  every pass, whatever commands come in between (strong).
* `EventLog` is about safety only.
* `Rs485`: time passes, the loops of the receiver and of the echo take what has come, and the main
  loop polls when it may (weak). That an echo comes is not assumed. At least one sensor is taken to be turned on.
* `Menu` and `Display` are about safety only.
* `W5500`: a call of the library goes on (weak); nothing is assumed of the peer.
* `Clock`: the signal of the 333 ms timer waits in the queue of the stack until the
  main loop takes it, so the home page is refreshed however many commands come first
  (strong on `TimeDisplay`); what the main loop has begun goes on, the ten minutes pass (weak).
* `Sockets`: the main loop goes on whenever its call may return, and the chip ends each
  attempt to connect, to send and to disconnect by its timeout (weak). The client's
  timer lets it push again and again, and a server that is tried again and
  again accepts at last (strong). Nothing is assumed of the masters or the cable.
* `ModbusTcp`: the main loop goes on, started timers fire, what was sent arrives or the
  connection ends, masters have a timeout (weak). A transaction with a sensor ends, which is
  `PollingGoesOn` of `Rs485` and holds as long as its echo comes.

## What is proved

TLAPS proves, for every value of the constants:

* `EventLogProofs`: `TypeCorrect`, `CountersBounded`, `AgreementHolds`,
  `CountedRecordsStayHolds`. The invariants alone are not inductive. A saved
  counter may exceed the slots by one, and `Clamp` is what keeps the excess from
  growing, so the invariant ties the register of each step to what the limit
  check knew. For `Agreement` it says at each step of an
  undisturbed save how far RAM and EEPROM may differ: by one, or by a pending clear.
  `StoreImplemented` adds, step by step, that the log implements `EventStore`.
  Of the viewer, `ViewTypeCorrect` and `ViewInOrder`. The log is a ring of bits, and a walk is a way
  along it: the invariant `Orderly` says that between presses the viewer stands one bit past the one
  it showed (`Follows`), and that during a press there is nothing visible between the event on the screen
  and where the walk is (`Seeks`), also in the first of the two calls of a turn, which gets no
  further than that event. Distances on the ring (`Wrapped`, `RoundTrip`, `Distances`, `Nearest`) do the rest.
* `PollingProofs`: `TypeCorrect` (which rests on the next slot being one of the table:
  `FirstSlot`, `NextSlotInTable`, by well-founded induction's minimum
  principle) and `NoEventTwiceHolds` (what was handed over is in the picture of
  the unit and stays there until the next pass: `Handed`).
* `NetConfigProofs`: `TypeCorrect`, `MenuAloneHolds`. The invariant `Alone` adds that
  the backup is what was confirmed, and that only the field on the page may differ
  from it; `Stored` that the EEPROM has it also without power.
  The module also has the proofs about `W5500`: `StreamTypeCorrect`, `WholeSegments` and
  `StreamsCarried`, for bytes of any base, buffers of any size that divides the range of the pointers, and
  segments and messages of any sizes. `Sizes` is why reading a register of two bytes twice is
  enough: during a call the register only grows, so when the first digit is the same again, the second
  was read with it, and the number is one the register has had (`Had`); what it has had ends where
  a segment does (`Boundary`). `Contents` says that what lies between the pointers is the stream, and
  what `recv` has copied too, until RECV frees it. With these every step is one of `Channel`
  in each direction, or none. The lemmas `Going`, `Ways`, `Along`, `Slot` have the arithmetic of
  pointers that wrap at the range and places that wrap at the buffer, `Streams`, `StreamOn` and
  `StreamFrom` that of the sequences. `MapIsUnambiguous` goes through the tables of registers row by
  row (`CommonTable`, `SocketTable`): the offset in an opening tells the register (`CommonFound`,
  `SocketFound`), so no two bytes of registers share an address.
* `Rs485Proofs`: `TypeCorrect` (no transaction outlasts its timeout once its echo has come, whatever
  masters and the line do), `AnswersBelong` and `PollFaultsReal` for patient masters, until an
  answer is damaged or taken for an echo. `Private` says that at most one answer is on its way in a transaction, its
  own; for that, `Quiet` says that between transactions the guard outlasts every late
  answer, and pause or guard the timer; `Undisturbed` that a poll has a timer of its own. This
  is where the times matter: pause and guard not below the timeout (100 ms each in the code),
  latencies below it.

  The module also has the proofs about `Frame` and `TcpFrame`, for all bytes. `receiveModbusResponse` and
  `calculateCRC16` are functions that recur along their bytes, and the library's induction theorems
  take an operator, which the provers cannot instantiate. But `<` is well-founded on Nat
  (`NatLessThanWellFounded`, `WFMin`), which gives a set of numbers its least member (`LeastNumber`), and with
  it induction over a set (`Induction`, `Descent`): a definition along a line equals what a step
  makes of it (`RunExists`, `FollowsSame`), and then whatever a step keeps holds at the end.
  * `CrcTellsOneByte`: two sequences of bytes that differ in exactly one have different CRCs. A step of
    the CRC loses nothing: the exclusive or with a fixed number does not (`XorInjectiveRight`), and the bit
    that is shifted out comes back as the top bit of the polynomial.
  * `AnswerTaken`: an answer of up to 250 bytes of data, to any request, is completed by its last byte and
    no earlier, with the sensor's data, after any noise in which the function code does not follow the address.
    `NoiseStep` and `FrameStep` are what the receiver holds after each byte of noise and frame.
  * `DamageNoticed`: one damaged byte after the length, in however many bits, ends as a CRC error.
  * `NothingUnchecked`: whatever comes, in any number of bytes, what is completed begins with address and function
    code, is as long as it says and ends with the CRC of the rest (the invariant `Receivers`).
  * `Bypassed`: a read that comes by TCP goes out as the unit's own request would, and its answer goes back
    byte for byte as the sensor's own, for every transaction number, address, function code, registers and
    up to 247 bytes of data, which is all that fits the 256 bytes of `frame`.
  * `SlotsAreApart`, `AnswersCompleted`, `LongestHeld`, `PassedOver` and `TcpFramesDoAgree` are from these what
    `ReceiverAgrees` asks of the table, of answers and noise and of TCP frames, for every `Sample`.

* `ModbusTcpProofs`: `TypeCorrect`, `FlagsTimed`, `AnswersOwn`, `NothingIsLost`. `Calmly`
  follows a calm master: it is idle, its whole request waits (`Waits`), the request
  is with a sensor (`WithSensor`), or its answer is on its way (`Answered`); the shared buffer may change in each of them,
  but a sensor is only asked with a request in `byteBuffer` that is for it.
* `SocketsProofs`: `TypeCorrect`, `FreshConnections` (the invariant `Fresh`: a socket that has
  no connection has no flags of one) and `HealthyStay`.
* `ClockProofs`: `TypeCorrect`, `SettingsWhole`, `EditsKept`. `Origins` says that while the
  command writes its registers, WRTC tells whether those it has written are still its own;
  `ReadsAtHome` that the tick which may come during a reading gets no further than the page
  next to the home page, where nothing is set.
* `MenuProofs`: `TypeCorrect`, `GateHolds`, `PositionShown`, `PanelLocks`. `Safe` is a map of
  the places the position can be in (`Root`, `Locked`, `Group`, `Leaf`, `Measure`, `Events`,
  `Viewer`), each with its pages, since stage and indices alone do not say which table the next
  button uses; `Locks` and `Timed` tie the passcode level to the ten minutes.
  `PanelImplemented`: with `Safe`, every step of the menu is one of `Panel` or none, which
  is what `Clock` builds on. `DisplayKeeps`: the display takes nothing of this away.
  `PageIsDisplayed` (the text of the page is there, for measurements of four to nine characters; with
  ten the end of one would stay) and `CursorFollows` (the digit that changes is the one under the
  cursor, for passcodes of up to four places, which is what the page has room for).

Assumptions: an erased counter is larger than any legal one, the erased record is no event, a
status slot is studied together with the slot that checks its sensor, field
names differ from the model's control points, buffers are smaller than the range of the pointers and
divide it, and segments and messages fit. All hold of the code's constants; TLC evaluates them in every run.

Every safety property of a component is proved, and each refinement. Only model-checked are the temporal
properties (`RoundRobin`, `FaultLit`, `FaultReleased`, `BitNoticed`, `PressEndsIfVisible`,
`RequestReachesChip`, `PollingGoesOn`, `StampsRefreshed`, `MainLoopGoesOn`, `ConnectionsComeBack`,
`Served`, `CallsEnd`), because liveness under fairness is beyond the prover, and `ReceiverAgrees` as a whole.
Its parts are proved but for `TooLong` and two that depend on `Sample` and do not hold of every one. When the address has been seen in noise
before a frame, the receiver may begin there: after the noise 2, 4 an answer of AIRFLOW whose data happen to be
the CRC of 2, 4, 2, 4, 2 is completed with the data 4, 2. (`PassedOver` has the noise for which this cannot be, and
`NothingUnchecked` what is left when it is: a CRC of 16 bits that fits by chance.) And `Verdict`, the ways a frame
may leave the receiver, is a set TLC computes: damage of two bits in different bytes and what the frames of
another sensor contain are checked there, damage within one byte is proved.

## Not modelled

* The time a request takes on the line and the single bytes of its echo: in `Rs485` the echo is
  complete at once or bytes of it are missing.
* The rebuilding of the status picture from the log (`initUnitStatus`): `Polling` starts
  with any picture.
* Connections, notifications and the character handling of Bluetooth: a notification is retried
  without bound (`app.c:529`); of the commands those that change state are in the modules that have it.
* The two nibbles of a byte on the way to the LCD, between which a tick may come (`lcd.c:47`), its
  initialisation and characters. The display can be left half a byte off; no code prevents it.
* Shift register and debouncing of the buttons (`hc165.c`): a press is one event of one tick.
* Of the W5500 library what the unit does not call: UDP, raw sockets, PHY and socket options.
* The SDK, generated files and build output.

## Plan

Done: EventLog with EventStore, Polling, EventView, NetConfig, Rs485 with Frame and TcpFrame,
Menu with Panel and Display, Clock, Sockets, ModbusTcp, W5500 with Channel, and the proofs above.
Next:

1. Proofs: any two damaged bits in one frame (the order of the CRC's polynomial, for frames of up to 255
   bytes); the composition of `Menu`, `Panel` and `Clock`.
2. `Siu`: Polling with EventLog and a restart, events end to end (`initUnitStatus`).
3. The Bluetooth link: connection, notification and dispatch of the commands.
