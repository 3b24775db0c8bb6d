------------------------------- MODULE Sockets ------------------------------
(***************************************************************************)
(* The TCP connections of the SIU-01: the two sockets on which it serves   *)
(* Modbus TCP masters and the one with which it pushes its data to a       *)
(* remote server (app.c, w5500_tcp.c, socket.c on the W5500 chip).         *)
(*                                                                         *)
(* Each pass of the main loop looks at the link and then at each socket,   *)
(* and acts on the state its register Sn_SR shows.  The chip, the network  *)
(* and the peers go on meanwhile: between the command LISTEN and the check *)
(* that it took, and while connect and disconnect wait in a loop.  What    *)
(* the peers say is the subject of ModbusTcp.                              *)
(***************************************************************************)
EXTENDS Naturals, FiniteSets

CONSTANTS
  Server,       \* SIU_SERVER_SOCKET, SIU_SERVER_SOCKET_2
  Client,       \* SIU_CLIENT_SOCKET
  MaxVanished,  \* so many masters may vanish without a word
  AbruptServer  \* the remote server may close what it has just accepted

ASSUME SocketAssumption ==
  /\ Client \notin Server /\ IsFiniteSet(Server)
  /\ MaxVanished \in Nat /\ AbruptServer \in BOOLEAN

Socket == Server \cup {Client}

VARIABLES
  sr,          \* Sn_SR, the state of each socket
  peer,        \* the other end of its connection
  irTimeout,   \* Sn_IR_TIMEOUT
  irSendOk,    \* Sn_IR_SENDOK
  sending,     \* sock_is_sending
  link,        \* the cable is plugged in
  clientMode,  \* mModeConfig.cfg[CLIENT_INDEX]
  connected,   \* client_connected, server1_connected, server2_connected
  todo,        \* sockets the main loop has still to look at in this pass
  call,        \* the library call it is in...
  at           \* ...and its socket

chip == <<sr, irTimeout, irSendOk>>
loop == <<todo, call, at>>
vars == <<chip, peer, sending, link, clientMode, connected, loop>>

TypeOK ==
  /\ sr \in [Socket -> {"closed", "init", "listen", "synsent", "established",
                        "closewait", "lastack"}]
  /\ peer \in [Socket -> {"none", "here", "gone"}]
  /\ irTimeout \in [Socket -> BOOLEAN]
  /\ irSendOk \in [Socket -> BOOLEAN]
  /\ sending \in [Socket -> BOOLEAN]
  /\ link \in BOOLEAN /\ clientMode \in BOOLEAN
  /\ connected \in [Socket -> BOOLEAN]
  /\ todo \subseteq Socket
  /\ call \in {"none", "listen", "connect", "disconnect"}
  /\ at \in Socket

Init ==
  /\ sr = [s \in Socket |-> "closed"]
  /\ peer = [s \in Socket |-> "none"]
  /\ irTimeout = [s \in Socket |-> FALSE]
  /\ irSendOk = [s \in Socket |-> FALSE]
  /\ sending = [s \in Socket |-> FALSE]
  /\ link \in BOOLEAN /\ clientMode \in BOOLEAN
  /\ connected = [s \in Socket |-> FALSE]
  /\ todo = {} /\ call = "none" /\ at = Client

-----------------------------------------------------------------------------
\* Definitions named "Wrong..." are variants with one mistake each; the
\* properties are seen to fail when one of them replaces the definition
\* that follows it.

(* close: the command CLOSE, and every interrupt bit cleared.              *)
Reset(f, S) == [s \in Socket |-> IF s \in S THEN FALSE ELSE f[s]]
Shut(S, state) ==
  /\ sr' = [s \in Socket |-> IF s \in S THEN state ELSE sr[s]]
  /\ peer' = [s \in Socket |-> IF s \in S THEN "none" ELSE peer[s]]
  /\ irTimeout' = Reset(irTimeout, S)
  /\ irSendOk' = Reset(irSendOk, S)
  /\ sending' = Reset(sending, S)
Close(S) == Shut(S, "closed")

(* socket: closes first, then opens.                                       *)
WrongOpen(s) ==             \* without closing first
  /\ sr' = [sr EXCEPT ![s] = "init"]
  /\ UNCHANGED <<peer, irTimeout, irSendOk, sending>>
Open(s) == Shut({s}, "init")

-----------------------------------------------------------------------------
(* The main loop.  The client, if there is one, comes before the servers.  *)

Turn(s) == s \in todo /\ (Client \in todo => s = Client) /\ call = "none"
Done(s) == todo' = todo \ {s} /\ call' = "none" /\ at' = Client

(* A new pass; without a link every socket is closed.                      *)
BeginPass ==
  /\ todo = {}
  /\ IF link
       THEN /\ todo' = IF clientMode THEN Socket ELSE Server
            /\ UNCHANGED <<chip, peer, sending, connected>>
       ELSE /\ Close(Socket)
            /\ connected' = [s \in Socket |-> FALSE]
            /\ UNCHANGED todo
  /\ UNCHANGED <<call, at, link, clientMode>>

(* SOCK_CLOSED of tcp_server and tcp_client                                *)
OpenSocket(s) ==
  /\ Turn(s) /\ sr[s] = "closed"
  /\ Open(s)
  /\ connected' = [connected EXCEPT ![s] = FALSE]
  /\ Done(s)
  /\ UNCHANGED <<link, clientMode>>

(* SOCK_INIT: listen or connect                                            *)
StartSocket(s) ==
  /\ Turn(s) /\ sr[s] = "init"
  /\ sr' = [sr EXCEPT ![s] = IF s = Client THEN "synsent" ELSE "listen"]
  /\ call' = IF s = Client THEN "connect" ELSE "listen"
  /\ at' = s
  /\ UNCHANGED <<irTimeout, irSendOk, peer, sending, link, clientMode,
                 connected, todo>>

(* listen closes the socket again unless it still sees SOCK_LISTEN.        *)
ListenReturns ==
  /\ call = "listen"
  /\ IF sr[at] = "listen" THEN UNCHANGED <<chip, peer, sending>> ELSE Close({at})
  /\ connected' = [connected EXCEPT ![at] = FALSE]
  /\ Done(at)
  /\ UNCHANGED <<link, clientMode>>

(* connect waits for SOCK_ESTABLISHED, Sn_IR_TIMEOUT or SOCK_CLOSED.       *)
ConnectReturns ==
  /\ call = "connect"
  /\ sr[at] \in {"established", "closed"} \/ irTimeout[at]
  /\ irTimeout' = [irTimeout EXCEPT ![at] = FALSE]
  /\ connected' = [connected EXCEPT ![at] = FALSE]
  /\ Done(at)
  /\ UNCHANGED <<sr, irSendOk, peer, sending, link, clientMode>>

(* SOCK_CLOSE_WAIT: disconnect                                             *)
Disconnect(s) ==
  /\ Turn(s) /\ sr[s] = "closewait"
  /\ sr' = [sr EXCEPT ![s] = "lastack"]
  /\ sending' = [sending EXCEPT ![s] = FALSE]
  /\ call' = "disconnect" /\ at' = s
  /\ UNCHANGED <<irTimeout, irSendOk, peer, link, clientMode, connected, todo>>

(* It waits for SOCK_CLOSED or Sn_IR_TIMEOUT.                              *)
WrongDisconnected(s) == sr[s] = "closed" /\ ~irTimeout[s]   \* no timeout
Disconnected(s) == sr[s] = "closed" \/ irTimeout[s]
DisconnectReturns ==
  /\ call = "disconnect" /\ Disconnected(at)
  /\ IF sr[at] = "closed" THEN UNCHANGED <<chip, peer, sending>> ELSE Close({at})
  /\ connected' = [connected EXCEPT ![at] = FALSE]
  /\ Done(at)
  /\ UNCHANGED <<link, clientMode>>

(* SOCK_ESTABLISHED, and nothing is sent.                                  *)
StayConnected(s) ==
  /\ Turn(s) /\ sr[s] = "established"
  /\ connected' = [connected EXCEPT ![s] = TRUE]
  /\ Done(s)
  /\ UNCHANGED <<chip, peer, sending, link, clientMode>>

(* send, from sendtoServer: a reply or a push.  While the last one is not  *)
(* acknowledged nothing is sent and the message is dropped (SOCK_BUSY).    *)
WrongBusy(s) == Close({s})                 \* taken for an error
Busy(s) == UNCHANGED <<chip, peer, sending>>
Transmit(s) ==
  IF sending[s] /\ ~irSendOk[s] THEN Busy(s)
  ELSE /\ sending' = [sending EXCEPT ![s] = TRUE]
       /\ irSendOk' = [irSendOk EXCEPT ![s] = FALSE]
       /\ UNCHANGED <<sr, irTimeout, peer>>
Send(s) ==
  /\ Turn(s) /\ sr[s] = "established"
  /\ s = Client \/ peer[s] = "here"       \* it has asked
  /\ Transmit(s)
  /\ connected' = [connected EXCEPT ![s] = TRUE]
  /\ Done(s)
  /\ UNCHANGED <<link, clientMode>>

(* SOCK_LISTEN, SOCK_SYNSENT, ...: nothing to do.                          *)
LookOn(s) ==
  /\ Turn(s) /\ sr[s] \in {"listen", "synsent", "lastack"}
  /\ connected' = [connected EXCEPT ![s] = FALSE]
  /\ Done(s)
  /\ UNCHANGED <<chip, peer, sending, link, clientMode>>

MainLoop ==
  \/ BeginPass \/ ListenReturns \/ ConnectReturns \/ DisconnectReturns
  \/ \E s \in Socket : \/ OpenSocket(s) \/ StartSocket(s) \/ Disconnect(s)
                       \/ StayConnected(s) \/ Send(s) \/ LookOn(s)

-----------------------------------------------------------------------------
(* The chip, the network and the peers.                                    *)

Moves(s, from, to) == sr[s] \in from /\ sr' = [sr EXCEPT ![s] = to]
Rest == <<sending, link, clientMode, connected, loop>>

(* A connection comes about.                                               *)
Establish(s) ==
  /\ link /\ Moves(s, {"listen", "synsent"}, "established")
  /\ peer' = [peer EXCEPT ![s] = "here"]
  /\ UNCHANGED <<irTimeout, irSendOk, Rest>>

(* The chip gives up: a connection, a transmission or a FIN without answer.*)
Timeout(s) ==
  /\ \/ sr[s] \in {"synsent", "lastack"}
     \/ sr[s] = "established" /\ sending[s] /\ ~irSendOk[s]
  /\ sr' = [sr EXCEPT ![s] = "closed"]
  /\ irTimeout' = [irTimeout EXCEPT ![s] = TRUE]
  /\ peer' = [peer EXCEPT ![s] = "none"]
  /\ UNCHANGED <<irSendOk, Rest>>

(* The peer acknowledges what was sent, or the FIN.                        *)
Acknowledge(s) ==
  /\ link /\ peer[s] = "here"
  /\ \/ /\ sr[s] = "established" /\ sending[s] /\ ~irSendOk[s]
        /\ irSendOk' = [irSendOk EXCEPT ![s] = TRUE]
        /\ UNCHANGED <<sr, peer>>
     \/ /\ Moves(s, {"lastack"}, "closed")
        /\ peer' = [peer EXCEPT ![s] = "none"]
        /\ UNCHANGED irSendOk
  /\ UNCHANGED <<irTimeout, Rest>>

(* The peer refuses or resets the connection.                              *)
PeerResets(s) ==
  /\ link
  /\ peer[s] = "here" \/ sr[s] = "synsent"
  /\ Moves(s, {"synsent", "established", "closewait", "lastack"}, "closed")
  /\ peer' = [peer EXCEPT ![s] = "none"]
  /\ UNCHANGED <<irTimeout, irSendOk, Rest>>

(* The peer closes its end.                                                *)
PeerCloses(s) ==
  /\ link /\ peer[s] = "here"
  /\ call = "connect" /\ at = s => AbruptServer
  /\ Moves(s, {"established"}, "closewait")
  /\ UNCHANGED <<irTimeout, irSendOk, peer, Rest>>

(* The peer vanishes: it is switched off, or a cable behind a switch is    *)
(* unplugged.                                                              *)
PeerVanishes(s) ==
  /\ peer[s] = "here"
  /\ s \in Server => Cardinality({t \in Server : peer[t] = "gone"}) < MaxVanished
  /\ peer' = [peer EXCEPT ![s] = "gone"]
  /\ UNCHANGED <<chip, Rest>>

LinkChanges ==
  /\ link' = ~link
  /\ UNCHANGED <<chip, peer, sending, clientMode, connected, loop>>

(* Page 111 of the menu, in the timer interrupt.                           *)
ModeChanges ==
  /\ clientMode' = ~clientMode
  /\ UNCHANGED <<chip, peer, sending, link, connected, loop>>

Network ==
  \/ LinkChanges \/ ModeChanges
  \/ \E s \in Socket : \/ Establish(s) \/ Timeout(s) \/ Acknowledge(s)
                       \/ PeerResets(s) \/ PeerCloses(s) \/ PeerVanishes(s)

Next == MainLoop \/ Network

(* The main loop goes on whenever it can; the chip ends every attempt to   *)
(* connect, to send and to disconnect, with an answer or by its timeout;   *)
(* the 1000 ms timer of the client lets it push again and again; and a     *)
(* server that is tried again and again accepts at last.                   *)
Fairness ==
  /\ WF_vars(MainLoop)
  /\ \A s \in Socket : WF_vars(Timeout(s))
  /\ SF_vars(Send(Client)) /\ SF_vars(Establish(Client))

Spec == Init /\ [][Next]_vars /\ Fairness

-----------------------------------------------------------------------------
(* Requirements.                                                           *)

(* A connection starts without a trace of the one before on its socket: no *)
(* timeout of the old one ends the new one, no acknowledgement that is not *)
(* its own lets it send, and no transmission of the old one holds it back. *)
FreshConnection ==
  \A s \in Socket :
    /\ sr[s] \in {"listen", "synsent"} => ~irTimeout[s] /\ ~irSendOk[s] /\ ~sending[s]
    /\ sr[s] \in {"established", "closewait"} => ~irTimeout[s]

(* The main loop itself ends a live connection only for want of a link, or *)
(* when it came between the command LISTEN and its check.                  *)
HealthyKept ==
  [][\A s \in Socket :
       MainLoop /\ sr[s] = "established" /\ peer[s] = "here" /\ sr'[s] # sr[s]
         => ~link \/ (call = "listen" /\ at = s)]_vars

(* No call blocks the main loop for good ("Do not call blocking functions  *)
(* from here!", app.c:210), as long as the remote server does not close a  *)
(* connection that connect has not seen yet.                               *)
MainLoopGoesOn == []<>(call = "none" /\ todo = {})

(* Connections come back.  As long as only one master has vanished         *)
(* silently, masters can come in or are being served; and the client finds *)
(* its server again and again, however the last connection ended: even one *)
(* that vanished is noticed, by the next push.                             *)
ServesMasters(s) ==
  \/ sr[s] = "listen"
  \/ sr[s] = "established" /\ peer[s] = "here"
ConnectionsComeBack ==
  /\ <>[]link => []<>(\E s \in Server : ServesMasters(s))
  /\ <>[](link /\ clientMode)
       => []<>(sr[Client] = "established" /\ peer[Client] = "here")
=============================================================================
