---------------------------- MODULE SocketsProofs ----------------------------
(***************************************************************************)
(* Proofs about Sockets for any server sockets and any number of masters   *)
(* that vanish: type correctness, that a connection starts without a trace *)
(* of the last one on its socket, and that the main loop leaves a live     *)
(* connection alone.                                                       *)
(***************************************************************************)
EXTENDS Sockets, TLAPS

State == {"closed", "init", "listen", "synsent", "established", "closewait",
          "lastack"}

(* close and socket leave everything well typed.                           *)
LEMMA ShutType ==
  ASSUME TypeOK, NEW S, NEW state \in State, Shut(S, state)
  PROVE  /\ sr' \in [Socket -> State]
         /\ peer' \in [Socket -> {"none", "here", "gone"}]
         /\ irTimeout' \in [Socket -> BOOLEAN]
         /\ irSendOk' \in [Socket -> BOOLEAN]
         /\ sending' \in [Socket -> BOOLEAN]
<1>1. sr' \in [Socket -> State] /\ peer' \in [Socket -> {"none", "here", "gone"}]
  BY DEF Shut, TypeOK, State
<1>2. ASSUME NEW f \in [Socket -> BOOLEAN]
      PROVE  Reset(f, S) \in [Socket -> BOOLEAN]
  BY Zenon DEF Reset
<1>3. QED
  BY <1>1, <1>2 DEF Shut, TypeOK

(* What the end of a turn leaves.                                          *)
LEMMA DoneType ==
  ASSUME TypeOK, NEW s \in Socket, Done(s)
  PROVE  todo' \subseteq Socket /\ call' = "none" /\ at' \in Socket
  BY DEF Done, TypeOK, Socket

-----------------------------------------------------------------------------
(* Type correctness.                                                       *)
LEMMA InitTypeOK == Init => TypeOK
  BY DEF Init, TypeOK, Socket

LEMMA NextTypeOK == TypeOK /\ [Next]_vars => TypeOK'
<1> SUFFICES ASSUME TypeOK, [Next]_vars
             PROVE  TypeOK'
  OBVIOUS
<1> USE DEF chip, loop, State
<1>a. \A s \in Socket, v \in BOOLEAN :
        [connected EXCEPT ![s] = v] \in [Socket -> BOOLEAN]
  BY Zenon DEF TypeOK
<1>1. CASE BeginPass
  <2>1. CASE link
    <3>1. todo' \subseteq Socket
      BY <1>1, <2>1, Zenon DEF BeginPass, Socket
    <3>2. QED
      BY <1>1, <2>1, <3>1 DEF BeginPass, TypeOK
  <2>2. CASE ~link
    <3>1. Shut(Socket, "closed")
      BY <1>1, <2>2, Zenon DEF BeginPass, Close
    <3>2. connected' \in [Socket -> BOOLEAN] /\ UNCHANGED <<todo, call, at, link, clientMode>>
      BY <1>1, <2>2, Zenon DEF BeginPass
    <3>3. QED
      BY <3>1, <3>2, ShutType DEF TypeOK
  <2>3. QED
    BY <2>1, <2>2
<1>2. ASSUME NEW s \in Socket, OpenSocket(s)
      PROVE  TypeOK'
  BY <1>2, <1>a, ShutType, DoneType DEF OpenSocket, Open, TypeOK
<1>3. ASSUME NEW s \in Socket, StartSocket(s)
      PROVE  TypeOK'
  BY <1>3 DEF StartSocket, TypeOK
<1>4. CASE ListenReturns
  <2>1. at \in Socket
    BY DEF TypeOK
  <2>2. CASE sr[at] = "listen"
    BY <1>4, <1>a, <2>1, <2>2, DoneType DEF ListenReturns, TypeOK
  <2>3. CASE sr[at] # "listen"
    BY <1>4, <1>a, <2>1, <2>3, ShutType, DoneType DEF ListenReturns, Close, TypeOK
  <2>4. QED
    BY <2>2, <2>3
<1>5. CASE ConnectReturns
  <2>1. irTimeout' \in [Socket -> BOOLEAN]
    BY <1>5, Zenon DEF ConnectReturns, TypeOK
  <2>2. QED
    BY <1>5, <1>a, <2>1, DoneType DEF ConnectReturns, TypeOK
<1>6. ASSUME NEW s \in Socket, Disconnect(s)
      PROVE  TypeOK'
  <2>1. sending' \in [Socket -> BOOLEAN]
    BY <1>6, Zenon DEF Disconnect, TypeOK
  <2>2. QED
    BY <1>6, <2>1 DEF Disconnect, TypeOK
<1>7. CASE DisconnectReturns
  <2>1. at \in Socket
    BY DEF TypeOK
  <2>2. CASE sr[at] = "closed"
    BY <1>7, <1>a, <2>1, <2>2, DoneType DEF DisconnectReturns, TypeOK
  <2>3. CASE sr[at] # "closed"
    BY <1>7, <1>a, <2>1, <2>3, ShutType, DoneType DEF DisconnectReturns, Close, TypeOK
  <2>4. QED
    BY <2>2, <2>3
<1>8. ASSUME NEW s \in Socket, StayConnected(s)
      PROVE  TypeOK'
  BY <1>8, <1>a, DoneType DEF StayConnected, TypeOK
<1>9. ASSUME NEW s \in Socket, Send(s)
      PROVE  TypeOK'
  <2>1. /\ sending' \in [Socket -> BOOLEAN] /\ irSendOk' \in [Socket -> BOOLEAN]
        /\ UNCHANGED <<sr, irTimeout, peer>>
    <3>1. [sending EXCEPT ![s] = TRUE] \in [Socket -> BOOLEAN]
      BY Zenon DEF TypeOK
    <3>2. [irSendOk EXCEPT ![s] = FALSE] \in [Socket -> BOOLEAN]
      BY Zenon DEF TypeOK
    <3>3. QED
      BY <1>9, <3>1, <3>2, Zenon DEF Send, Transmit, Busy, TypeOK
  <2>2. QED
    BY <1>9, <1>a, <2>1, DoneType DEF Send, TypeOK
<1>10. ASSUME NEW s \in Socket, LookOn(s)
       PROVE  TypeOK'
  BY <1>10, <1>a, DoneType DEF LookOn, TypeOK
<1>11. ASSUME NEW s \in Socket, Establish(s) \/ PeerResets(s) \/ PeerCloses(s)
                                \/ PeerVanishes(s)
       PROVE  TypeOK'
  BY <1>11 DEF Establish, PeerResets, PeerCloses, PeerVanishes, Moves, Rest, TypeOK
<1>12. ASSUME NEW s \in Socket, Timeout(s)
       PROVE  TypeOK'
  <2>1. irTimeout' \in [Socket -> BOOLEAN]
    BY <1>12, Zenon DEF Timeout, TypeOK
  <2>2. QED
    BY <1>12, <2>1 DEF Timeout, Rest, TypeOK
<1>13. ASSUME NEW s \in Socket, Acknowledge(s)
       PROVE  TypeOK'
  <2>1. irSendOk' \in [Socket -> BOOLEAN]
    BY <1>13, Zenon DEF Acknowledge, TypeOK
  <2>2. sr' \in [Socket -> State] /\ peer' \in [Socket -> {"none", "here", "gone"}]
    BY <1>13 DEF Acknowledge, Moves, TypeOK
  <2>3. QED
    BY <1>13, <2>1, <2>2 DEF Acknowledge, Rest, TypeOK
<1>14. CASE LinkChanges \/ ModeChanges \/ UNCHANGED vars
  BY <1>14 DEF LinkChanges, ModeChanges, vars, TypeOK
<1>15. QED
  BY <1>1, <1>2, <1>3, <1>4, <1>5, <1>6, <1>7, <1>8, <1>9, <1>10, <1>11,
     <1>12, <1>13, <1>14 DEF Next, MainLoop, Network

(* Every variable keeps its type, whatever cable, chip and peers do.       *)
THEOREM TypeCorrect == Spec => []TypeOK
  BY InitTypeOK, NextTypeOK, PTL DEF Spec

-----------------------------------------------------------------------------
(* A timeout is only ever shown by a closed socket, and one that is being  *)
(* opened shows nothing of its last connection.                            *)
Fresh ==
  /\ TypeOK
  /\ \A s \in Socket :
       /\ irTimeout[s] => sr[s] = "closed"
       /\ sr[s] \in {"init", "listen", "synsent"}
            => ~irTimeout[s] /\ ~irSendOk[s] /\ ~sending[s]

(* close and socket take every trace with them, from each of the sockets   *)
(* they are given, and leave the others alone.                             *)
LEMMA ShutFresh ==
  ASSUME Fresh, TypeOK', NEW S, NEW state, Shut(S, state)
  PROVE  Fresh'
<1> SUFFICES ASSUME NEW s \in Socket
             PROVE  /\ irTimeout'[s] => sr'[s] = "closed"
                    /\ sr'[s] \in {"init", "listen", "synsent"}
                         => ~irTimeout'[s] /\ ~irSendOk'[s] /\ ~sending'[s]
  BY DEF Fresh
<1>1. CASE s \in S
  BY <1>1, Zenon DEF Shut, Reset
<1>2. CASE s \notin S
  <2>1. /\ sr'[s] = sr[s] /\ irTimeout'[s] = irTimeout[s]
        /\ irSendOk'[s] = irSendOk[s] /\ sending'[s] = sending[s]
    BY <1>2, Zenon DEF Shut, Reset
  <2>2. QED
    BY <2>1, Zenon DEF Fresh
<1>3. QED
  BY <1>1, <1>2

LEMMA InitFresh == Init => Fresh
  BY InitTypeOK, Zenon DEF Init, Fresh

LEMMA NextFresh == Fresh /\ [Next]_vars => Fresh'
<1> SUFFICES ASSUME Fresh, [Next]_vars
             PROVE  Fresh'
  OBVIOUS
<1> USE DEF chip, loop
<1>t. TypeOK /\ TypeOK'
  BY NextTypeOK DEF Fresh
<1>u. ASSUME UNCHANGED <<sr, irTimeout, irSendOk, sending>>
      PROVE  Fresh'
  BY <1>t, <1>u, Zenon DEF Fresh
<1>1. CASE BeginPass
  BY <1>1, <1>t, <1>u, ShutFresh DEF BeginPass, Close
<1>2. ASSUME NEW s \in Socket, OpenSocket(s)
      PROVE  Fresh'
  BY <1>2, <1>t, ShutFresh DEF OpenSocket, Open
<1>3. ASSUME NEW s \in Socket, StartSocket(s)
      PROVE  Fresh'
  <2> SUFFICES ASSUME NEW r \in Socket
               PROVE  /\ irTimeout'[r] => sr'[r] = "closed"
                      /\ sr'[r] \in {"init", "listen", "synsent"}
                           => ~irTimeout'[r] /\ ~irSendOk'[r] /\ ~sending'[r]
    BY <1>t DEF Fresh
  <2>1. UNCHANGED <<irTimeout, irSendOk, sending>> /\ sr[s] = "init"
    BY <1>3 DEF StartSocket
  <2>2. r # s => sr'[r] = sr[r]
    BY <1>3, <1>t DEF StartSocket, TypeOK
  <2>3. CASE r = s
    BY <2>1, <2>3, Zenon DEF Fresh
  <2>4. CASE r # s
    BY <2>1, <2>2, <2>4, Zenon DEF Fresh
  <2>5. QED
    BY <2>3, <2>4
<1>4. CASE ListenReturns \/ DisconnectReturns
  BY <1>4, <1>t, <1>u, ShutFresh DEF ListenReturns, DisconnectReturns, Close
<1>5. CASE ConnectReturns
  <2>1. \A r \in Socket : irTimeout'[r] => irTimeout[r]
    BY <1>5, <1>t, Zenon DEF ConnectReturns, TypeOK
  <2>2. UNCHANGED <<sr, irSendOk, sending>>
    BY <1>5 DEF ConnectReturns
  <2>3. QED
    BY <1>t, <2>1, <2>2, Zenon DEF Fresh
<1>6. ASSUME NEW s \in Socket, Disconnect(s)
      PROVE  Fresh'
  <2>1. sr[s] = "closewait" /\ sr' = [sr EXCEPT ![s] = "lastack"]
    BY <1>6 DEF Disconnect
  <2>2. UNCHANGED <<irTimeout, irSendOk>> /\ \A r \in Socket : sending'[r] => sending[r]
    BY <1>6, <1>t, Zenon DEF Disconnect, TypeOK
  <2>3. ~irTimeout[s]
    BY <2>1 DEF Fresh
  <2>4. sr'[s] = "lastack" /\ \A r \in Socket \ {s} : sr'[r] = sr[r]
    BY <2>1, <1>t DEF TypeOK
  <2>5. ASSUME NEW r \in Socket
        PROVE  /\ irTimeout'[r] => sr'[r] = "closed"
               /\ sr'[r] \in {"init", "listen", "synsent"}
                    => ~irTimeout'[r] /\ ~irSendOk'[r] /\ ~sending'[r]
    <3>1. CASE r = s
      BY <3>1, <2>2, <2>3, <2>4
    <3>2. CASE r # s
      BY <3>2, <2>2, <2>4, Zenon DEF Fresh
    <3>3. QED
      BY <3>1, <3>2
  <2>6. QED
    BY <1>t, <2>5 DEF Fresh
<1>9. ASSUME NEW s \in Socket, Send(s)
      PROVE  Fresh'
  <2>1. CASE UNCHANGED <<sr, irTimeout, irSendOk, sending>>
    BY <2>1, <1>u
  <2>2. CASE /\ sending' = [sending EXCEPT ![s] = TRUE]
             /\ irSendOk' = [irSendOk EXCEPT ![s] = FALSE]
             /\ UNCHANGED <<sr, irTimeout>>
    <3>1. sr[s] = "established"
      BY <1>9 DEF Send
    <3>2. ASSUME NEW r \in Socket \ {s}
          PROVE  sending'[r] = sending[r] /\ irSendOk'[r] = irSendOk[r]
      BY <2>2, <1>t, Zenon DEF TypeOK
    <3>3. ASSUME NEW r \in Socket, r # s
          PROVE  /\ irTimeout'[r] => sr'[r] = "closed"
                 /\ sr'[r] \in {"init", "listen", "synsent"}
                      => ~irTimeout'[r] /\ ~irSendOk'[r] /\ ~sending'[r]
      <4>1. sending'[r] = sending[r] /\ irSendOk'[r] = irSendOk[r]
        BY <3>2, <3>3
      <4>2. QED
        BY <2>2, <4>1, Zenon DEF Fresh
    <3>4. /\ irTimeout'[s] => sr'[s] = "closed"
          /\ sr'[s] \notin {"init", "listen", "synsent"}
      <4>1. sr'[s] = "established" /\ irTimeout'[s] = irTimeout[s]
        BY <2>2, <3>1
      <4>2. irTimeout[s] => sr[s] = "closed"
        BY DEF Fresh
      <4>3. QED
        BY <4>1, <4>2, <3>1
    <3>5. QED
      BY <1>t, <3>3, <3>4, Zenon DEF Fresh
  <2>3. QED
    BY <1>9, <2>1, <2>2, Zenon DEF Send, Transmit, Busy
<1>10. ASSUME NEW s \in Socket, StayConnected(s) \/ LookOn(s)
       PROVE  Fresh'
  BY <1>10, <1>u DEF StayConnected, LookOn
<1>11. ASSUME NEW s \in Socket, NEW from, NEW to \in {"closed", "established", "closewait"},
              Moves(s, from, to), to # "closed" => sr[s] # "closed",
              UNCHANGED <<irTimeout, irSendOk, sending>>
       PROVE  Fresh'
  <2>1. sr'[s] = to /\ \A r \in Socket \ {s} : sr'[r] = sr[r]
    BY <1>11, <1>t DEF Moves, TypeOK
  <2>2. irTimeout'[s] => sr'[s] = "closed"
    BY <1>11, <2>1 DEF Fresh
  <2>3. sr'[s] \notin {"init", "listen", "synsent"}
    BY <2>1
  <2>4. ASSUME NEW r \in Socket, r # s
        PROVE  /\ irTimeout'[r] => sr'[r] = "closed"
               /\ sr'[r] \in {"init", "listen", "synsent"}
                    => ~irTimeout'[r] /\ ~irSendOk'[r] /\ ~sending'[r]
    <3>1. sr'[r] = sr[r]
      BY <2>1, <2>4
    <3>2. QED
      BY <1>11, <3>1, Zenon DEF Fresh
  <2>5. QED
    BY <1>t, <2>2, <2>3, <2>4, Zenon DEF Fresh
<1>12. ASSUME NEW s \in Socket, Timeout(s)
       PROVE  Fresh'
  <2>1. /\ sr'[s] = "closed" /\ \A r \in Socket \ {s} : sr'[r] = sr[r]
    BY <1>12, <1>t DEF Timeout, TypeOK
  <2>2. /\ \A r \in Socket \ {s} : irTimeout'[r] = irTimeout[r]
        /\ UNCHANGED <<irSendOk, sending>>
    BY <1>12, <1>t, Zenon DEF Timeout, Rest, TypeOK
  <2>3. ASSUME NEW r \in Socket, r # s
        PROVE  /\ irTimeout'[r] => sr'[r] = "closed"
               /\ sr'[r] \in {"init", "listen", "synsent"}
                    => ~irTimeout'[r] /\ ~irSendOk'[r] /\ ~sending'[r]
    <3>1. sr'[r] = sr[r]
      BY <2>1, <2>3
    <3>2. irTimeout'[r] = irTimeout[r]
      BY <2>2, <2>3
    <3>3. QED
      BY <2>2, <3>1, <3>2, Zenon DEF Fresh
  <2>4. QED
    BY <1>t, <2>1, <2>3, Zenon DEF Fresh
<1>13. ASSUME NEW s \in Socket, Acknowledge(s)
       PROVE  Fresh'
  <2>1. CASE Moves(s, {"lastack"}, "closed") /\ UNCHANGED irSendOk
    BY <1>11, <1>13, <2>1 DEF Acknowledge, Rest
  <2>2. CASE /\ sr[s] = "established" /\ irSendOk' = [irSendOk EXCEPT ![s] = TRUE]
             /\ UNCHANGED sr
    <3>1. UNCHANGED <<irTimeout, sending>> /\ sr'[s] = "established"
      BY <1>13, <2>2 DEF Acknowledge, Rest
    <3>2. \A r \in Socket \ {s} : irSendOk'[r] = irSendOk[r]
      BY <2>2, <1>t, Zenon DEF TypeOK
    <3>3. irTimeout'[s] => sr'[s] = "closed"
      BY <2>2, <3>1, Zenon DEF Fresh
    <3>4. sr'[s] \notin {"init", "listen", "synsent"}
      BY <3>1
    <3>5. ASSUME NEW r \in Socket, r # s
          PROVE  /\ irTimeout'[r] => sr'[r] = "closed"
                 /\ sr'[r] \in {"init", "listen", "synsent"}
                      => ~irTimeout'[r] /\ ~irSendOk'[r] /\ ~sending'[r]
      <4>1. irSendOk'[r] = irSendOk[r]
        BY <3>2, <3>5
      <4>2. QED
        BY <2>2, <3>1, <4>1, Zenon DEF Fresh
    <3>6. QED
      BY <1>t, <3>3, <3>4, <3>5, Zenon DEF Fresh
  <2>3. QED
    BY <1>13, <2>1, <2>2, Zenon DEF Acknowledge
<1>14. ASSUME NEW s \in Socket, Establish(s) \/ PeerResets(s) \/ PeerCloses(s)
       PROVE  Fresh'
  <2>1. CASE Establish(s)
    BY <1>11, <2>1 DEF Establish, Moves, Rest
  <2>2. CASE PeerResets(s)
    BY <1>11, <2>2 DEF PeerResets, Rest
  <2>3. CASE PeerCloses(s)
    BY <1>11, <2>3 DEF PeerCloses, Moves, Rest
  <2>4. QED
    BY <1>14, <2>1, <2>2, <2>3
<1>15. ASSUME NEW s \in Socket, PeerVanishes(s)
       PROVE  Fresh'
  BY <1>15, <1>u DEF PeerVanishes, Rest
<1>16. CASE LinkChanges \/ ModeChanges \/ UNCHANGED vars
  BY <1>16, <1>u DEF LinkChanges, ModeChanges, vars
<1>17. QED
  BY <1>1, <1>2, <1>3, <1>4, <1>5, <1>6, <1>9, <1>10, <1>12, <1>13, <1>14,
     <1>15, <1>16 DEF Next, MainLoop, Network

LEMMA FreshAlways == Spec => []Fresh
  BY InitFresh, NextFresh, PTL DEF Spec

(* No timeout, acknowledgement or pending transmission of one connection   *)
(* reaches the next one on its socket: socket closes before it opens, and  *)
(* closing clears them (socket.c, close and socket).                       *)
THEOREM FreshConnections == Spec => []FreshConnection
<1>1. Fresh => FreshConnection
  BY Zenon DEF Fresh, FreshConnection
<1>2. QED
  BY <1>1, FreshAlways, PTL

-----------------------------------------------------------------------------
(* A step of the main loop that takes a socket out of a connection.        *)
LEMMA OnlyListenEnds ==
  ASSUME Fresh, MainLoop, NEW s \in Socket,
         sr[s] = "established", sr'[s] # sr[s]
  PROVE  ~link \/ (call = "listen" /\ at = s)
<1> USE DEF chip
<1>1. CASE BeginPass
  BY <1>1 DEF BeginPass
<1>2. CASE ListenReturns
  <2>1. at = s
    BY <1>2 DEF ListenReturns, Close, Shut
  <2>2. QED
    BY <1>2, <2>1 DEF ListenReturns
<1>3. CASE ConnectReturns
  BY <1>3 DEF ConnectReturns
<1>4. CASE DisconnectReturns
  <2>1. at = s /\ sr[at] # "closed"
    BY <1>4 DEF DisconnectReturns, Close, Shut
  <2>2. irTimeout[s]
    BY <1>4, <2>1, Zenon DEF DisconnectReturns, Disconnected
  <2>3. QED
    BY <2>1, <2>2, Zenon DEF Fresh
<1>5. ASSUME NEW r \in Socket, OpenSocket(r)
      PROVE  FALSE
  <2>1. sr[r] = "closed"
    BY <1>5 DEF OpenSocket
  <2>2. sr'[s] = sr[s]
    BY <1>5, <2>1 DEF OpenSocket, Open, Shut
  <2>3. QED
    BY <2>2
<1>6. ASSUME NEW r \in Socket, StartSocket(r) \/ Disconnect(r)
      PROVE  FALSE
  BY <1>6 DEF StartSocket, Disconnect, Fresh, TypeOK
<1>7. ASSUME NEW r \in Socket, StayConnected(r) \/ Send(r) \/ LookOn(r)
      PROVE  FALSE
  BY <1>7, Zenon DEF StayConnected, Send, Transmit, Busy, LookOn
<1>8. QED
  BY <1>1, <1>2, <1>3, <1>4, <1>5, <1>6, <1>7 DEF MainLoop

(* The main loop never ends a connection that is alive, but for want of a  *)
(* link or in the gap between LISTEN and its check.                        *)
THEOREM HealthyStay == Spec => HealthyKept
<1>1. Fresh /\ [Next]_vars
        => [\A s \in Socket :
              MainLoop /\ sr[s] = "established" /\ peer[s] = "here" /\ sr'[s] # sr[s]
                => ~link \/ (call = "listen" /\ at = s)]_vars
  BY OnlyListenEnds
<1>2. QED
  BY <1>1, FreshAlways, PTL DEF Spec, HealthyKept
=============================================================================
