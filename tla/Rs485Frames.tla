----------------------------- MODULE Rs485Frames -----------------------------
(* The two halves of rs485.c together: the transactions of Rs485 and the   *)
(* bytes of Frame, with those of TcpFrame around them.                     *)
EXTENDS Rs485, TcpFrame

(* The receiver takes the whole answer to the request of any slot and      *)
(* gives its data back, noise and other sensors before it or not, and no   *)
(* two slots read the same register; a request that comes by TCP gets the  *)
(* sensor's own answer, byte for byte.  What is in the buffer of a         *)
(* transaction is completed exactly when Rs485 counts it as an answer: no  *)
(* damage of one or two bits, and no frame of another sensor, passes       *)
(* (receiveModbusResponse).                                                *)
ReceiverAgrees ==
  /\ FramesAgree /\ TcpFramesAgree
  /\ \A f \in rx :
       IF Mine(f) /\ f.good THEN Verdict[Mine(f), f.good] = {"completed"}
                           ELSE "completed" \notin Verdict[Mine(f), f.good]
=============================================================================
