-------------------------------- MODULE Channel -------------------------------
(***************************************************************************)
(* What one direction of a TCP connection promises to the program: while   *)
(* the connection is open, a bounded queue of bytes.  Every byte carries   *)
(* its place in the stream, modulo Word, so a byte lost, doubled, moved or *)
(* overwritten shows.                                                      *)
(***************************************************************************)
EXTENDS Naturals, Sequences

CONSTANTS Word, Capacity

VARIABLES
  open,     \* there is a connection
  queue,    \* put and not yet taken
  chunk,    \* what the taker has copied from its head and not yet removed
  put       \* the place of the next byte to be put

vars == <<open, queue, chunk, put>>

Stream(from, n) == [i \in 1..n |-> (from + i - 1) % Word]

Nothing == queue = <<>> /\ chunk = <<>>
Init == ~open /\ Nothing /\ put = 0

Open == ~open /\ open' /\ Nothing' /\ put' \in 0..Word-1

(* What is left is lost.                                                   *)
Close == open /\ ~open' /\ Nothing' /\ put' = 0

Put ==
  /\ open
  /\ \E n \in 1..(Capacity - Len(queue)) :
       /\ queue' = queue \o Stream(put, n)
       /\ put' = (put + n) % Word
  /\ UNCHANGED <<open, chunk>>

Copy ==
  /\ open
  /\ \E n \in 1..Len(queue) : chunk' = SubSeq(queue, 1, n)
  /\ UNCHANGED <<open, queue, put>>

Remove ==
  /\ open /\ chunk # <<>>
  /\ queue' = SubSeq(queue, Len(chunk) + 1, Len(queue))
  /\ chunk' = <<>>
  /\ UNCHANGED <<open, put>>

Take ==     \* copied and removed in one step
  /\ open /\ chunk = <<>>
  /\ \E n \in 1..Len(queue) : queue' = SubSeq(queue, n + 1, Len(queue))
  /\ UNCHANGED <<open, chunk, put>>

Next == Open \/ Close \/ Put \/ Copy \/ Remove \/ Take

Spec == Init /\ [][Next]_vars
=============================================================================
