----------------------------- MODULE EventStore -----------------------------
(***************************************************************************)
(* What the event log promises: a bounded durable sequence of events.  An  *)
(* event handed to it is appended exactly once, unless the log is full or  *)
(* the power fails first; nothing else is ever appended and the log is     *)
(* only ever shortened by clearing it.  The promise is suspended while     *)
(* the menu disturbs a save and holds again, for the sequence the log then *)
(* has, once the log is synchronised.                                      *)
(***************************************************************************)
EXTENDS Integers, Sequences

CONSTANTS Event, NoEvent, MaxEventCount

VARIABLES
  log,      \* the durable sequence of events
  pending,  \* what is asked for and not yet durable
  up,       \* the unit has power
  trusted   \* the promise is not suspended

vars == <<log, pending, up, trusted>>

Request(kind, e) == [kind |-> kind, event |-> e]
Nothing == Request("nothing", NoEvent)

Init == log = <<>> /\ pending = Nothing /\ up = FALSE /\ trusted = TRUE

PowerUp == /\ ~up /\ up'
           /\ trusted' = TRUE /\ pending' = Nothing
           /\ UNCHANGED log

(* A request that is not durable yet is lost with the power, nothing else. *)
PowerDown == /\ up /\ ~up'
             /\ pending' = Nothing
             /\ UNCHANGED <<log, trusted>>

(* Requests are made one at a time, an append only while there is room.    *)
Ask(r) ==
  /\ up /\ trusted /\ pending = Nothing
  /\ r.kind = "append" => Len(log) < MaxEventCount
  /\ pending' = r
  /\ UNCHANGED <<log, up, trusted>>

Commit ==
  /\ up /\ trusted
  /\ \/ pending.kind = "append" /\ log' = Append(log, pending.event)
     \/ pending.kind = "clear" /\ log' = <<>>
  /\ pending' = Nothing
  /\ UNCHANGED <<up, trusted>>

(* The menu clears the log at once.                                        *)
ClearNow == /\ up /\ pending = Nothing
            /\ log' = <<>> /\ trusted' = TRUE
            /\ UNCHANGED <<pending, up>>

(* The promise is suspended: anything may become of log and request.       *)
Suspend ==
  /\ up /\ ~trusted'
  /\ log' \in Seq(Event \cup {NoEvent}) /\ Len(log') <= MaxEventCount
  /\ pending' = Nothing
  /\ UNCHANGED up

(* Synchronised again: the log is what it is, no request is left.          *)
Resume == /\ up /\ ~trusted /\ trusted'
          /\ pending' = Nothing
          /\ UNCHANGED <<log, up>>

Requests == {Request("append", e) : e \in Event} \cup {Request("clear", NoEvent)}

Next == \/ PowerUp \/ PowerDown
        \/ \E r \in Requests : Ask(r)
        \/ Commit \/ ClearNow \/ Suspend \/ Resume

Spec == Init /\ [][Next]_vars
=============================================================================
