-------------------------------- MODULE ChatRoom --------------------------------
(***************************************************************************)
(* What the chat server promises to the people in a room, abstracted from  *)
(* queues, sockets and handlers of chat/chat_server.cpp.                   *)
(*                                                                         *)
(* A room is one shared log.  A person who joins is given a window on that *)
(* log: it starts at most MaxRecent messages before the end, its upper end *)
(* follows the log for as long as the person is in the room, and the       *)
(* person receives the messages of the window one by one, from the first   *)
(* on.  Nobody therefore sees a gap, a duplicate, or two messages in an    *)
(* order that differs from somebody else's.                                *)
(***************************************************************************)
EXTENDS Naturals, Sequences

CONSTANTS
  Session,    \* the people who may join, each at most once
  Msg,        \* messages
  MaxRecent   \* max_recent_msgs: length of the history shown on joining

VARIABLES
  log,        \* every message published in the room, in order
  status,     \* status[s]: "new", "in" the room, or "out" of it
  base,       \* the window of s is log[base[s] + 1 .. upto[s]]
  upto,
  received    \* received[s]: the messages that reached s, in order

roomVars == <<log, status, base, upto, received>>

HistoryLength == IF Len(log) < MaxRecent THEN Len(log) ELSE MaxRecent

Init ==
  /\ log = << >>
  /\ status = [s \in Session |-> "new"]
  /\ base = [s \in Session |-> 0]
  /\ upto = [s \in Session |-> 0]
  /\ received = [s \in Session |-> << >>]

Join(s) ==
  /\ status[s] = "new"
  /\ status' = [status EXCEPT ![s] = "in"]
  /\ base' = [base EXCEPT ![s] = Len(log) - HistoryLength]
  /\ upto' = [upto EXCEPT ![s] = Len(log)]
  /\ UNCHANGED <<log, received>>

Turnaway(s) ==
  /\ status[s] = "new"
  /\ status' = [status EXCEPT ![s] = "out"]
  /\ UNCHANGED <<log, base, upto, received>>

Leave(s) ==
  /\ status[s] = "in"
  /\ status' = [status EXCEPT ![s] = "out"]
  /\ UNCHANGED <<log, base, upto, received>>

(* The publisher need not be in the room: a session whose write failed has  *)
(* left it and still reads what its peer had sent before.                   *)
Publish(m) ==
  /\ log' = Append(log, m)
  /\ upto' = [s \in Session |-> IF status[s] = "in" THEN Len(log) + 1 ELSE upto[s]]
  /\ UNCHANGED <<status, base, received>>

Receive(s) ==
  /\ base[s] + Len(received[s]) < upto[s]
  /\ received' = [received EXCEPT ![s] =
                    Append(@, log[base[s] + Len(received[s]) + 1])]
  /\ UNCHANGED <<log, status, base, upto>>

Next ==
  \/ \E s \in Session : Join(s) \/ Turnaway(s) \/ Leave(s) \/ Receive(s)
  \/ \E m \in Msg : Publish(m)

Spec == Init /\ [][Next]_roomVars

=============================================================================
