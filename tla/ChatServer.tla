------------------------------- MODULE ChatServer -------------------------------
(***************************************************************************)
(* The chat server, chat/chat_server.cpp: chat_room, chat_session and      *)
(* chat_server on one port, with the TCP connections of its peers.         *)
(*                                                                         *)
(* main() runs io_context.run() on one thread, so each completion handler  *)
(* is one atomic action; what interleaves with the handlers is the peers   *)
(* and the kernel.  A connection is named by a member of Session and is    *)
(* accepted at most once.  A read operation completes when its handler     *)
(* runs (until then its data stays in the inbox); a write completes in the *)
(* kernel first, and its handler runs later: in between the peer may have  *)
(* the message and react, while _write_msgs still holds it.                *)
(*                                                                         *)
(* A peer's byte stream is what decode_header makes of it: a sequence of   *)
(* messages, possibly ended by a header that is refused (BadHeader, see    *)
(* ChatMessage) or by a body that never arrives in full (ShortBody).       *)
(***************************************************************************)
EXTENDS Naturals, Sequences

CONSTANTS
  Session,     \* connections
  Msg,         \* messages: accepted header and whole body
  BadHeader,   \* a header that decode_header refuses
  ShortBody,   \* an accepted header whose body is cut off
  MaxRecent,   \* max_recent_msgs
  MaxFrames,   \* bound: frames sent by all the peers together
  Responsive   \* peers that keep reading what is sent to them

ASSUME ServerAssumption ==
  /\ MaxRecent \in Nat \ {0}
  /\ MaxFrames \in Nat
  /\ Responsive \subseteq Session
  /\ BadHeader \notin Msg /\ ShortBody \notin Msg /\ BadHeader # ShortBody

Frame == Msg \cup {BadHeader, ShortBody}

VARIABLES
  conn,          \* peers: "absent", "up", "half" (sent FIN), "reset"
  inbox,         \* inbox[s]: frames sent by the peer and not yet read
  frames,        \* number of frames sent by all the peers
  accepting,     \* an async_accept is outstanding
  participants,  \* chat_room::_participants
  recent,        \* chat_room::_recent_msgs
  reading,       \* outstanding read of the session: "none" (not accepted),
                 \*   "header", "body", "over" (no read was started again)
  writeMsgs,     \* chat_session::_write_msgs
  writing,       \* its async_write: "idle", "pending", "done", "failed"
  writes,        \* how many of its async_writes have a handler yet to run
  log,           \* history: every message delivered to the room
  base,          \* history: where in the log the session's messages start
  wire           \* history: messages written to the peer's socket

peerVars    == <<conn, inbox, frames>>
roomVars    == <<participants, recent, log>>
writeVars   == <<writeMsgs, writing, writes>>
vars == <<peerVars, accepting, roomVars, reading, writeVars, base, wire>>

Init ==
  /\ conn = [s \in Session |-> "absent"]
  /\ inbox = [s \in Session |-> << >>]
  /\ frames = 0
  /\ accepting = TRUE
  /\ participants = {}
  /\ recent = << >>
  /\ reading = [s \in Session |-> "none"]
  /\ writeMsgs = [s \in Session |-> << >>]
  /\ writing = [s \in Session |-> "idle"]
  /\ writes = [s \in Session |-> 0]
  /\ log = << >>
  /\ base = [s \in Session |-> 0]
  /\ wire = [s \in Session |-> << >>]

-----------------------------------------------------------------------------
(* The peers and the network. *)

PeerConnect(s) ==
  /\ conn[s] = "absent"
  /\ conn' = [conn EXCEPT ![s] = "up"]
  /\ UNCHANGED <<inbox, frames, accepting, roomVars, reading, writeVars, base, wire>>

(* What arrives after the session stopped reading is never looked at. *)
PeerSend(s, f) ==
  /\ conn[s] = "up" /\ reading[s] # "over"
  /\ frames < MaxFrames
  /\ \A i \in 1 .. Len(inbox[s]) : inbox[s][i] # ShortBody
  /\ inbox' = [inbox EXCEPT ![s] = Append(@, f)]
  /\ frames' = frames + 1
  /\ UNCHANGED <<conn, accepting, roomVars, reading, writeVars, base, wire>>

PeerShutdown(s) ==
  /\ conn[s] = "up"
  /\ conn' = [conn EXCEPT ![s] = "half"]
  /\ UNCHANGED <<inbox, frames, accepting, roomVars, reading, writeVars, base, wire>>

PeerReset(s) ==
  /\ conn[s] \in {"up", "half"}
  /\ conn' = [conn EXCEPT ![s] = "reset"]
  /\ UNCHANGED <<inbox, frames, accepting, roomVars, reading, writeVars, base, wire>>

-----------------------------------------------------------------------------
(* chat_room *)

(* Mutant: pop_front while size() >= max_recent_msgs. *)
RememberOneLess(m) ==
  LET q == Append(recent, m)
  IN  IF Len(q) >= MaxRecent THEN SubSeq(q, Len(q) - MaxRecent + 2, Len(q)) ELSE q

(* push_back, then pop_front down to max_recent_msgs. *)
Remember(m) ==
  LET q == Append(recent, m)
  IN  IF Len(q) > MaxRecent THEN SubSeq(q, Len(q) - MaxRecent + 1, Len(q)) ELSE q

(* Mutant: write_in_progress is not looked at. *)
DeliverAlwaysWrites(m) ==
  /\ recent' = Remember(m)
  /\ log' = Append(log, m)
  /\ writeMsgs' = [s \in Session |->
                     IF s \in participants THEN Append(writeMsgs[s], m) ELSE writeMsgs[s]]
  /\ writing' = [s \in Session |-> IF s \in participants THEN "pending" ELSE writing[s]]
  /\ writes' = [s \in Session |-> IF s \in participants THEN writes[s] + 1 ELSE writes[s]]
  /\ UNCHANGED participants

(* Whose delivery starts a write: where write_in_progress is false.         *)
Starts(s) == s \in participants /\ writeMsgs[s] = << >>

(* chat_room::deliver, with chat_session::deliver for every participant.    *)
Deliver(m) ==
  /\ recent' = Remember(m)
  /\ log' = Append(log, m)
  /\ writeMsgs' = [s \in Session |->
                     IF s \in participants THEN Append(writeMsgs[s], m) ELSE writeMsgs[s]]
  /\ writing' = [s \in Session |-> IF Starts(s) THEN "pending" ELSE writing[s]]
  /\ writes' = [s \in Session |-> IF Starts(s) THEN writes[s] + 1 ELSE writes[s]]
  /\ UNCHANGED participants

(* Mutant: a session that fails stays in the room. *)
LeaveNobody(s) == UNCHANGED participants

Leave(s) == participants' = participants \ {s}

-----------------------------------------------------------------------------
(* chat_server *)

(* The accept handler: make_shared<chat_session>, start() - join the room   *)
(* (which delivers the recent messages one by one, starting a write with    *)
(* the first of them), read the first header - then do_accept again.        *)
Accept(s) ==
  /\ accepting
  /\ conn[s] # "absent" /\ reading[s] = "none"
  /\ participants' = participants \cup {s}
  /\ writeMsgs' = [writeMsgs EXCEPT ![s] = recent]
  /\ writing' = [writing EXCEPT ![s] = IF recent = << >> THEN "idle" ELSE "pending"]
  /\ writes' = [writes EXCEPT ![s] = IF recent = << >> THEN @ ELSE @ + 1]
  /\ reading' = [reading EXCEPT ![s] = "header"]
  /\ base' = [base EXCEPT ![s] = Len(log) - Len(recent)]
  /\ accepting' = TRUE
  /\ UNCHANGED <<peerVars, recent, log, wire>>

(* Mutant: an error ends the accept loop. *)
AcceptFailedForGood(s) ==
  /\ accepting
  /\ conn[s] = "reset" /\ reading[s] = "none"
  /\ reading' = [reading EXCEPT ![s] = "over"]
  /\ accepting' = FALSE
  /\ UNCHANGED <<peerVars, roomVars, writeVars, base, wire>>

(* The connection was reset in the backlog: accept fails with an error. *)
AcceptFailed(s) ==
  /\ accepting
  /\ conn[s] = "reset" /\ reading[s] = "none"
  /\ reading' = [reading EXCEPT ![s] = "over"]
  /\ accepting' = TRUE
  /\ UNCHANGED <<peerVars, roomVars, writeVars, base, wire>>

-----------------------------------------------------------------------------
(* chat_session: the read loop *)

HeaderRead(s) ==
  /\ reading[s] = "header"
  /\ inbox[s] # << >> /\ Head(inbox[s]) # BadHeader
  /\ reading' = [reading EXCEPT ![s] = "body"]
  /\ UNCHANGED <<peerVars, accepting, roomVars, writeVars, base, wire>>

(* decode_header returns false, or the read ends with an error: end of      *)
(* stream, or a reset (which may overtake data still in the inbox).         *)
HeaderFailed(s) ==
  /\ reading[s] = "header"
  /\ \/ inbox[s] # << >> /\ Head(inbox[s]) = BadHeader
     \/ conn[s] = "half" /\ inbox[s] = << >>
     \/ conn[s] = "reset"
  /\ reading' = [reading EXCEPT ![s] = "over"]
  /\ Leave(s)
  /\ UNCHANGED <<peerVars, accepting, recent, log, writeVars, base, wire>>

BodyRead(s) ==
  /\ reading[s] = "body"
  /\ inbox[s] # << >> /\ Head(inbox[s]) \in Msg
  /\ Deliver(Head(inbox[s]))
  /\ inbox' = [inbox EXCEPT ![s] = Tail(@)]
  /\ reading' = [reading EXCEPT ![s] = "header"]
  /\ UNCHANGED <<conn, frames, accepting, base, wire>>

BodyFailed(s) ==
  /\ reading[s] = "body"
  /\ \/ conn[s] = "half" /\ Head(inbox[s]) = ShortBody
     \/ conn[s] = "reset"
  /\ reading' = [reading EXCEPT ![s] = "over"]
  /\ Leave(s)
  /\ UNCHANGED <<peerVars, accepting, recent, log, writeVars, base, wire>>

ReadStep(s) == HeaderRead(s) \/ HeaderFailed(s) \/ BodyRead(s) \/ BodyFailed(s)

-----------------------------------------------------------------------------
(* chat_session: the write loop.  The buffer of the outstanding async_write *)
(* is the front of _write_msgs.                                             *)

(* The kernel has taken the whole buffer. *)
WireWrite(s) ==
  /\ writing[s] = "pending" /\ conn[s] # "reset"
  /\ wire' = [wire EXCEPT ![s] = Append(@, Head(writeMsgs[s]))]
  /\ writing' = [writing EXCEPT ![s] = "done"]
  /\ UNCHANGED <<peerVars, accepting, roomVars, reading, writeMsgs, writes, base>>

WireError(s) ==
  /\ writing[s] = "pending" /\ conn[s] = "reset"
  /\ writing' = [writing EXCEPT ![s] = "failed"]
  /\ UNCHANGED <<peerVars, accepting, roomVars, reading, writeMsgs, writes, base, wire>>

(* Mutant: the write handler does not go on with the rest of the queue. *)
WrittenOnce(s) ==
  /\ writing[s] = "done"
  /\ writeMsgs' = [writeMsgs EXCEPT ![s] = Tail(@)]
  /\ writing' = [writing EXCEPT ![s] = "idle"]
  /\ writes' = [writes EXCEPT ![s] = @ - 1]
  /\ UNCHANGED <<peerVars, accepting, roomVars, reading, base, wire>>

Written(s) ==
  /\ writing[s] = "done"
  /\ writeMsgs' = [writeMsgs EXCEPT ![s] = Tail(@)]
  /\ writing' = [writing EXCEPT ![s] = IF Tail(writeMsgs[s]) = << >> THEN "idle" ELSE "pending"]
  /\ writes' = [writes EXCEPT ![s] = IF Tail(writeMsgs[s]) = << >> THEN @ - 1 ELSE @]
  /\ UNCHANGED <<peerVars, accepting, roomVars, reading, base, wire>>

WriteFailed(s) ==
  /\ writing[s] = "failed"
  /\ writing' = [writing EXCEPT ![s] = "idle"]
  /\ writes' = [writes EXCEPT ![s] = @ - 1]
  /\ Leave(s)
  /\ UNCHANGED <<peerVars, accepting, recent, log, reading, writeMsgs, base, wire>>

-----------------------------------------------------------------------------

Peer(s) ==
  \/ PeerConnect(s) \/ PeerShutdown(s) \/ PeerReset(s)
  \/ \E f \in Frame : PeerSend(s, f)

Server(s) ==
  \/ Accept(s) \/ AcceptFailed(s)
  \/ ReadStep(s)
  \/ WireWrite(s) \/ WireError(s) \/ Written(s) \/ WriteFailed(s)

Next == \E s \in Session : Peer(s) \/ Server(s)

(* io_context.run() executes every handler that is ready, and a broken      *)
(* connection is reported.  Only a responsive peer makes room for more.     *)
Fairness ==
  /\ \A s \in Session :
       /\ WF_vars(Accept(s) \/ AcceptFailed(s))
       /\ WF_vars(ReadStep(s))
       /\ WF_vars(WireError(s))
       /\ WF_vars(Written(s))
       /\ WF_vars(WriteFailed(s))
  /\ \A s \in Responsive : WF_vars(WireWrite(s))

Spec == Init /\ [][Next]_vars /\ Fairness

-----------------------------------------------------------------------------
(* Properties *)

TypeOK ==
  /\ conn \in [Session -> {"absent", "up", "half", "reset"}]
  /\ inbox \in [Session -> Seq(Frame)]
  /\ frames \in Nat
  /\ accepting \in BOOLEAN
  /\ participants \in SUBSET Session
  /\ recent \in Seq(Msg)
  /\ reading \in [Session -> {"none", "header", "body", "over"}]
  /\ writeMsgs \in [Session -> Seq(Msg)]
  /\ writing \in [Session -> {"idle", "pending", "done", "failed"}]
  /\ writes \in [Session -> Nat]
  /\ log \in Seq(Msg)
  /\ base \in [Session -> Nat]
  /\ wire \in [Session -> Seq(Msg)]

(* Messages of s whose write handler has run: they left _write_msgs. *)
Popped(s) == IF writing[s] = "done" THEN Len(wire[s]) - 1 ELSE Len(wire[s])

(* No socket ever has two async_writes under way, in the room or after      *)
(* leaving it, and a session in the room has one exactly while it has       *)
(* messages to send: the test of write_in_progress in deliver(), the one of *)
(* empty() in the write handler and the end of the loop on an error never   *)
(* start a second write and never lose the wake-up.                         *)
WriteDiscipline ==
  \A s \in Session :
    /\ writes[s] <= 1
    /\ s \in participants => (writes[s] = 1 <=> writeMsgs[s] # << >>)

(* _recent_msgs is the end of everything that was said, at most MaxRecent   *)
(* messages of it: what a newcomer is shown by join().                      *)
HistoryIsTail ==
  /\ Len(recent) = IF Len(log) < MaxRecent THEN Len(log) ELSE MaxRecent
  /\ \A i \in 1 .. Len(recent) : recent[i] = log[Len(log) - Len(recent) + i]

(* Where the queue of s ends in the log. *)
Upto(s) == base[s] + Popped(s) + Len(writeMsgs[s])

ViewIsSegment(s) ==
  /\ Upto(s) <= Len(log)
  /\ s \in participants => Upto(s) = Len(log)
  /\ \A i \in 1 .. Len(wire[s]) : wire[s][i] = log[base[s] + i]
  /\ \A i \in 1 .. Len(writeMsgs[s]) :
       writeMsgs[s][i] = log[base[s] + Popped(s) + i]

(* What the peer of s got, and then what is still queued for it, is one     *)
(* contiguous piece of the room's conversation - no gap, duplicate or       *)
(* reordering, across the joins, leaves and failed writes of the others -   *)
(* and it reaches up to the latest message while s is in the room.          *)
ContiguousView == \A s \in Session : ViewIsSegment(s)

(* The server implements the abstract room: joins, leaves and deliveries of *)
(* the code are those of ChatRoom, and everything else is invisible to it.  *)
RoomStatus(s) ==
  IF s \in participants THEN "in" ELSE IF reading[s] = "none" THEN "new" ELSE "out"

Room == INSTANCE ChatRoom WITH
  status   <- [s \in Session |-> RoomStatus(s)],
  upto     <- [s \in Session |-> Upto(s)],
  received <- wire

ImplementsRoom == Room!Spec

(* The shared_ptr to a session: held by the room and by the handlers of its *)
(* outstanding operations.  The socket is closed when nobody holds it.      *)
Alive(s) ==
  \/ s \in participants
  \/ reading[s] \in {"header", "body"}
  \/ writing[s] # "idle"

(* Every message said while s is in the room reaches the peer of s, or s    *)
(* leaves; peers that stopped reading hold nobody else up.                  *)
EverybodyHears ==
  \A s \in Responsive : \A n \in 1 .. MaxFrames :
    (s \in participants /\ Len(log) >= n)
      ~> (s \notin participants \/ base[s] + Len(wire[s]) >= n)

(* Every connection is eventually looked at: an accept that failed does not *)
(* stop the server from accepting the next one.                             *)
EverybodyIsServed ==
  \A s \in Session : conn[s] # "absent" ~> reading[s] # "none"

(* No session outlives its connection: after a reset - or after the end of  *)
(* the stream, once a responsive peer has been sent what was queued for it  *)
(* - the room and all handlers let go of it and its socket is closed.       *)
SessionsAreReleased ==
  /\ \A s \in Session :
       conn[s] = "reset" ~> (reading[s] = "over" /\ ~Alive(s))
  /\ \A s \in Responsive :
       conn[s] = "half" ~> (reading[s] = "over" /\ ~Alive(s))

(* Nothing is left to the server and to the kernel: no handler is ready,    *)
(* and a write waits only for a peer that has stopped reading.              *)
ServerRests ==
  \A s \in Session :
    /\ conn[s] # "absent" /\ accepting => reading[s] # "none"
    /\ reading[s] = "header" => inbox[s] = << >> /\ conn[s] \notin {"half", "reset"}
    /\ reading[s] = "body" =>
         /\ conn[s] # "reset"
         /\ inbox[s] # << >> => Head(inbox[s]) \notin Msg
         /\ conn[s] = "half" => Head(inbox[s]) # ShortBody
    /\ writing[s] \notin {"done", "failed"}
    /\ writing[s] = "pending" => conn[s] # "reset" /\ s \notin Responsive

(* When the server rests, nothing was forgotten: every connection was       *)
(* looked at; a session that still reads is in the room, every whole        *)
(* message it was sent was delivered, and its peer, if it reads, has all    *)
(* that was said since it joined; and the sessions of connections that      *)
(* ended are gone, but for those whose write waits for a peer that does not *)
(* read.                                                                    *)
RestsWhenDone ==
  ServerRests =>
    \A s \in Session :
      /\ conn[s] # "absent" => reading[s] # "none"
      /\ reading[s] \in {"header", "body"} =>
           /\ s \in participants
           /\ \A i \in 1 .. Len(inbox[s]) : inbox[s][i] \notin Msg
           /\ s \in Responsive => writeMsgs[s] = << >> /\ base[s] + Len(wire[s]) = Len(log)
      /\ conn[s] = "reset" \/ (conn[s] = "half" /\ s \in Responsive) =>
           reading[s] = "over" /\ ~Alive(s)

-----------------------------------------------------------------------------
(* A connection that was not accepted has no trace in the server, and an    *)
(* async_write always has a front of _write_msgs to write from.             *)
ShapeOK(s) ==
  /\ reading[s] = "none" =>
       /\ s \notin participants
       /\ writing[s] = "idle" /\ writeMsgs[s] = << >> /\ wire[s] = << >>
  /\ writing[s] # "idle" => writeMsgs[s] # << >>
  /\ writing[s] = "done" => wire[s] # << >>

SessionShape == \A s \in Session : ShapeOK(s)

(* The write loop stands still exactly when nothing is queued, ...          *)
WriteLoop == \A s \in participants : writing[s] = "idle" <=> writeMsgs[s] = << >>

(* ... and the state of the loop stands for all the writes that were        *)
(* started: none, or one.                                                   *)
WritesCounted == writes = [s \in Session |-> IF writing[s] = "idle" THEN 0 ELSE 1]

(* The inductive invariant of the proofs. *)
IInv ==
  /\ TypeOK /\ SessionShape
  /\ WriteLoop /\ WritesCounted
  /\ HistoryIsTail /\ ContiguousView

(* Who is in the room reads, and who reads is in the room until a write     *)
(* fails; a session in the middle of a message has its header at the front  *)
(* of the inbox; and nothing follows a body cut off.                        *)
ReadsOn(s) ==
  /\ s \in participants => reading[s] \in {"header", "body"}
  /\ reading[s] \in {"header", "body"} => s \in participants \/ conn[s] = "reset"
  /\ writing[s] = "failed" => conn[s] = "reset"
  /\ reading[s] = "body" => inbox[s] # << >> /\ Head(inbox[s]) # BadHeader
  /\ \A i \in 1 .. Len(inbox[s]) - 1 : inbox[s][i] # ShortBody

ServerOwes == accepting /\ \A s \in Session : ReadsOn(s)

=============================================================================
