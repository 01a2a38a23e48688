-------------------------------- MODULE ChatSystem --------------------------------
(***************************************************************************)
(* chat/chat_server.cpp with chat/chat_client.cpp as one of its peers, and *)
(* the TCP connection between the two: what the kernel takes from one is   *)
(* in the inbox of the other, and closing the client's socket is the end   *)
(* of the session's stream, or a reset of it.                              *)
(***************************************************************************)
EXTENDS ChatServer

CONSTANTS
  Me,         \* the connection of the ChatClient
  Endpoints,  \* see ChatClient
  MaxLines

Lines == 1 .. MaxLines   \* the lines typed into the client are messages

ASSUME SystemAssumption ==
  /\ Me \in Responsive
  /\ Endpoints \in Nat \ {0} /\ MaxLines \in Nat
  /\ Lines \subseteq Msg

VARIABLES
  main, typed, posted, running, endpoint, connect, sock,  \* as in ChatClient
  cReading, cQueue, cWriting, responsive, cPeer, cInbox, cFrames, cWire

clientVars == <<main, typed, posted, running, endpoint, connect, sock,
                cReading, cQueue, cWriting, responsive, cPeer, cInbox, cFrames, cWire>>
systemVars == <<vars, clientVars>>

Client ==
  INSTANCE ChatClient WITH
    MaxFrames <- MaxFrames, frames <- cFrames, wire <- cWire,
    reading <- cReading, writeMsgs <- cQueue, writing <- cWriting,
    peer <- cPeer, inbox <- cInbox

(* The server always reads: nothing in its read loop waits for a write.     *)
SystemInit == Init /\ Client!Init /\ responsive

-----------------------------------------------------------------------------
(* The connection *)

Connects == PeerConnect(Me) /\ Client!Reached

(* What the client's kernel has taken is in the session's inbox; what comes *)
(* after the session has stopped reading is never looked at.                *)
LineSent ==
  /\ Client!WireWrite
  /\ IF reading[Me] = "over" THEN UNCHANGED vars ELSE PeerSend(Me, Head(cQueue))

MessageSent ==
  /\ WireWrite(Me)
  /\ IF sock = "connected" THEN Client!ServerSend("msg") ELSE UNCHANGED clientVars

(* The client closes its socket, connected or not.  There is no step for    *)
(* the server's closing: it reads what this client sends, and a session is  *)
(* over only when its connection is.                                        *)
ClientCloses ==
  /\ IF sock = "connected" /\ conn[Me] = "up"
     THEN PeerShutdown(Me) \/ PeerReset(Me)
     ELSE UNCHANGED vars
  /\ Client!RunClose \/ Client!ReadFailed \/ Client!WriteFailed

(* The connection breaks, or data has reached a socket already closed. *)
Breaks ==
  /\ PeerReset(Me)
  /\ IF sock = "connected" THEN Client!ServerLeave("reset") ELSE UNCHANGED clientVars

-----------------------------------------------------------------------------

(* Bound: of MaxFrames messages, whoever says them, some are still unsaid.  *)
MoreToSay == frames + typed - Len(cWire) < MaxFrames

Typing == ((MoreToSay /\ Client!TypeLine) \/ Client!EndOfInput) /\ UNCHANGED vars

ClientAlone ==
  /\ \/ Client!JoinThread \/ Client!RunWrite \/ Client!Refused \/ Client!Connect
     \/ Client!HeaderRead \/ Client!BodyRead
     \/ Client!WireError \/ Client!Written \/ Client!RunReturns
  /\ UNCHANGED vars

(* The other peers talk and vanish, and never read: the worst company.      *)
Other(s) ==
  /\ \/ PeerConnect(s) \/ PeerReset(s)
     \/ MoreToSay /\ \E m \in Msg \ Lines : PeerSend(s, m)
  /\ UNCHANGED clientVars

ServerAlone ==
  /\ \E s \in Session :
       \/ Accept(s) \/ AcceptFailed(s) \/ ReadStep(s)
       \/ WireError(s) \/ Written(s) \/ WriteFailed(s)
  /\ UNCHANGED clientVars

(* What the two programs and the kernels do of themselves. *)
Progress ==
  \/ Connects \/ LineSent \/ MessageSent \/ ClientCloses
  \/ ClientAlone \/ ServerAlone

SystemNext == Progress \/ Typing \/ Breaks \/ \E s \in Session \ {Me} : Other(s)

(* Both run() calls execute every handler that is ready, attempts to        *)
(* connect end, and as both ends of the connection read, both may write.    *)
(* Every step uses up something - a line, a frame, an operation - so that   *)
(* fairness of them all together is fairness of each.                       *)
SystemSpec == SystemInit /\ [][SystemNext]_systemVars /\ WF_systemVars(Progress)

-----------------------------------------------------------------------------

(* What the client's lines are after n messages of the conversation.        *)
Heard(n) == {log[i] : i \in 1 .. n} \cap Lines

(* From the keyboard to the room, through the posted functions, two queues  *)
(* and the stream: a line is in the conversation only when it was sent, and *)
(* the lines before the n-th are the lines 1 to n - 1 - so that the room    *)
(* hears the client's lines once each, in order, without a gap.             *)
RoomHearsInOrder ==
  \A i \in 1 .. Len(log) : log[i] \in Lines =>
    /\ log[i] \in 1 .. Len(cWire) /\ cWire[log[i]] = log[i]
    /\ Heard(i - 1) = 1 .. log[i] - 1

(* What a peer gets of the client's lines, from its join on: some of them   *)
(* that follow each other, in order.                                        *)
PeersHearInOrder ==
  \A s \in Session : \A i, j \in 1 .. Len(wire[s]) :
    i < j /\ wire[s][i] \in Lines /\ wire[s][j] \in Lines =>
      /\ wire[s][i] < wire[s][j]
      /\ \A n \in wire[s][i] .. wire[s][j] : \E k \in i .. j : wire[s][k] = n

(* A line typed is said in the room, unless the client's socket is closed   *)
(* first or its second thread is done.                                      *)
LinesAreSaid ==
  \A n \in Lines :
    typed >= n ~> \/ \E i \in 1 .. Len(log) : log[i] = n
                  \/ sock = "closed" \/ ~running

(* Both programs rest, and the connection between them does. *)
SystemRests == ServerRests /\ Client!Rests

(* When the two programs rest, the client does not wait in join(), and as   *)
(* long as it is in its conversation nothing is on the way: every line that *)
(* was typed was said in the room, and all that was said there since the    *)
(* client joined was written to it and read by it.                          *)
NothingOnTheWay ==
  SystemRests =>
    /\ main # "joining"
    /\ running =>
         /\ \A n \in 1 .. typed : \E i \in 1 .. Len(log) : log[i] = n
         /\ Me \in participants /\ base[Me] + Len(wire[Me]) = Len(log) /\ cInbox = << >>

-----------------------------------------------------------------------------
(* While the session reads, what the client's kernel has taken was said in  *)
(* the room or is in the session's inbox, line by line.                     *)
Stream ==
  reading[Me] # "over" =>
    LET heard == Len(cWire) - Len(inbox[Me])
    IN  /\ heard >= 0 /\ Heard(Len(log)) = 1 .. heard
        /\ \A i \in 1 .. Len(inbox[Me]) : inbox[Me][i] = heard + i

(* Nobody else says what the client typed. *)
OthersSayOther ==
  \A s \in Session \ {Me} : \A i \in 1 .. Len(inbox[s]) : inbox[s][i] \notin Lines

(* The two ends of the connection: the server's has ended only if the       *)
(* client's socket is closed or was reset; both ends read what they are     *)
(* sent, the session until its end of the connection has ended.             *)
Linked ==
  /\ responsive
  /\ sock \in {"connecting", "failed"} => conn[Me] = "absent"
  /\ sock = "connected" => conn[Me] # "absent"
  /\ conn[Me] \in {"half", "reset"} => sock = "closed" \/ cPeer = "reset"
  /\ reading[Me] = "over" => conn[Me] \in {"half", "reset"}

(* The server sends whole messages. *)
Whole == \A i \in 1 .. Len(cInbox) : cInbox[i] = "msg"

(* What is typed fits the bound; the inductive invariant of the proofs adds *)
(* to that of the server and that of the client what relates the two.       *)
SystemInv ==
  /\ IInv /\ Client!IInv
  /\ typed <= MaxLines
  /\ Stream /\ OthersSayOther /\ RoomHearsInOrder

=============================================================================
