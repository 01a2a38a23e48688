------------------------------- MODULE ChatClient -------------------------------
(***************************************************************************)
(* The chat client, chat/chat_client.cpp.                                  *)
(*                                                                         *)
(* Two threads.  main reads lines and posts them to the io_context, then   *)
(* posts close() and joins; the other thread is in io_context.run(), which *)
(* executes one handler at a time - the functions posted by main, in       *)
(* order, and the completions of connect, read and write - and returns for *)
(* good as soon as there is neither a handler nor an outstanding operation *)
(* left.                                                                   *)
(*                                                                         *)
(* async_connect tries the endpoints one after the other.  A write started *)
(* meanwhile waits in the socket for the attempt under way and shares its  *)
(* fate: refused, or cancelled when the next attempt reopens the socket.   *)
(* The line typed as the n-th is the number n.                             *)
(***************************************************************************)
EXTENDS Naturals, Sequences

CONSTANTS
  Endpoints,    \* number of addresses that the host name resolves to
  MaxLines,     \* bound: lines typed
  MaxFrames     \* bound: frames sent by the server

ASSUME ClientAssumption ==
  /\ Endpoints \in Nat \ {0}
  /\ MaxLines \in Nat /\ MaxFrames \in Nat

Close == 0                      \* the function posted by close()

(* A message, one whose body is cut off, or a header that is refused. *)
Frame == {"msg", "short", "bad"}

VARIABLES
  main,       \* main thread: "typing", "joining", "exited"
  typed,      \* lines typed so far
  posted,     \* functions posted by main and not yet executed
  running,    \* the other thread is still in io_context.run()
  endpoint,   \* the attempt async_connect is at
  connect,    \* that attempt: "pending", "up", "refused"; "over": the handler ran
  sock,       \* _socket: "connecting", "connected", "failed", "closed"
  reading,    \* outstanding read: "none", "header", "body", "over"
  writeMsgs,  \* _write_msgs
  writing,    \* its async_write: "idle", "pending", "done", "failed"
  responsive, \* the server keeps reading what it is sent
  peer,       \* the server: "up", "half" (sent FIN), "reset"
  inbox,      \* frames sent by the server and not yet read
  frames,     \* number of frames sent by the server
  wire        \* history: lines written to the connection

mainVars    == <<main, typed>>
connectVars == <<endpoint, connect>>
writeVars   == <<writeMsgs, writing>>
serverVars  == <<responsive, peer, inbox, frames>>
vars == <<mainVars, posted, running, connectVars, sock, reading, writeVars,
          serverVars, wire>>

Init ==
  /\ main = "typing" /\ typed = 0
  /\ posted = << >>
  /\ running = TRUE
  /\ endpoint = 1 /\ connect = "pending"
  /\ sock = "connecting"
  /\ reading = "none"
  /\ writeMsgs = << >> /\ writing = "idle"
  /\ responsive \in BOOLEAN
  /\ peer = "up" /\ inbox = << >> /\ frames = 0
  /\ wire = << >>

-----------------------------------------------------------------------------
(* The main thread *)

(* getline, then write(): the message is copied into the posted function. *)
TypeLine ==
  /\ main = "typing" /\ typed < MaxLines
  /\ typed' = typed + 1
  /\ posted' = Append(posted, typed + 1)
  /\ UNCHANGED <<main, running, connectVars, sock, reading, writeVars, serverVars, wire>>

(* End of file, or a line longer than max_body_length. *)
EndOfInput ==
  /\ main = "typing"
  /\ main' = "joining"
  /\ posted' = Append(posted, Close)
  /\ UNCHANGED <<typed, running, connectVars, sock, reading, writeVars, serverVars, wire>>

JoinThread ==
  /\ main = "joining" /\ ~running
  /\ main' = "exited"
  /\ UNCHANGED <<typed, posted, running, connectVars, sock, reading, writeVars,
                 serverVars, wire>>

-----------------------------------------------------------------------------
(* The posted functions *)

(* Mutant: write_in_progress is not looked at. *)
RunWriteAlways ==
  /\ running /\ posted # << >> /\ Head(posted) # Close
  /\ posted' = Tail(posted)
  /\ writeMsgs' = Append(writeMsgs, Head(posted))
  /\ writing' = "pending"
  /\ UNCHANGED <<mainVars, running, connectVars, sock, reading, serverVars, wire>>

RunWrite ==
  /\ running /\ posted # << >> /\ Head(posted) # Close
  /\ posted' = Tail(posted)
  /\ writeMsgs' = Append(writeMsgs, Head(posted))
  /\ writing' = IF writeMsgs = << >> THEN "pending" ELSE writing
  /\ UNCHANGED <<mainVars, running, connectVars, sock, reading, serverVars, wire>>

(* Mutant: the posted function does not close the socket. *)
RunCloseNothing ==
  /\ running /\ posted # << >> /\ Head(posted) = Close
  /\ posted' = Tail(posted)
  /\ UNCHANGED <<mainVars, running, connectVars, sock, reading, writeVars, serverVars, wire>>

RunClose ==
  /\ running /\ posted # << >> /\ Head(posted) = Close
  /\ posted' = Tail(posted)
  /\ sock' = "closed"
  /\ UNCHANGED <<mainVars, running, connectVars, reading, writeVars, serverVars, wire>>

-----------------------------------------------------------------------------
(* async_connect over the endpoints, and the handler of do_connect *)

AttemptDone(outcome, s) ==
  /\ connect = "pending" /\ sock = "connecting"
  /\ connect' = outcome
  /\ sock' = s
  /\ UNCHANGED <<mainVars, posted, running, endpoint, reading, writeVars, serverVars, wire>>

Reached == AttemptDone("up", "connected")
Refused == AttemptDone("refused", "failed")

(* The next attempt closes the socket first: a write waiting in it fails. *)
NextAttempt ==
  /\ running /\ connect = "refused"
  /\ sock # "closed" /\ endpoint < Endpoints
  /\ endpoint' = endpoint + 1
  /\ connect' = "pending"
  /\ sock' = "connecting"
  /\ writing' = IF writing = "pending" THEN "failed" ELSE writing
  /\ UNCHANGED <<mainVars, posted, running, reading, writeMsgs, serverVars, wire>>

(* Mutant: the first endpoint that refuses is the last one tried. *)
ConnectFailedAtOnce ==
  /\ running
  /\ \/ connect = "refused"
     \/ connect \in {"pending", "up"} /\ sock = "closed"
  /\ connect' = "over"
  /\ UNCHANGED <<mainVars, posted, running, endpoint, sock, reading, writeVars,
                 serverVars, wire>>

(* The handler is told of an error and does nothing: no endpoint is left,   *)
(* or the socket was closed in the meantime.                                *)
ConnectFailed ==
  /\ running
  /\ \/ connect = "refused" /\ (sock = "closed" \/ endpoint = Endpoints)
     \/ connect \in {"pending", "up"} /\ sock = "closed"
  /\ connect' = "over"
  /\ UNCHANGED <<mainVars, posted, running, endpoint, sock, reading, writeVars,
                 serverVars, wire>>

Connected ==
  /\ running /\ connect = "up" /\ sock # "closed"
  /\ connect' = "over"
  /\ reading' = "header"
  /\ UNCHANGED <<mainVars, posted, running, endpoint, sock, writeVars, serverVars, wire>>

-----------------------------------------------------------------------------
(* The read loop *)

HeaderRead ==
  /\ running /\ reading = "header" /\ sock # "closed"
  /\ inbox # << >> /\ Head(inbox) # "bad"
  /\ reading' = "body"
  /\ UNCHANGED <<mainVars, posted, running, connectVars, sock, writeVars, serverVars, wire>>

BodyRead ==
  /\ running /\ reading = "body" /\ sock # "closed"
  /\ Head(inbox) = "msg"
  /\ inbox' = Tail(inbox)
  /\ reading' = "header"
  /\ UNCHANGED <<mainVars, posted, running, connectVars, sock, writeVars, responsive, peer,
                 frames, wire>>

(* Why reading ends: a refused header, the end of the stream - between two  *)
(* messages or within a body -, a reset, or operation_aborted.              *)
ReadEnds ==
  \/ reading = "header" /\ inbox # << >> /\ Head(inbox) = "bad"
  \/ reading = "header" /\ inbox = << >> /\ peer = "half"
  \/ reading = "body" /\ Head(inbox) = "short" /\ peer = "half"
  \/ reading \in {"header", "body"} /\ (peer = "reset" \/ sock = "closed")

(* Mutant: the socket stays open when reading ends. *)
ReadFailedOpen ==
  /\ running /\ ReadEnds
  /\ reading' = "over"
  /\ UNCHANGED <<mainVars, posted, running, connectVars, sock, writeVars, serverVars, wire>>

ReadFailed ==
  /\ running /\ ReadEnds
  /\ reading' = "over"
  /\ sock' = "closed"
  /\ UNCHANGED <<mainVars, posted, running, connectVars, writeVars, serverVars, wire>>

-----------------------------------------------------------------------------
(* The write loop *)

WireWrite ==
  /\ writing = "pending" /\ sock = "connected" /\ peer # "reset"
  /\ wire' = Append(wire, Head(writeMsgs))
  /\ writing' = "done"
  /\ UNCHANGED <<mainVars, posted, running, connectVars, sock, reading, writeMsgs, serverVars>>

WireError ==
  /\ writing = "pending"
  /\ sock \in {"failed", "closed"} \/ (sock = "connected" /\ peer = "reset")
  /\ writing' = "failed"
  /\ UNCHANGED <<mainVars, posted, running, connectVars, sock, reading, writeMsgs,
                 serverVars, wire>>

(* Mutant: the write handler does not go on with the rest of the queue. *)
WrittenOnce ==
  /\ running /\ writing = "done"
  /\ writeMsgs' = Tail(writeMsgs)
  /\ writing' = "idle"
  /\ UNCHANGED <<mainVars, posted, running, connectVars, sock, reading, serverVars, wire>>

Written ==
  /\ running /\ writing = "done"
  /\ writeMsgs' = Tail(writeMsgs)
  /\ writing' = IF Tail(writeMsgs) = << >> THEN "idle" ELSE "pending"
  /\ UNCHANGED <<mainVars, posted, running, connectVars, sock, reading, serverVars, wire>>

WriteFailed ==
  /\ running /\ writing = "failed"
  /\ writing' = "idle"
  /\ sock' = "closed"
  /\ UNCHANGED <<mainVars, posted, running, connectVars, reading, writeMsgs, serverVars, wire>>

-----------------------------------------------------------------------------
(* run() returns when it is out of work; what is posted later stays there.  *)
OutOfWork ==
  /\ posted = << >>
  /\ connect = "over" /\ reading \in {"none", "over"} /\ writing = "idle"

RunReturns ==
  /\ running /\ OutOfWork
  /\ running' = FALSE
  /\ UNCHANGED <<mainVars, posted, connectVars, sock, reading, writeVars, serverVars, wire>>

(* The server at the other end: what follows a body cut off is part of it.  *)
ServerSend(f) ==
  /\ sock = "connected" /\ peer = "up"
  /\ \A i \in 1 .. Len(inbox) : inbox[i] # "short"
  /\ frames < MaxFrames
  /\ frames' = frames + 1
  /\ inbox' = Append(inbox, f)
  /\ UNCHANGED <<mainVars, posted, running, connectVars, sock, reading, writeVars, responsive, peer,
                 wire>>

ServerLeave(how) ==
  /\ sock = "connected"
  /\ peer = "up" \/ (peer = "half" /\ how = "reset")
  /\ peer' = how
  /\ UNCHANGED <<mainVars, posted, running, connectVars, sock, reading, writeVars,
                 responsive, inbox, frames, wire>>

-----------------------------------------------------------------------------

Main == TypeLine \/ EndOfInput \/ JoinThread
Posted == RunWrite \/ RunClose
Connect == NextAttempt \/ ConnectFailed \/ Connected
Read == HeaderRead \/ BodyRead \/ ReadFailed
Write == WireWrite \/ WireError \/ Written \/ WriteFailed
Server == (\E f \in Frame : ServerSend(f)) \/ ServerLeave("half") \/ ServerLeave("reset")

Next ==
  \/ Main \/ Posted
  \/ Reached \/ Refused \/ Connect
  \/ Read \/ Write \/ RunReturns
  \/ Server

(* run() executes every handler that is ready, a connection attempt ends    *)
(* (at the latest by timing out), and a responsive server makes room.       *)
Fairness ==
  /\ WF_vars(JoinThread)
  /\ WF_vars(Posted)
  /\ WF_vars(Reached \/ Refused)
  /\ WF_vars(Connect)
  /\ WF_vars(Read)
  /\ WF_vars(WireError) /\ WF_vars(Written \/ WriteFailed)
  /\ WF_vars(RunReturns)
  /\ WF_vars(responsive /\ WireWrite)

Spec == Init /\ [][Next]_vars /\ Fairness

-----------------------------------------------------------------------------
(* Properties *)

(* Lines that have left _write_msgs. *)
Popped == IF writing = "done" THEN Len(wire) - 1 ELSE Len(wire)

(* Every line typed is in exactly one place, and in order: written to the   *)
(* connection, in _write_msgs, posted.  The hand-over from thread to thread,*)
(* the queue and the failed attempts to connect neither drop a line, nor    *)
(* write one twice, nor let one overtake another; close() overtakes those   *)
(* in the queue, but none that is posted.                                   *)
LinesInOrder ==
  LET lines == [i \in 1 .. typed |-> i]
      kept == SubSeq(wire, 1, Popped) \o writeMsgs \o posted
  IN  /\ kept = lines \/ (main # "typing" /\ kept = Append(lines, Close))
      /\ wire = [i \in 1 .. Len(wire) |-> i]

(* The client gives up before it has tried every endpoint only if the user  *)
(* had typed a line (whose failing write closes the socket under the next   *)
(* attempt), or ended the input.                                            *)
QuietUserTriesAll ==
  connect = "over" /\ reading = "none" =>
    endpoint = Endpoints \/ typed > 0 \/ main # "typing"

(* At the end of the input the program ends, whatever the state of the      *)
(* connection: close() makes every outstanding operation complete, run()    *)
(* runs out of work, and join() returns.                                    *)
ClientExits == main = "joining" ~> main = "exited"

(* When the server ends the conversation, everything in the client's second *)
(* thread winds down, a write to a server that reads no more included.      *)
ConversationEnds == connect = "over" /\ peer # "up" ~> ~running

(* Nothing is left to the client and the kernels: no thread has a step, no  *)
(* attempt to connect is under way, and a write waits only for a server     *)
(* that has stopped reading.                                                *)
Rests ==
  /\ ~(main = "joining" /\ ~running)
  /\ ~(connect = "pending" /\ sock = "connecting")
  /\ writing = "pending" =>
       /\ sock \notin {"failed", "closed"}
       /\ sock = "connected" => peer # "reset" /\ ~responsive
  /\ running =>
       /\ posted = << >>
       /\ connect # "up"
       /\ connect = "refused" => sock # "closed" /\ endpoint > Endpoints
       /\ connect = "pending" => sock # "closed"
       /\ reading = "header" => sock # "closed" /\ inbox = << >> /\ peer \notin {"half", "reset"}
       /\ reading = "body" => sock # "closed" /\ Head(inbox) = "short" /\ peer = "up"
       /\ writing \notin {"done", "failed"}
       /\ ~OutOfWork

(* When the client rests, it has not hung: main has not got stuck in        *)
(* join(), the second thread is in run() only for a conversation that goes  *)
(* on, has read all that the server sent but for a body whose rest has not  *)
(* come, and - unless the server has stopped reading - has written every    *)
(* line typed.                                                              *)
RestsWhenDone ==
  Rests =>
    /\ main # "joining"
    /\ connect = "over" /\ peer # "up" => ~running
    /\ running =>
         /\ sock = "connected" /\ peer = "up"
         /\ \/ reading = "header" /\ inbox = << >>
            \/ reading = "body" /\ Head(inbox) = "short"
         /\ main = "typing" /\ posted = << >>
         /\ responsive => writeMsgs = << >> /\ Len(wire) = typed

-----------------------------------------------------------------------------
(* The inductive invariant of the proofs. *)

TypeOK ==
  /\ main \in {"typing", "joining", "exited"}
  /\ typed \in Nat
  /\ posted \in Seq(Nat)
  /\ running \in BOOLEAN
  /\ endpoint \in 1 .. Endpoints
  /\ connect \in {"pending", "up", "refused", "over"}
  /\ sock \in {"connecting", "connected", "failed", "closed"}
  /\ reading \in {"none", "header", "body", "over"}
  /\ writeMsgs \in Seq(Nat)
  /\ writing \in {"idle", "pending", "done", "failed"}
  /\ responsive \in BOOLEAN
  /\ peer \in {"up", "half", "reset"}
  /\ inbox \in Seq(Frame) /\ (reading = "body" => inbox # << >>)
  /\ frames \in Nat
  /\ wire \in Seq(Nat)

(* The number of lines that are not posted any more. *)
Taken == Popped + Len(writeMsgs)

(* LinesInOrder place by place. *)
Places ==
  /\ Popped \in 0 .. Len(wire) /\ Taken <= typed
  /\ writing \in {"pending", "done"} => writeMsgs # << >>
  /\ \A i \in 1 .. Len(wire) : wire[i] = i
  /\ \A i \in 1 .. Len(writeMsgs) : writeMsgs[i] = Popped + i
  /\ \A i \in 1 .. Len(posted) : posted[i] = IF Taken + i <= typed THEN Taken + i ELSE Close
  /\ Len(posted) \in {typed - Taken, typed + 1 - Taken}
  /\ main = "typing" => Len(posted) = typed - Taken

(* Before a line is typed, or the input has ended, nothing can have closed  *)
(* the socket but the end of a conversation.                                *)
QuietSocket ==
  /\ typed = 0 /\ main = "typing" => writing = "idle" /\ (sock = "closed" => reading = "over")
  /\ connect # "over" => reading = "none"

IInv == TypeOK /\ Places /\ QuietSocket /\ QuietUserTriesAll

(* The socket, until it is closed, follows the attempt to connect and then  *)
(* the read; until then, too, a queue that is not empty is being written,   *)
(* and a close() that was asked for is still posted.                        *)
SocketFollows ==
  sock # "closed" =>
    /\ connect = "pending" <=> sock = "connecting"
    /\ connect = "refused" => sock = "failed"
    /\ connect = "up" => sock = "connected"
    /\ connect = "over" => IF reading = "none" THEN sock = "failed"
                           ELSE sock = "connected" /\ reading \in {"header", "body"}
    /\ writing = "idle" => writeMsgs = << >>
    /\ main # "typing" => \E i \in 1 .. Len(posted) : posted[i] = Close

=============================================================================
