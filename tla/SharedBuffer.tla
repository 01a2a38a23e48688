------------------------------ MODULE SharedBuffer ------------------------------
(***************************************************************************)
(* buffers/refence_count.cpp: a TCP daytime server whose message lies in a *)
(* reference-counted shared_const_buffer.  (The ; missing after class      *)
(* session is read as if it were there.)                                   *)
(*                                                                         *)
(* The message and the session are made inside the accept handler and      *)
(* named by its local variables only; what async_write goes on using after *)
(* that handler has returned is kept alive by the copies async_write made: *)
(* the buffer, hence a shared_ptr to the vector, and the handler, hence a  *)
(* shared_ptr to the session.                                              *)
(***************************************************************************)
EXTENDS Naturals

CONSTANTS
  Client,   \* clients, each connects at most once
  Parts     \* the kernel takes the message in up to so many parts

Idle == "idle"   \* no accept handler is running

ASSUME BufferAssumption == Parts \in Nat \ {0} /\ Idle \notin Client

VARIABLES
  peer,       \* the client: "absent", "up", "reset"
  accepting,  \* an async_accept is outstanding
  running,    \* the connection whose accept handler is running, or Idle
  taken,      \* connections whose accept completed
  message,    \* message[c]: holders of the vector: the "local" buffer, the write "op"
  session,    \* session[c]: holders of the session: "local" variables, the "op"
  writing,    \* connections with a write outstanding
  left,       \* left[c]: parts of the message still to be sent
  socket      \* the connection: "none", "open", "closed" (by ~session)

vars == <<peer, accepting, running, taken, message, session, writing, left, socket>>

Init ==
  /\ peer = [c \in Client |-> "absent"]
  /\ accepting = TRUE
  /\ running = Idle
  /\ taken = {}
  /\ message = [c \in Client |-> {}]
  /\ session = [c \in Client |-> {}]
  /\ writing = {}
  /\ left = [c \in Client |-> 0]
  /\ socket = [c \in Client |-> "none"]

Connect(c) ==
  /\ peer[c] = "absent"
  /\ peer' = [peer EXCEPT ![c] = "up"]
  /\ UNCHANGED <<accepting, running, taken, message, session, writing, left, socket>>

Reset(c) ==
  /\ peer[c] = "up"
  /\ peer' = [peer EXCEPT ![c] = "reset"]
  /\ UNCHANGED <<accepting, running, taken, message, session, writing, left, socket>>

-----------------------------------------------------------------------------
(* A holder of the message and of the session goes; with the last one they  *)
(* are freed, and ~session closes the socket.                               *)
Release(c, holder) ==
  /\ message' = [message EXCEPT ![c] = @ \ {holder}]
  /\ session' = [session EXCEPT ![c] = @ \ {holder}]
  /\ socket' = [socket EXCEPT ![c] = IF session'[c] = {} THEN "closed" ELSE @]

(* The accept handler, until it starts the write: the session, and in       *)
(* do_write the local buffer with the time in it.                           *)
AcceptHandler(c) ==
  /\ accepting /\ running = Idle /\ peer[c] # "absent" /\ c \notin taken
  /\ accepting' = FALSE
  /\ running' = c
  /\ taken' = taken \cup {c}
  /\ session' = [session EXCEPT ![c] = {"local"}]
  /\ message' = [message EXCEPT ![c] = {"local"}]
  /\ left' = [left EXCEPT ![c] = Parts]
  /\ socket' = [socket EXCEPT ![c] = "open"]
  /\ UNCHANGED <<peer, writing>>

(* Mutant: async_write is given the plain _buffer, which owns nothing. *)
StartWritePlainBuffer(c) ==
  /\ running = c /\ "local" \in session[c] /\ c \notin writing
  /\ writing' = writing \cup {c}
  /\ session' = [session EXCEPT ![c] = @ \cup {"op"}]
  /\ UNCHANGED <<peer, accepting, running, taken, message, left, socket>>

(* Mutant: the handler captures this only. *)
StartWriteThis(c) ==
  /\ running = c /\ "local" \in session[c] /\ c \notin writing
  /\ writing' = writing \cup {c}
  /\ message' = [message EXCEPT ![c] = @ \cup {"op"}]
  /\ UNCHANGED <<peer, accepting, running, taken, session, left, socket>>

(* async_write copies the buffer and takes the handler, which holds self.   *)
StartWrite(c) ==
  /\ running = c /\ "local" \in session[c] /\ c \notin writing
  /\ writing' = writing \cup {c}
  /\ message' = [message EXCEPT ![c] = @ \cup {"op"}]
  /\ session' = [session EXCEPT ![c] = @ \cup {"op"}]
  /\ UNCHANGED <<peer, accepting, running, taken, left, socket>>

(* do_write returns, then start, and the temporary shared_ptr goes.         *)
LocalsGo(c) ==
  /\ running = c /\ "local" \in session[c] /\ c \in writing
  /\ Release(c, "local")
  /\ UNCHANGED <<peer, accepting, running, taken, writing, left>>

(* The accept handler ends with do_accept(). *)
AcceptAgain(c) ==
  /\ running = c /\ "local" \notin session[c]
  /\ accepting' = TRUE
  /\ running' = Idle
  /\ UNCHANGED <<peer, taken, message, session, writing, left, socket>>

(* With an error there is no session, only the next accept. *)
AcceptError(c) ==
  /\ accepting /\ running = Idle /\ peer[c] = "reset" /\ c \notin taken
  /\ taken' = taken \cup {c}
  /\ UNCHANGED <<peer, accepting, running, message, session, writing, left, socket>>

-----------------------------------------------------------------------------
(* The write *)

(* The kernel copies a part of the message; this needs no thread of ours    *)
(* but for the first part, which async_write tries before it returns.       *)
WritePart(c) ==
  /\ c \in writing /\ left[c] > 0 /\ peer[c] = "up"
  /\ left' = [left EXCEPT ![c] = @ - 1]
  /\ UNCHANGED <<peer, accepting, running, taken, message, session, writing, socket>>

(* The write is over, its handler, which does nothing, is called; ...       *)
WriteEnds(c) ==
  /\ running = Idle
  /\ c \in writing /\ (left[c] = 0 \/ peer[c] = "reset")
  /\ writing' = writing \ {c}
  /\ UNCHANGED <<peer, accepting, running, taken, message, session, left, socket>>

(* ... the operation is destroyed, with its buffer and its handler. *)
OperationGoes(c) ==
  /\ c \notin writing /\ "op" \in message[c] \cup session[c]
  /\ Release(c, "op")
  /\ UNCHANGED <<peer, accepting, running, taken, writing, left>>

Serve(c) ==
  \/ AcceptHandler(c) \/ StartWrite(c) \/ LocalsGo(c) \/ AcceptAgain(c) \/ AcceptError(c)
  \/ WritePart(c) \/ WriteEnds(c) \/ OperationGoes(c)

Next == \E c \in Client : Connect(c) \/ Reset(c) \/ Serve(c)

(* run() executes what is ready; the message fits into the kernel's buffer. *)
Fairness ==
  \A c \in Client :
    /\ WF_vars(AcceptHandler(c) \/ AcceptError(c))
    /\ WF_vars(StartWrite(c) \/ LocalsGo(c) \/ AcceptAgain(c))
    /\ WF_vars(WritePart(c) \/ WriteEnds(c))
    /\ WF_vars(OperationGoes(c))

Spec == Init /\ [][Next]_vars /\ Fairness

-----------------------------------------------------------------------------

(* A write never reads freed memory, nor uses a destroyed socket: the bytes *)
(* of the message and the session exist until it has ended, although the    *)
(* function that made them has returned, and whatever the client does.      *)
MemoryForTheWrite ==
  \A c \in writing : message[c] # {} /\ session[c] # {} /\ socket[c] = "open"

(* The server that DaytimeTcp describes: the same service, closed when sent *)
(* and everyone served, with another ownership of the message.              *)
Daytime ==
  INSTANCE DaytimeTcp WITH
    accepting <- accepting \/ running # Idle,
    owners <- [c \in Client |->
                 IF c \in writing \/ "local" \in session[c] THEN {"write"} ELSE {}]

ImplementsDaytimeTcp == Daytime!Spec

(* Nothing is left to the server and to the kernel. *)
ServiceRests ==
  /\ running = Idle
  /\ \A c \in Client :
       /\ accepting /\ peer[c] # "absent" => c \in taken
       /\ c \in writing => left[c] > 0 /\ peer[c] \notin {"up", "reset"}
       /\ c \notin writing => "op" \notin message[c] \cup session[c]

(* When the service rests, nobody was forgotten and nothing has leaked: it  *)
(* accepts, every connection was taken, no message and no session is kept,  *)
(* and a client that has not reset its connection was sent the whole        *)
(* message and then the end of the connection.                              *)
RestsWhenServed ==
  ServiceRests =>
    /\ accepting
    /\ \A c \in Client :
         /\ message[c] = {} /\ session[c] = {}
         /\ peer[c] # "absent" => c \in taken
         /\ peer[c] = "up" => socket[c] = "closed" /\ left[c] = 0

-----------------------------------------------------------------------------
(* The inductive invariant of the proofs. *)

TypeOK ==
  /\ peer \in [Client -> {"absent", "up", "reset"}]
  /\ accepting \in BOOLEAN
  /\ running \in Client \cup {Idle}
  /\ taken \in SUBSET Client
  /\ message \in [Client -> SUBSET {"local", "op"}]
  /\ session \in [Client -> SUBSET {"local", "op"}]
  /\ writing \in SUBSET taken
  /\ left \in [Client -> 0 .. Parts]
  /\ socket \in [Client -> {"none", "open", "closed"}]

(* The message and the session have the same holders: the local variables   *)
(* while the accept handler runs, the operation as long as it is kept.      *)
Holders ==
  \A c \in Client :
    /\ message[c] = session[c]
    /\ session[c] # {} <=> socket[c] = "open"
    /\ session[c] # {} => c \in taken
    /\ "local" \in session[c] => running = c
    /\ c \in writing => "op" \in session[c]
    /\ "local" \in session[c] /\ "op" \in session[c] => c \in writing

OneAccept == accepting <=> running = Idle

IInv == TypeOK /\ Holders /\ OneAccept

(* Who was taken has connected and, unless it has reset the connection, got *)
(* a socket, which stays open until the message was sent.                   *)
Served ==
  \A c \in Client :
    /\ c \in taken => peer[c] # "absent"
    /\ c \in taken /\ peer[c] = "up" =>
         /\ socket[c] # "none"
         /\ c \notin writing /\ "local" \notin session[c] => left[c] = 0

=============================================================================
