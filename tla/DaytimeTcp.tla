-------------------------------- MODULE DaytimeTcp --------------------------------
(***************************************************************************)
(* socket/TCP/async_server.cpp: the asynchronous TCP daytime server.  The  *)
(* tcp_server of TCP_UDP/two_server.cpp is the same; TwoServer, which      *)
(* composes it with the UDP server, states what the constants may be.      *)
(*                                                                         *)
(* A tcp_connection is named by the client it ends up with.  It lives as   *)
(* long as somebody has a shared_ptr to it: the accept handler bound in    *)
(* start_accept, then the write handler bound in start.  Its destructor    *)
(* closes the socket.  Nobody waits for the client.                        *)
(***************************************************************************)
EXTENDS Naturals

CONSTANTS
  Client,   \* clients, each connects at most once
  Parts     \* the kernel takes the message in up to so many parts

VARIABLES
  peer,       \* the client: "absent", "up", "reset"
  accepting,  \* an async_accept is outstanding
  taken,      \* connections whose accept completed
  owners,     \* owners[c]: handlers that hold the connection
  left,       \* left[c]: parts of _message still to be sent
  socket      \* "none", "open", "closed"

vars == <<peer, accepting, taken, owners, left, socket>>

Init ==
  /\ peer = [c \in Client |-> "absent"]
  /\ accepting = TRUE
  /\ taken = {}
  /\ owners = [c \in Client |-> {}]
  /\ left = [c \in Client |-> 0]
  /\ socket = [c \in Client |-> "none"]

Connect(c) ==
  /\ peer[c] = "absent"
  /\ peer' = [peer EXCEPT ![c] = "up"]
  /\ UNCHANGED <<accepting, taken, owners, left, socket>>

Reset(c) ==
  /\ peer[c] = "up"
  /\ peer' = [peer EXCEPT ![c] = "reset"]
  /\ UNCHANGED <<accepting, taken, owners, left, socket>>

(* Mutant: the write handler is bound to a plain pointer. *)
StartUnowned(c) ==
  /\ left' = [left EXCEPT ![c] = Parts]
  /\ owners' = owners
  /\ socket' = [socket EXCEPT ![c] = "open"]

(* start(): the message, and a write whose handler holds the connection. *)
Start(c) ==
  /\ left' = [left EXCEPT ![c] = Parts]
  /\ owners' = [owners EXCEPT ![c] = {"write"}]
  /\ socket' = [socket EXCEPT ![c] = "open"]

(* handle_accept: start() the connection - which then outlives the accept   *)
(* handler - and accept again.                                              *)
HandleAccept(c) ==
  /\ accepting /\ peer[c] # "absent" /\ c \notin taken
  /\ taken' = taken \cup {c}
  /\ Start(c)
  /\ accepting' = TRUE
  /\ UNCHANGED peer

(* Mutant: start_accept() is called after a success only. *)
HandleAcceptErrorStops(c) ==
  /\ accepting /\ peer[c] = "reset" /\ c \notin taken
  /\ taken' = taken \cup {c}
  /\ accepting' = FALSE
  /\ UNCHANGED <<peer, owners, left, socket>>

(* handle_accept with an error: the connection dies with the handler. *)
HandleAcceptError(c) ==
  /\ accepting /\ peer[c] = "reset" /\ c \notin taken
  /\ taken' = taken \cup {c}
  /\ accepting' = TRUE
  /\ UNCHANGED <<peer, owners, left, socket>>

WritePart(c) ==
  /\ "write" \in owners[c] /\ left[c] > 0 /\ peer[c] = "up"
  /\ left' = [left EXCEPT ![c] = @ - 1]
  /\ UNCHANGED <<peer, accepting, taken, owners, socket>>

(* handle_write does nothing; with it goes the last owner. *)
HandleWrite(c) ==
  /\ "write" \in owners[c] /\ (left[c] = 0 \/ peer[c] = "reset")
  /\ owners' = [owners EXCEPT ![c] = {}]
  /\ UNCHANGED <<peer, accepting, taken, left, socket>>

(* ~tcp_connection *)
Destroy(c) ==
  /\ socket[c] = "open" /\ owners[c] = {}
  /\ socket' = [socket EXCEPT ![c] = "closed"]
  /\ UNCHANGED <<peer, accepting, taken, owners, left>>

Serve(c) == HandleAccept(c) \/ HandleAcceptError(c) \/ WritePart(c) \/ HandleWrite(c) \/ Destroy(c)

Next == \E c \in Client : Connect(c) \/ Reset(c) \/ Serve(c)

(* run() executes every handler that is ready; the message fits into the    *)
(* kernel's send buffer, so that a write does not wait for the client.      *)
Fairness ==
  \A c \in Client :
    /\ WF_vars(HandleAccept(c) \/ HandleAcceptError(c))
    /\ WF_vars(WritePart(c) \/ HandleWrite(c))
    /\ WF_vars(Destroy(c))

Spec == Init /\ [][Next]_vars /\ Fairness

-----------------------------------------------------------------------------

TypeOK ==
  /\ peer \in [Client -> {"absent", "up", "reset"}]
  /\ accepting \in BOOLEAN
  /\ taken \in SUBSET Client
  /\ owners \in [Client -> SUBSET {"write"}]
  /\ left \in [Client -> 0 .. Parts]
  /\ socket \in [Client -> {"none", "open", "closed"}]

(* The server closes a connection only when the whole message was sent (or  *)
(* the client reset it): the bound handlers keep tcp_connection and the     *)
(* _message it writes from alive exactly as long as they are needed.        *)
ClosedWhenSent ==
  \A c \in Client : socket[c] = "closed" => left[c] = 0 \/ peer[c] = "reset"

(* Every client gets the time and the end of the connection, or has reset   *)
(* it; an accept that fails stops nobody else.                              *)
EveryoneServed ==
  \A c \in Client :
    peer[c] # "absent" ~> \/ socket[c] = "closed"
                          \/ peer[c] = "reset" /\ c \in taken /\ socket[c] # "open"

(* Nothing is left to the server and to the kernel. *)
ServiceRests ==
  \A c \in Client :
    /\ accepting /\ peer[c] # "absent" => c \in taken
    /\ "write" \in owners[c] => left[c] > 0 /\ peer[c] \notin {"up", "reset"}
    /\ socket[c] = "open" => owners[c] # {}

(* When the service rests, nobody was forgotten and no connection is kept:  *)
(* the server accepts, every connection was taken, and a client that has    *)
(* not reset it was sent the whole message and then the end.                *)
RestsWhenServed ==
  ServiceRests =>
    /\ accepting
    /\ \A c \in Client :
         /\ owners[c] = {}
         /\ peer[c] # "absent" => c \in taken
         /\ peer[c] = "up" => socket[c] = "closed" /\ left[c] = 0

(* Who was taken has connected and, unless it has reset the connection,     *)
(* got a socket (inductive, for the proofs).                                *)
Served ==
  /\ accepting
  /\ \A c \in Client :
       /\ "write" \in owners[c] => c \in taken
       /\ c \in taken => peer[c] # "absent"
       /\ c \in taken /\ peer[c] = "up" => socket[c] # "none"

=============================================================================
