-------------------------------- MODULE DaytimeUdp --------------------------------
(***************************************************************************)
(* The udp_server of TCP_UDP/two_server.cpp; socket/UDP/async_server.cpp   *)
(* is the same class in a program of its own.  TwoServer, which composes   *)
(* it with the TCP server, states what the constants may be.               *)
(*                                                                         *)
(* One receive is outstanding at a time, into the one _remote_endpoint;    *)
(* any number of sends may be: each has its own copy of the endpoint and a *)
(* shared_ptr to its message.                                              *)
(***************************************************************************)
EXTENDS Naturals, Sequences, FiniteSets

CONSTANTS
  Client,       \* endpoints that ask for the time
  MaxRequests,  \* bound: requests sent by each client
  Buffer        \* requests that the socket's receive buffer holds

Nobody == "nobody"   \* _remote_endpoint before the first request

VARIABLES
  queue,      \* requests in the receive buffer, by client
  receiving,  \* an async_receive_from is outstanding
  remote,     \* _remote_endpoint
  sends,      \* destinations of the outstanding async_send_to operations
  icmp,       \* an error waits on the socket
  asked,      \* asked[c]: requests sent by c
  answered,   \* answered[c]: replies sent to c
  lost,       \* lost[c]: requests of c lost to a full buffer
  unsent      \* unsent[c]: replies to c whose send failed

requestVars == <<asked, lost>>
replyVars   == <<sends, answered, unsent>>
vars == <<queue, receiving, remote, icmp, requestVars, replyVars>>

Init ==
  /\ queue = << >>
  /\ receiving = TRUE
  /\ remote = Nobody
  /\ sends = << >>
  /\ icmp = FALSE
  /\ asked = [c \in Client |-> 0]
  /\ answered = [c \in Client |-> 0]
  /\ lost = [c \in Client |-> 0]
  /\ unsent = [c \in Client |-> 0]

Request(c) ==
  /\ asked[c] < MaxRequests
  /\ asked' = [asked EXCEPT ![c] = @ + 1]
  /\ IF Len(queue) < Buffer
     THEN queue' = Append(queue, c) /\ UNCHANGED lost
     ELSE lost' = [lost EXCEPT ![c] = @ + 1] /\ UNCHANGED queue
  /\ UNCHANGED <<receiving, remote, icmp, replyVars>>

(* The system reports an error for the receive, as some do when a reply to  *)
(* a client that has gone comes back as "port unreachable".                 *)
PortUnreachable ==
  /\ ~icmp /\ \E c \in Client : answered[c] > 0
  /\ icmp' = TRUE
  /\ UNCHANGED <<queue, receiving, remote, requestVars, replyVars>>

(* Mutant: start_receive() is forgotten. *)
HandleReceiveOnce ==
  /\ receiving /\ ~icmp /\ queue # << >>
  /\ queue' = Tail(queue)
  /\ remote' = Head(queue)
  /\ sends' = Append(sends, remote')
  /\ receiving' = FALSE
  /\ UNCHANGED <<icmp, requestVars, answered, unsent>>

(* handle_receive: start the reply to _remote_endpoint, then receive again. *)
HandleReceive ==
  /\ receiving /\ ~icmp /\ queue # << >>
  /\ queue' = Tail(queue)
  /\ remote' = Head(queue)
  /\ sends' = Append(sends, remote')
  /\ receiving' = TRUE
  /\ UNCHANGED <<icmp, requestVars, answered, unsent>>

(* handle_receive with an error: no reply, and no further receive. *)
HandleReceiveError ==
  /\ receiving /\ icmp
  /\ icmp' = FALSE
  /\ receiving' = FALSE
  /\ UNCHANGED <<queue, remote, requestVars, replyVars>>

(* Mutant: a send refers to _remote_endpoint instead of copying it. *)
HandleSendByReference ==
  /\ sends # << >>
  /\ \/ answered' = [answered EXCEPT ![remote] = @ + 1] /\ UNCHANGED unsent
     \/ unsent' = [unsent EXCEPT ![remote] = @ + 1] /\ UNCHANGED answered
  /\ sends' = Tail(sends)
  /\ UNCHANGED <<queue, receiving, remote, icmp, requestVars>>

(* handle_send: the first of the sends completes, with success or an error. *)
HandleSend ==
  /\ sends # << >>
  /\ \/ answered' = [answered EXCEPT ![Head(sends)] = @ + 1] /\ UNCHANGED unsent
     \/ unsent' = [unsent EXCEPT ![Head(sends)] = @ + 1] /\ UNCHANGED answered
  /\ sends' = Tail(sends)
  /\ UNCHANGED <<queue, receiving, remote, icmp, requestVars>>

Handler == HandleReceive \/ HandleReceiveError \/ HandleSend

Next == (\E c \in Client : Request(c)) \/ PortUnreachable \/ Handler

(* run() executes every handler that is ready. *)
Fairness == WF_vars(HandleReceive \/ HandleReceiveError) /\ WF_vars(HandleSend)

Spec == Init /\ [][Next]_vars /\ Fairness

-----------------------------------------------------------------------------

TypeOK ==
  /\ queue \in Seq(Client) /\ Len(queue) <= Buffer
  /\ receiving \in BOOLEAN /\ icmp \in BOOLEAN
  /\ remote \in Client \cup {Nobody}
  /\ sends \in Seq(Client)
  /\ asked \in [Client -> 0 .. MaxRequests]
  /\ answered \in [Client -> Nat] /\ lost \in [Client -> Nat] /\ unsent \in [Client -> Nat]

Count(q, c) == Cardinality({i \in 1 .. Len(q) : q[i] = c})

(* Every request is accounted for, per client: a reply goes to the one who  *)
(* asked, although _remote_endpoint may have been overwritten by the next   *)
(* request before the reply is sent, and a request is replied to once.      *)
RepliesGoBack ==
  \A c \in Client :
    asked[c] = lost[c] + Count(queue, c) + Count(sends, c) + answered[c] + unsent[c]

(* Unless an error on the socket ends the service for good, every request   *)
(* in the buffer is taken; and every reply started is finished, after such  *)
(* an error too.                                                            *)
ServiceUntilError ==
  /\ <>icmp \/ []<>(queue = << >>)
  /\ []<>(sends = << >>)

(* Nothing is left to the server and to the kernel. *)
ServiceRests == sends = << >> /\ (receiving => ~icmp /\ queue = << >>)

(* When the service rests and has not ended with an error, every request of *)
(* every client was lost to a full buffer or replied to - successfully, or  *)
(* with an error of the send.                                               *)
RestsWhenAnswered ==
  ServiceRests /\ receiving => \A c \in Client : asked[c] = lost[c] + answered[c] + unsent[c]

=============================================================================
