------------------------------ MODULE DaytimeSystem ------------------------------
(***************************************************************************)
(* std_futures/daytime_client.cpp against socket/TCP_UDP/two_server.cpp:   *)
(* one of the clients of TwoServer is a FuturesClient that asks by UDP.    *)
(* The network may lose its request and the reply to it.                   *)
(***************************************************************************)
EXTENDS TwoServer

CONSTANT Asker   \* the endpoint of the FuturesClient

ASSUME SystemAssumption == Asker \in Client /\ Asker # Udp!Nobody

VARIABLES main, ops, result, runner, stopped, datagrams,
  dropped   \* the network has lost the request or the reply

clientVars == <<main, ops, result, runner, stopped, datagrams>>
systemVars == <<vars, clientVars, dropped>>

Futures == INSTANCE FuturesClient

SystemInit == Init /\ Futures!Init /\ dropped = FALSE

(* The kernel of the client's host takes the request: it reaches the        *)
(* server's socket (whose buffer may be full), or is lost on the way.       *)
Ask ==
  /\ Futures!KernelSends
  /\ \/ Udp!Request(Asker) /\ UNCHANGED dropped
     \/ dropped' = TRUE /\ UNCHANGED udpVars
  /\ UNCHANGED tcpVars

(* The kernel of the server's host takes a reply, to the Asker or another.  *)
Reply ==
  /\ Udp!HandleSend
  /\ IF answered'[Asker] = answered[Asker]
     THEN UNCHANGED <<clientVars, dropped>>
     ELSE \/ Futures!ReplyArrives /\ UNCHANGED dropped
          \/ dropped' = TRUE /\ UNCHANGED clientVars
  /\ UNCHANGED tcpVars

ClientAlone ==
  /\ \/ Futures!Main \/ Futures!Resolved \/ Futures!KernelRefuses
     \/ Futures!Received \/ Futures!ReceiveFails \/ Futures!Runner
  /\ UNCHANGED <<vars, dropped>>

UdpAlone ==
  /\ \/ \E c \in Client \ {Asker} : Udp!Request(c)
     \/ Udp!PortUnreachable \/ Udp!HandleReceive \/ Udp!HandleReceiveError
  /\ UNCHANGED <<tcpVars, clientVars, dropped>>

TcpAlone == Tcp!Next /\ UNCHANGED <<udpVars, clientVars, dropped>>

SystemNext == Ask \/ Reply \/ ClientAlone \/ UdpAlone \/ TcpAlone

(* The fairness of the parts; a send of the client, and one of the server,  *)
(* now end by the steps that also say what becomes of the datagram.         *)
SystemSpec ==
  /\ SystemInit /\ [][SystemNext]_systemVars
  /\ Tcp!Fairness
  /\ WF_udpVars(Udp!HandleReceive \/ Udp!HandleReceiveError) /\ WF_systemVars(Reply)
  /\ Futures!Fairness /\ WF_systemVars(Ask)

-----------------------------------------------------------------------------

(* No operation of the client outlives the buffers it uses. *)
BuffersOutliveOperations == Futures!BuffersOutliveOperations

(* Something on the way took the request or the reply of the Asker. *)
Silence == dropped \/ lost[Asker] > 0 \/ unsent[Asker] > 0 \/ ~receiving

(* The client ends - the server answers, main gets the reply through its    *)
(* futures, stop() lets the other thread return and join() ends - or an     *)
(* error is thrown, with the same end.  It waits for ever only if its       *)
(* request or the reply was lost or the service had ended with an error:    *)
(* the future then never becomes ready, and there is no timeout.            *)
AnsweredOrSilence == <>(main = "exited") \/ <>Silence

(* Nothing is left to the two programs and to the kernels. *)
SystemRests ==
  /\ Tcp!ServiceRests /\ Udp!ServiceRests /\ Futures!Rests
  /\ "send" \in ops => result["send"] # "none"

(* When everything rests, main has exited, or it waits for a reply that     *)
(* cannot come: no wake-up between its two threads was lost.                *)
RestsOrSilent == SystemRests => main = "exited" \/ (main = "recv_length" /\ Silence)

(* At rest nobody is left waiting by the servers either.                    *)
ServicesRest == Tcp!RestsWhenServed /\ Udp!RestsWhenAnswered

-----------------------------------------------------------------------------
(* The inductive invariant of the proofs. *)

(* A TCP connection that nobody holds any more has nothing left to send. *)
ConnectionInv ==
  /\ Tcp!TypeOK
  /\ \A c \in Client :
       /\ "write" \in owners[c] => socket[c] = "open"
       /\ socket[c] # "none" => "write" \in owners[c] \/ left[c] = 0 \/ peer[c] = "reset"

RequestInv == Udp!TypeOK /\ RepliesGoBack

(* The operation outstanding is the one whose future main waits for. *)
FutureInv ==
  /\ Futures!TypeOK
  /\ main = "resolve" => ops = {}
  /\ main = "send_length" => ops \subseteq {"send"}
  /\ main = "recv_length" => ops \subseteq {"receive"}
  /\ main \notin {"send_length", "recv_length"} => ops \subseteq {"resolve"}

IInv == ConnectionInv /\ RequestInv /\ FutureInv

(* Until the network drops something, what the kernel took of the client    *)
(* was asked, and what was answered has reached the client's socket.        *)
Delivered ==
  ~ dropped =>
    /\ result["send"] = "value" => asked[Asker] > 0
    /\ answered[Asker] = datagrams + (IF result["receive"] = "value" THEN 1 ELSE 0)

=============================================================================
