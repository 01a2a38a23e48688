-------------------------------- MODULE TwoServer --------------------------------
(***************************************************************************)
(* socket/TCP_UDP/two_server.cpp: main gives one io_context to a           *)
(* tcp_server and a udp_server.  One thread executes the handlers of both, *)
(* one at a time; the servers share nothing else.                          *)
(***************************************************************************)
EXTENDS Naturals

CONSTANTS
  Client,       \* who asks for the time, by TCP and by UDP
  Parts,        \* see DaytimeTcp
  MaxRequests,  \* see DaytimeUdp
  Buffer

ASSUME TwoServerAssumption ==
  /\ Parts \in Nat \ {0}
  /\ MaxRequests \in Nat
  /\ Buffer \in Nat \ {0}

VARIABLES
  peer, accepting, taken, owners, left, socket,
  queue, receiving, remote, sends, icmp, asked, answered, lost, unsent

tcpVars == <<peer, accepting, taken, owners, left, socket>>
udpVars == <<queue, receiving, remote, sends, icmp, asked, answered, lost, unsent>>
vars == <<tcpVars, udpVars>>

Tcp == INSTANCE DaytimeTcp
Udp == INSTANCE DaytimeUdp

Init == Tcp!Init /\ Udp!Init

Next ==
  \/ Tcp!Next /\ UNCHANGED udpVars
  \/ Udp!Next /\ UNCHANGED tcpVars

(* run() executes every handler that is ready, of either server. *)
Spec == Init /\ [][Next]_vars /\ Tcp!Fairness /\ Udp!Fairness

-----------------------------------------------------------------------------

(* No connection is closed before its message is sent. *)
ClosedWhenSent == Tcp!ClosedWhenSent

(* Every TCP client is served, whatever happens to the others, and also     *)
(* when an error has ended the UDP service.                                 *)
EveryoneServed == Tcp!EveryoneServed

(* Every UDP request is accounted for, and replied to the one who asked. *)
RepliesGoBack == Udp!RepliesGoBack

(* The UDP service answers everything until an error ends it. *)
ServiceUntilError == Udp!ServiceUntilError

=============================================================================
