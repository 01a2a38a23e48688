-------------------------------- MODULE ForkServer --------------------------------
(***************************************************************************)
(* fork/forkHandler.cpp: an echo server that forks a process for every     *)
(* connection.                                                             *)
(*                                                                         *)
(* The process that serves connection c is named c too.  Each process has  *)
(* one thread in io_context.run(); the accept handler is split at fork(),  *)
(* from where parent and child run side by side, and the loop on waitpid   *)
(* at every call.  A fork copies the memory of the parent, and with it the *)
(* operations and handlers that its io_context has outstanding or queued.  *)
(***************************************************************************)
EXTENDS Naturals, Sequences

CONSTANTS
  Conn,       \* connections, and the processes that serve them
  Parent,     \* the process that accepts
  MaxChunks   \* bound: chunks of data sent by each client

ASSUME ForkAssumption == Parent \notin Conn /\ MaxChunks \in Nat

VARIABLES
  client,     \* the peer of c: "absent", "up", "half" (sent FIN), "reset"
  sent,       \* chunks sent by the client; the n-th carries n
  accepted,   \* accepted[c]: the accept handler was called for c
  parent,     \* the parent: "run", or "forked" - still in the accept handler
  accepting,  \* it has an async_accept outstanding
  holders,    \* holders[c]: processes with an open descriptor of c's socket
  watched,    \* the signal pipe is in the parent's reactor
  pipe,       \* SIGCHLD was written to the parent's pipe (signals coalesce)
  wait,       \* async_wait of the parent: "armed", "queued" (its handler is
              \*   queued), "reaping"
  child,      \* child[c]: "none", "forked", "reading", "writing", "over" (no
              \*   operation on the socket was started again), "zombie", "reaped"
  childWait,  \* the child's copy of wait: "armed", "queued", "none"
  got,        \* chunks read by the child
  data,       \* _data of the child: the chunk in its buffer
  echoed      \* history: chunks written back

clientVars == <<client, sent>>
acceptVars == <<accepted, parent, accepting>>
signalVars == <<watched, pipe, wait>>
echoVars   == <<got, data, echoed>>
vars == <<clientVars, acceptVars, holders, signalVars, child, childWait, echoVars>>

Init ==
  /\ client = [c \in Conn |-> "absent"]
  /\ sent = [c \in Conn |-> 0]
  /\ accepted = [c \in Conn |-> FALSE]
  /\ parent = "run" /\ accepting = TRUE
  /\ holders = [c \in Conn |-> {}]
  /\ watched = TRUE /\ pipe = FALSE /\ wait = "armed"
  /\ child = [c \in Conn |-> "none"]
  /\ childWait = [c \in Conn |-> "none"]
  /\ got = [c \in Conn |-> 0]
  /\ data = [c \in Conn |-> 0]
  /\ echoed = [c \in Conn |-> << >>]

-----------------------------------------------------------------------------
(* Clients *)

ClientMoves(c, from, to) ==
  /\ client[c] \in from
  /\ client' = [client EXCEPT ![c] = to]
  /\ UNCHANGED <<sent, acceptVars, holders, signalVars, child, childWait, echoVars>>

ClientSend(c) ==
  /\ client[c] = "up" /\ sent[c] < MaxChunks
  /\ sent' = [sent EXCEPT ![c] = @ + 1]
  /\ UNCHANGED <<client, acceptVars, holders, signalVars, child, childWait, echoVars>>

Client(c) ==
  \/ ClientMoves(c, {"absent"}, "up")
  \/ ClientMoves(c, {"up"}, "half")
  \/ ClientMoves(c, {"up", "half"}, "reset")
  \/ ClientSend(c)

-----------------------------------------------------------------------------
(* The accept handler *)

ParentIdle == parent = "run" /\ wait # "reaping"

(* _socket takes the connection, notify_fork(fork_prepare), fork(): the     *)
(* child gets a copy of every descriptor the parent has, c's among them.    *)
Accept(c) ==
  /\ ParentIdle /\ accepting
  /\ client[c] # "absent" /\ ~accepted[c]
  /\ accepted' = [accepted EXCEPT ![c] = TRUE]
  /\ accepting' = FALSE
  /\ watched' = FALSE
  /\ parent' = "forked"
  /\ \/ /\ child' = [child EXCEPT ![c] = "forked"]
        /\ childWait' = [childWait EXCEPT ![c] = wait]
        /\ holders' = [d \in Conn |-> IF d = c \/ Parent \in holders[d]
                                      THEN holders[d] \cup {Parent, c} ELSE holders[d]]
     \/ /\ holders' = [holders EXCEPT ![c] = {Parent}]     \* fork() = -1
        /\ UNCHANGED <<child, childWait>>
  /\ UNCHANGED <<clientVars, pipe, wait, echoVars>>

(* Mutant: an error ends the accept loop. *)
AcceptFailedForGood(c) ==
  /\ ParentIdle /\ accepting
  /\ client[c] = "reset" /\ ~accepted[c]
  /\ accepted' = [accepted EXCEPT ![c] = TRUE]
  /\ accepting' = FALSE
  /\ UNCHANGED <<clientVars, parent, holders, signalVars, child, childWait, echoVars>>

(* The connection was reset in the backlog. *)
AcceptFailed(c) ==
  /\ ParentIdle /\ accepting
  /\ client[c] = "reset" /\ ~accepted[c]
  /\ accepted' = [accepted EXCEPT ![c] = TRUE]
  /\ accepting' = TRUE
  /\ UNCHANGED <<clientVars, parent, holders, signalVars, child, childWait, echoVars>>

(* Mutant: the parent keeps the descriptor it accepted. *)
ParentKeepsSocket ==
  /\ parent = "forked"
  /\ watched' = TRUE
  /\ parent' = "run"
  /\ accepting' = TRUE
  /\ UNCHANGED <<clientVars, accepted, holders, pipe, wait, child, childWait, echoVars>>

(* notify_fork(fork_parent), close the parent's descriptor, accept again. *)
ParentContinues ==
  /\ parent = "forked"
  /\ watched' = TRUE
  /\ holders' = [c \in Conn |-> holders[c] \ {Parent}]
  /\ parent' = "run"
  /\ accepting' = TRUE
  /\ UNCHANGED <<clientVars, accepted, pipe, wait, child, childWait, echoVars>>

(* notify_fork(fork_child), _acceptor.close(), _signal.cancel() - which     *)
(* queues the handler of the wait if it is not queued already - and read(). *)
ChildContinues(c) ==
  /\ child[c] = "forked"
  /\ child' = [child EXCEPT ![c] = "reading"]
  /\ childWait' = [childWait EXCEPT ![c] = "queued"]
  /\ UNCHANGED <<clientVars, acceptVars, holders, signalVars, echoVars>>

-----------------------------------------------------------------------------
(* The handler of the SIGCHLD wait *)

DeliverSignal ==
  /\ ParentIdle /\ watched /\ pipe /\ wait = "armed"
  /\ pipe' = FALSE
  /\ wait' = "queued"
  /\ UNCHANGED <<clientVars, acceptVars, holders, watched, child, childWait, echoVars>>

(* The acceptor of the parent is open. *)
StartReaping ==
  /\ ParentIdle /\ wait = "queued"
  /\ wait' = "reaping"
  /\ UNCHANGED <<clientVars, acceptVars, holders, watched, pipe, child, childWait, echoVars>>

(* waitpid(-1, WNOHANG) returns a child ... *)
Reap(c) ==
  /\ wait = "reaping" /\ child[c] = "zombie"
  /\ child' = [child EXCEPT ![c] = "reaped"]
  /\ UNCHANGED <<clientVars, acceptVars, holders, signalVars, childWait, echoVars>>

(* Mutant: if instead of while. *)
StopAfterOne ==
  /\ wait = "reaping"
  /\ wait' = "armed"
  /\ UNCHANGED <<clientVars, acceptVars, holders, watched, pipe, child, childWait, echoVars>>

(* ... or there is none: leave the loop, wait again. *)
StopReaping ==
  /\ wait = "reaping" /\ \A c \in Conn : child[c] # "zombie"
  /\ wait' = "armed"
  /\ UNCHANGED <<clientVars, acceptVars, holders, watched, pipe, child, childWait, echoVars>>

(* Mutant: the handler does not ask whether the acceptor is open. *)
ChildWaitsAgain(c) ==
  /\ child[c] \in {"reading", "writing", "over"} /\ childWait[c] = "queued"
  /\ childWait' = [childWait EXCEPT ![c] = "armed"]
  /\ UNCHANGED <<clientVars, acceptVars, holders, signalVars, child, echoVars>>

(* In a child the acceptor is closed: neither reap nor wait again. *)
ChildWaitHandler(c) ==
  /\ child[c] \in {"reading", "writing", "over"} /\ childWait[c] = "queued"
  /\ childWait' = [childWait EXCEPT ![c] = "none"]
  /\ UNCHANGED <<clientVars, acceptVars, holders, signalVars, child, echoVars>>

-----------------------------------------------------------------------------
(* The echo loop of a child *)

(* Mutant: the next read is started before the write has completed. *)
ReadWhileWriting(c) ==
  /\ child[c] \in {"reading", "writing"}
  /\ got[c] < sent[c]
  /\ got' = [got EXCEPT ![c] = @ + 1]
  /\ data' = [data EXCEPT ![c] = got[c] + 1]
  /\ child' = [child EXCEPT ![c] = "writing"]
  /\ UNCHANGED <<clientVars, acceptVars, holders, signalVars, childWait, echoed>>

(* What has arrived before a reset may still be read after it. *)
ReadSome(c) ==
  /\ child[c] = "reading"
  /\ got[c] < sent[c]
  /\ got' = [got EXCEPT ![c] = @ + 1]
  /\ data' = [data EXCEPT ![c] = got[c] + 1]
  /\ child' = [child EXCEPT ![c] = "writing"]
  /\ UNCHANGED <<clientVars, acceptVars, holders, signalVars, childWait, echoed>>

WriteBack(c) ==
  /\ child[c] = "writing" /\ client[c] # "reset"
  /\ echoed' = [echoed EXCEPT ![c] = Append(@, data[c])]
  /\ child' = [child EXCEPT ![c] = "reading"]
  /\ UNCHANGED <<clientVars, acceptVars, holders, signalVars, childWait, got, data>>

(* End of stream or an error: nothing is started again. *)
EchoFailed(c) ==
  /\ \/ child[c] = "reading" /\ client[c] = "half" /\ got[c] = sent[c]
     \/ child[c] \in {"reading", "writing"} /\ client[c] = "reset"
  /\ child' = [child EXCEPT ![c] = "over"]
  /\ UNCHANGED <<clientVars, acceptVars, holders, signalVars, childWait, echoVars>>

(* run() is out of work and main returns: the kernel closes the descriptors *)
(* and signals the parent.                                                  *)
ChildExits(c) ==
  /\ child[c] = "over" /\ childWait[c] = "none"
  /\ child' = [child EXCEPT ![c] = "zombie"]
  /\ holders' = [d \in Conn |-> holders[d] \ {c}]
  /\ pipe' = TRUE
  /\ UNCHANGED <<clientVars, acceptVars, watched, wait, childWait, echoVars>>

-----------------------------------------------------------------------------

Child(c) ==
  \/ ChildContinues(c) \/ ChildWaitHandler(c)
  \/ ReadSome(c) \/ WriteBack(c) \/ EchoFailed(c)
  \/ ChildExits(c)

Signals == DeliverSignal \/ StartReaping \/ (\E c \in Conn : Reap(c)) \/ StopReaping

Next ==
  \/ ParentContinues \/ Signals
  \/ \E c \in Conn : Client(c) \/ Accept(c) \/ AcceptFailed(c) \/ Child(c)

(* Every process runs and executes every handler that is ready; clients     *)
(* keep reading what is echoed to them (or reset the connection).           *)
Fairness ==
  /\ WF_vars(ParentContinues) /\ WF_vars(Signals)
  /\ \A c \in Conn :
       /\ WF_vars(Accept(c) \/ AcceptFailed(c))
       /\ WF_vars(ChildContinues(c)) /\ WF_vars(ChildWaitHandler(c))
       /\ WF_vars(ReadSome(c) \/ WriteBack(c) \/ EchoFailed(c))
       /\ WF_vars(ChildExits(c))

Spec == Init /\ [][Next]_vars /\ Fairness

-----------------------------------------------------------------------------
(* Properties *)

(* "Reap completed child processes so that we don't end up with zombies"    *)
(* (forkHandler.cpp:36): a child that ended is reaped, although it may end  *)
(* while the parent forks (its pipe out of the reactor), between the last   *)
(* waitpid and the next async_wait, or together with others.                *)
NoZombies == \A c \in Conn : child[c] = "zombie" ~> child[c] = "reaped"

(* When the client has gone, the process that served it ends: its copy of   *)
(* the SIGCHLD wait does not keep its run() alive, even if the handler of   *)
(* the wait was already queued in the parent at the fork.                   *)
ChildrenEnd ==
  \A c \in Conn :
    child[c] # "none" /\ client[c] \in {"half", "reset"} ~> child[c] = "reaped"

(* A client sees its connection closed once its process has ended: no other *)
(* process, the parent and the children forked since included, still has a  *)
(* descriptor of the socket.                                                *)
ClosedWithTheChild ==
  \A c \in Conn :
    child[c] \in {"zombie", "reaped"} =>
      holders[c] \subseteq (IF parent = "forked" THEN {Parent} ELSE {})

(* A client gets back what it sent, in order, each chunk once: the single   *)
(* buffer _data is never read into before its content was written.          *)
EchoInOrder ==
  \A c \in Conn :
    /\ echoed[c] = [i \in 1 .. Len(echoed[c]) |-> i]
    /\ Len(echoed[c]) \in {got[c] - 1, got[c]}
    /\ child[c] = "reading" => Len(echoed[c]) = got[c]

(* Everybody who connects is accepted, whatever happens to the others: the  *)
(* accept is started again after an error and in the parent after a fork,   *)
(* or an attempt to fork.                                                   *)
EveryoneAccepted == \A c \in Conn : client[c] # "absent" ~> accepted[c]

(* No process can take a step: what remains is up to the clients. *)
AtRest ==
  /\ parent # "forked"
  /\ wait \notin {"queued", "reaping"}
  /\ ~(watched /\ pipe)
  /\ \A c \in Conn :
       /\ ~(accepting /\ client[c] # "absent" /\ ~accepted[c])
       /\ child[c] # "forked"
       /\ ~(child[c] \in {"reading", "writing", "over"} /\ childWait[c] = "queued")
       /\ ~(child[c] = "over" /\ childWait[c] = "none")
       /\ child[c] = "reading" => got[c] >= sent[c] /\ client[c] \notin {"half", "reset"}
       /\ child[c] # "writing"

(* When the processes rest, nothing was forgotten: whoever connected was    *)
(* accepted, every child that ended was reaped although SIGCHLDs coalesce   *)
(* and the pipe is out of the reactor during a fork, and a child that lives *)
(* has echoed all that its client sent and waits for more of it.            *)
NothingForgotten ==
  AtRest =>
    /\ \A c \in Conn : client[c] # "absent" => accepted[c]
    /\ \A c \in Conn : child[c] \in {"none", "reading", "reaped"}
    /\ \A c \in Conn : child[c] = "reading" =>
         client[c] = "up" /\ echoed[c] = [i \in 1 .. sent[c] |-> i]

-----------------------------------------------------------------------------
(* The inductive invariant of the proofs. *)

TypeOK ==
  /\ client \in [Conn -> {"absent", "up", "half", "reset"}]
  /\ sent \in [Conn -> 0 .. MaxChunks]
  /\ accepted \in [Conn -> BOOLEAN]
  /\ parent \in {"run", "forked"} /\ accepting \in BOOLEAN
  /\ holders \in [Conn -> SUBSET (Conn \cup {Parent})]
  /\ watched \in BOOLEAN /\ pipe \in BOOLEAN
  /\ wait \in {"armed", "queued", "reaping"}
  /\ child \in [Conn -> {"none", "forked", "reading", "writing", "over", "zombie", "reaped"}]
  /\ childWait \in [Conn -> {"armed", "queued", "none"}]
  /\ got \in [Conn -> 0 .. MaxChunks]
  /\ data \in [Conn -> 0 .. MaxChunks]
  /\ echoed \in [Conn -> Seq(1 .. MaxChunks)]

(* A socket is held by the parent, while it is in the accept handler, and   *)
(* by the process that serves it.                                           *)
Descriptors ==
  \A c \in Conn :
    /\ holders[c] \subseteq {Parent, c}
    /\ parent = "run" => Parent \notin holders[c]
    /\ child[c] \in {"none", "zombie", "reaped"} => c \notin holders[c]

(* The chunk between read and write is the one in the buffer. *)
Chunks ==
  \A c \in Conn :
    /\ ~accepted[c] => child[c] = "none"
    /\ child[c] \in {"none", "forked"} => got[c] = 0
    /\ child[c] \in {"none", "forked", "reading"} => Len(echoed[c]) = got[c]
    /\ child[c] = "writing" => data[c] = got[c] /\ got[c] = Len(echoed[c]) + 1

IInv == TypeOK /\ Descriptors /\ Chunks /\ EchoInOrder

(* What the parent owes: between two accepts it accepts and watches its     *)
(* pipe, and it has not yet finished a round of waitpid after a child ended.*)
ParentOwes ==
  /\ watched = (parent = "run") /\ accepting = (parent = "run")
  /\ \A c \in Conn : child[c] = "zombie" => pipe \/ wait \in {"queued", "reaping"}

(* What a child owes: it serves a client that connected, its copy of the    *)
(* wait does not stay armed, and it has read no more than was sent.         *)
ChildOwes ==
  \A c \in Conn :
    /\ accepted[c] => client[c] # "absent"
    /\ child[c] \in {"reading", "writing", "over"} => childWait[c] # "armed"
    /\ got[c] <= sent[c]

Owed == ParentOwes /\ ChildOwes

=============================================================================
