--------------------------------- MODULE Daemon ---------------------------------
(***************************************************************************)
(* fork/daemon.cpp: a UDP daytime server that turns itself into a daemon.  *)
(*                                                                         *)
(* Process 1 is the program as started from a terminal, 2 and 3 are forked *)
(* in turn.  Each executes main statement by statement; between any two of *)
(* its statements the other processes, clients and signals may act.  The   *)
(* socket, its error, and the pipe of the signal_set are inherited, hence  *)
(* one for all processes.                                                  *)
(*                                                                         *)
(* notify_fork(fork_prepare) takes that pipe out of the reactor.  It is    *)
(* put back by notify_fork with fork_child or fork_parent (see ForkServer, *)
(* which calls them); the statement does not occur in this program.        *)
(***************************************************************************)
EXTENDS Naturals, Sequences, FiniteSetsExt

CONSTANTS
  Asker,        \* who asks for the time
  MaxRequests,  \* bound: requests sent by each client
  Buffer        \* requests that the socket's receive buffer holds

ASSUME DaemonAssumption == MaxRequests \in Nat /\ Buffer \in Nat \ {0}

Process == 1 .. 3
Terminal == 0            \* the session of the terminal
Fd == 0 .. 4             \* file descriptors in use
Own == {3, 4}            \* what asio and the socket opened before the forks

VARIABLES
  pc,        \* next statement of a process: "unborn", ..., "run", "exited"
  session,   \* session of the process
  fd,        \* fd[p][n]: what descriptor n of p refers to
  pipeWatched, \* pipeWatched[p]: the signal pipe is in p's reactor
  signals,   \* content of the pipe: the processes that were sent a signal
  queue,     \* requests in the receive buffer, by client
  receiving, \* an async_receive_from is outstanding
  error,     \* a pending error on the socket (an ICMP message came back)
  asked,     \* asked[c]: requests sent by c
  answered,  \* answered[c]: replies sent to c
  lost,      \* lost[c]: requests of c that found the buffer full
  bounced    \* replies that came back as undeliverable

processVars == <<pc, session, fd, pipeWatched>>
socketVars  == <<queue, receiving, error>>
askerVars   == <<asked, answered, lost, bounced>>
daemonVars == <<processVars, signals, socketVars, askerVars>>

DaemonInit ==
  /\ pc = [p \in Process |-> IF p = 1 THEN "prepare" ELSE "unborn"]
  /\ session = [p \in Process |-> Terminal]
  /\ fd = [p \in Process |-> [n \in Fd |-> IF n \in Own THEN "asio" ELSE "terminal"]]
  /\ pipeWatched = [p \in Process |-> TRUE]
  /\ signals = {}
  /\ queue = << >> /\ receiving = TRUE /\ error = FALSE
  /\ asked = [c \in Asker |-> 0]
  /\ answered = [c \in Asker |-> 0]
  /\ lost = [c \in Asker |-> 0]
  /\ bounced = 0

Alive(p) == pc[p] \notin {"unborn", "exited"}
Leader(p) == session[p] = p

-----------------------------------------------------------------------------
(* main *)

Prepare(p) ==
  /\ pc[p] = "prepare"
  /\ pipeWatched' = [pipeWatched EXCEPT ![p] = FALSE]
  /\ pc' = [pc EXCEPT ![p] = "fork1"]
  /\ UNCHANGED <<session, fd, signals, socketVars, askerVars>>

(* The child continues with a copy of everything, the parent goes to its    *)
(* exit(0), which runs none of main's destructors: what the two share in    *)
(* the kernel stays as it is.                                               *)
Fork(p, at, continue) ==
  /\ pc[p] = at
  /\ pc' = [pc EXCEPT ![p] = "exit", ![p + 1] = continue]
  /\ session' = [session EXCEPT ![p + 1] = session[p]]
  /\ fd' = [fd EXCEPT ![p + 1] = fd[p]]
  /\ pipeWatched' = [pipeWatched EXCEPT ![p + 1] = pipeWatched[p]]
  /\ UNCHANGED <<signals, socketVars, askerVars>>

Exit(p) ==
  /\ pc[p] = "exit"
  /\ pc' = [pc EXCEPT ![p] = "exited"]
  /\ UNCHANGED <<session, fd, pipeWatched, signals, socketVars, askerVars>>

(* fork, open or dup fails: the process writes to the system log and ends. *)
SystemCallFails(p) ==
  /\ pc[p] \in {"fork1", "fork2", "open null", "open log", "dup"}
  /\ pc' = [pc EXCEPT ![p] = "exited"]
  /\ UNCHANGED <<session, fd, pipeWatched, signals, socketVars, askerVars>>

(* Mutant: no second fork after setsid. *)
SetSidOnly(p) ==
  /\ pc[p] = "setsid"
  /\ session' = [session EXCEPT ![p] = p]
  /\ pc' = [pc EXCEPT ![p] = "close"]
  /\ UNCHANGED <<fd, pipeWatched, signals, socketVars, askerVars>>

SetSid(p) ==
  /\ pc[p] = "setsid"
  /\ session' = [session EXCEPT ![p] = p]
  /\ pc' = [pc EXCEPT ![p] = "fork2"]
  /\ UNCHANGED <<fd, pipeWatched, signals, socketVars, askerVars>>

(* close(0), close(1), close(2) *)
CloseStreams(p) ==
  /\ pc[p] = "close"
  /\ fd' = [fd EXCEPT ![p] = [n \in Fd |-> IF n \in 0 .. 2 THEN "free" ELSE @[n]]]
  /\ pc' = [pc EXCEPT ![p] = "open null"]
  /\ UNCHANGED <<session, pipeWatched, signals, socketVars, askerVars>>

(* A new descriptor is the lowest one that is free. *)
Lowest(p) == Min({n \in Fd : fd[p][n] = "free"})

OpenNull(p) ==
  /\ pc[p] = "open null"
  /\ fd' = [fd EXCEPT ![p][Lowest(p)] = "null"]
  /\ pc' = [pc EXCEPT ![p] = "open log"]
  /\ UNCHANGED <<session, pipeWatched, signals, socketVars, askerVars>>

OpenLog(p) ==
  /\ pc[p] = "open log"
  /\ fd' = [fd EXCEPT ![p][Lowest(p)] = "log"]
  /\ pc' = [pc EXCEPT ![p] = "dup"]
  /\ UNCHANGED <<session, pipeWatched, signals, socketVars, askerVars>>

(* dup(1), then run() *)
Dup(p) ==
  /\ pc[p] = "dup"
  /\ fd' = [fd EXCEPT ![p][Lowest(p)] = fd[p][1]]
  /\ pc' = [pc EXCEPT ![p] = "run"]
  /\ UNCHANGED <<session, pipeWatched, signals, socketVars, askerVars>>

Main(p) ==
  \/ Prepare(p)
  \/ Fork(p, "fork1", "setsid") \/ Exit(p)
  \/ SetSid(p)
  \/ Fork(p, "fork2", "close")
  \/ CloseStreams(p) \/ OpenNull(p) \/ OpenLog(p) \/ Dup(p)

-----------------------------------------------------------------------------
(* The handlers, in io_context.run() *)

(* The handler of the signal_set: io_context.stop(), and main returns.  It  *)
(* is a step of SpecWithSignals only: the reactor of a process that serves  *)
(* does not watch the pipe, so that DaemonNext has no use for it.           *)
SignalHandler(p) ==
  /\ pc[p] = "run" /\ pipeWatched[p]
  /\ signals # {}
  /\ signals' = {}
  /\ pc' = [pc EXCEPT ![p] = "exited"]
  /\ UNCHANGED <<session, fd, pipeWatched, socketVars, askerVars>>

(* Answer the sender (an error of send_to is ignored), receive() again. *)
Answer(p) ==
  /\ pc[p] = "run" /\ receiving
  /\ ~error /\ queue # << >>
  /\ receiving' = TRUE
  /\ answered' = [answered EXCEPT ![Head(queue)] = @ + 1]
  /\ queue' = Tail(queue)
  /\ UNCHANGED <<processVars, signals, error, asked, lost, bounced>>

(* Mutant: receive() is called after a success only. *)
ReceiveErrorStops(p) ==
  /\ pc[p] = "run" /\ receiving
  /\ error
  /\ error' = FALSE
  /\ receiving' = FALSE
  /\ UNCHANGED <<processVars, signals, queue, askerVars>>

ReceiveError(p) ==
  /\ pc[p] = "run" /\ receiving
  /\ error
  /\ error' = FALSE
  /\ receiving' = TRUE
  /\ UNCHANGED <<processVars, signals, queue, askerVars>>

-----------------------------------------------------------------------------
(* Clients and signals *)

Ask(c) ==
  /\ asked[c] < MaxRequests
  /\ asked' = [asked EXCEPT ![c] = @ + 1]
  /\ IF Len(queue) < Buffer
     THEN queue' = Append(queue, c) /\ UNCHANGED lost
     ELSE lost' = [lost EXCEPT ![c] = @ + 1] /\ UNCHANGED queue
  /\ UNCHANGED <<processVars, signals, receiving, error, answered, bounced>>

(* A reply could not be delivered: the socket is told. *)
Unreachable ==
  /\ bounced < MapThenSumSet(LAMBDA c : answered[c], Asker)
  /\ bounced' = bounced + 1
  /\ error' = TRUE
  /\ UNCHANGED <<processVars, signals, queue, receiving, asked, answered, lost>>

(* SIGINT or SIGTERM is sent to p: asio's handler, installed before the     *)
(* forks and inherited by them, writes to the pipe.  Bound: once for each   *)
(* process, until the pipe is read.                                         *)
Signal(p) ==
  /\ Alive(p) /\ p \notin signals
  /\ signals' = signals \cup {p}
  /\ UNCHANGED <<processVars, socketVars, askerVars>>

DaemonNext ==
  \/ \E p \in Process :
       Main(p) \/ SystemCallFails(p) \/ Answer(p) \/ ReceiveError(p) \/ Signal(p)
  \/ \E c \in Asker : Ask(c)
  \/ Unreachable

(* Every process runs, and run() executes every handler that is ready.      *)
DaemonFairness ==
  \A p \in Process : WF_daemonVars(Main(p)) /\ WF_daemonVars(Answer(p) \/ ReceiveError(p))

DaemonSpec == DaemonInit /\ [][DaemonNext]_daemonVars /\ DaemonFairness

SpecWithSignals ==
  /\ DaemonInit /\ [][DaemonNext \/ \E p \in Process : SignalHandler(p)]_daemonVars
  /\ DaemonFairness /\ \A p \in Process : WF_daemonVars(SignalHandler(p))

-----------------------------------------------------------------------------
(* Properties *)

(* The process that serves is decoupled from the terminal: it is in a       *)
(* session of its own that it does not lead (so that it can never acquire a *)
(* controlling terminal), its standard streams are /dev/null and the log,   *)
(* and the descriptors that were open before the forks are untouched.       *)
Detached ==
  \A p \in Process :
    pc[p] = "run" =>
      /\ session[p] # Terminal /\ ~Leader(p)
      /\ fd[p] = [n \in Fd |-> CASE n = 0 -> "null"
                                 [] n \in 1 .. 2 -> "log"
                                 [] OTHER -> "asio"]

(* As long as a process is left, every request is answered, exactly once    *)
(* and to the one who asked: nothing is lost but what overflows the buffer, *)
(* and the requests that arrive while the daemon is still forking, or right *)
(* after an error on the socket, find a receive outstanding in the end.     *)
EveryoneAnswered ==
  \A c \in Asker :
    []<>((\A p \in Process : ~Alive(p)) \/ answered[c] + lost[c] = asked[c])

(* "Register signal handlers so that the daemon may be shut down"           *)
(* (daemon.cpp:56): a daemon that serves, with no signal sent so far to it  *)
(* or to the processes it descends from, ends when it is sent SIGINT or     *)
(* SIGTERM.                                                                 *)
SignalStopsDaemon ==
  \A p \in Process :
    [](pc[p] = "run" /\ signals = {} => (p \in signals ~> ~Alive(p)))

-----------------------------------------------------------------------------
(* Inductive invariant: the way of each process through main, and what the  *)
(* way has made of its session and of its descriptors.                      *)

Way == <<{"prepare", "fork1", "exit", "exited"},
         {"unborn", "setsid", "fork2", "exit", "exited"},
         {"unborn", "close", "open null", "open log", "dup", "run", "exited"}>>

Inherited == [n \in Fd |-> IF n \in Own THEN "asio" ELSE "terminal"]

(* k of the standard streams are open again. *)
Redirected(k) ==
  [n \in Fd |-> CASE n \in Own -> "asio"
                 [] n = 0 /\ n < k -> "null"
                 [] n \in 1 .. 2 /\ n < k -> "log"
                 [] OTHER -> "free"]

WayInv == pc \in [Process -> UNION {Way[p] : p \in Process}] /\ \A p \in Process : pc[p] \in Way[p]

SessionInv ==
  /\ session \in [Process -> {Terminal} \cup Process]
  /\ pc[2] = "fork2" => session[2] = 2
  /\ pc[3] # "unborn" => session[3] = 2

(* f, the descriptors of a process that is about to execute at. *)
StreamsAt(at, f) ==
  /\ at \in {"prepare", "fork1", "setsid", "fork2", "close"} => f = Inherited
  /\ at = "open null" => f = Redirected(0)
  /\ at = "open log" => f = Redirected(1)
  /\ at = "dup" => f = Redirected(2)
  /\ at = "run" => f = Redirected(3)

StreamsInv ==
  /\ fd \in [Process -> [Fd -> {"terminal", "asio", "free", "null", "log"}]]
  /\ \A p \in Process : StreamsAt(pc[p], fd[p])

DaemonInv == WayInv /\ SessionInv /\ StreamsInv
-----------------------------------------------------------------------------
(* At rest: the safety part of EveryoneAnswered.                            *)

(* No process has a statement of main or a handler to execute. *)
DaemonRests ==
  \A p \in Process :
    /\ pc[p] \in {"unborn", "exited", "run"}
    /\ pc[p] = "run" /\ receiving => ~error /\ queue = << >>

(* A daemon that has come to rest has ended, or answered every request that *)
(* the receive buffer had room for.                                         *)
AnsweredAtRest ==
  DaemonRests =>
    (\A p \in Process : ~Alive(p)) \/ \A c \in Asker : asked[c] = lost[c] + answered[c]

(* The requests of c in the receive buffer q. *)
Queued(q, c) == Cardinality({i \in 1 .. Len(q) : q[i] = c})

(* A receive is always outstanding - before run(), too - and each request   *)
(* is lost, waiting or answered.                                            *)
DaemonOwes ==
  /\ receiving = TRUE
  /\ queue \in Seq(Asker)
  /\ asked \in [Asker -> Nat] /\ lost \in [Asker -> Nat] /\ answered \in [Asker -> Nat]
  /\ \A c \in Asker : asked[c] = lost[c] + answered[c] + Queued(queue, c)

(* Nobody is answered more often than he has asked. *)
AnsweredOnce == \A c \in Asker : answered[c] + lost[c] <= asked[c]

=============================================================================
