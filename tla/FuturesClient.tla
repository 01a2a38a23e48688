------------------------------ MODULE FuturesClient ------------------------------
(***************************************************************************)
(* std_futures/daytime_client.cpp: asks a UDP daytime server for the time. *)
(*                                                                         *)
(* Two threads.  One is in io_context.run() and, because of the work       *)
(* guard, stays there until stop().  The other, main, starts operations    *)
(* one by one and blocks on the future of each; the handler that sets the  *)
(* future runs in the first.  The buffers and the socket are locals of     *)
(* get_daytime, which an exception from a future leaves early.             *)
(*                                                                         *)
(* The network is the composing module's: it decides what becomes of the   *)
(* request (KernelSends) and when a datagram comes (ReplyArrives).         *)
(***************************************************************************)
EXTENDS Naturals

Operation == {"resolve", "send", "receive"}

VARIABLES
  main,      \* before "resolve", before "open" (of the socket), blocked on the
             \*   future of "endpoints", "send_length", "recv_length", before
             \*   "stop", in "join", "exited"
  ops,       \* operations started whose handler has not run yet
  result,    \* result[o]: "none"; "value", "error": o is over in the system,
             \*   its handler is queued or has run
  runner,    \* the other thread: "run", "returned"
  stopped,   \* stop() was called
  datagrams  \* datagrams in the receive buffer of the socket

mainVars == <<main, stopped>>
vars == <<mainVars, ops, result, runner, datagrams>>

Init ==
  /\ main = "resolve"
  /\ ops = {}
  /\ result = [o \in Operation |-> "none"]
  /\ runner = "run" /\ stopped = FALSE
  /\ datagrams = 0

(* The locals of get_daytime exist. *)
InGetDaytime == main \in {"resolve", "open", "endpoints", "send_length", "recv_length"}

-----------------------------------------------------------------------------
(* The main thread *)

Resolve ==
  /\ main = "resolve"
  /\ ops' = ops \cup {"resolve"}
  /\ main' = "open"
  /\ UNCHANGED <<result, runner, stopped, datagrams>>

(* The constructor of the socket, which throws if it cannot be opened. *)
OpenSocket ==
  /\ main = "open"
  /\ main' \in {"endpoints", "stop"}
  /\ UNCHANGED <<ops, result, runner, stopped, datagrams>>

(* future.get() returns as soon as the handler has set it. *)
Set(o) == result[o] # "none" /\ o \notin ops

(* Mutant: the future is destroyed without get(), which does not block. *)
GetForgotten(o, from, to) ==
  /\ main = from
  /\ main' = to
  /\ UNCHANGED <<ops, result, runner, stopped, datagrams>>

(* get() of the last future; its value is printed, its error is thrown.     *)
Get(o, from, to) ==
  /\ main = from /\ Set(o)
  /\ main' = to
  /\ UNCHANGED <<ops, result, runner, stopped, datagrams>>

(* get() of a future whose value the next operation o2 needs, or follows: a *)
(* value starts it, an error is thrown out of get_daytime.                  *)
GetThenStart(o, from, o2, to) ==
  /\ main = from /\ Set(o)
  /\ \/ result[o] = "value" /\ main' = to /\ ops' = ops \cup {o2}
     \/ result[o] = "error" /\ main' = "stop" /\ UNCHANGED ops
  /\ UNCHANGED <<result, runner, stopped, datagrams>>

(* Mutant: io_context.stop() is left out. *)
StopForgotten ==
  /\ main = "stop"
  /\ main' = "join"
  /\ UNCHANGED <<ops, result, runner, stopped, datagrams>>

Stop ==
  /\ main = "stop"
  /\ stopped' = TRUE
  /\ main' = "join"
  /\ UNCHANGED <<ops, result, runner, datagrams>>

Join ==
  /\ main = "join" /\ runner = "returned"
  /\ main' = "exited"
  /\ UNCHANGED <<ops, result, runner, stopped, datagrams>>

Main ==
  \/ Resolve \/ OpenSocket
  \/ GetThenStart("resolve", "endpoints", "send", "send_length")
  \/ GetThenStart("send", "send_length", "receive", "recv_length")
  \/ Get("receive", "recv_length", "stop")
  \/ Stop \/ Join

-----------------------------------------------------------------------------
(* The system, and the thread in run() *)

SystemEnds(o, outcome) ==
  /\ o \in ops /\ result[o] = "none"
  /\ result' = [result EXCEPT ![o] = outcome]
  /\ UNCHANGED <<mainVars, ops, runner>>

(* The resolver's own thread has asked for the address of the host. *)
Resolved == \E r \in {"value", "error"} : SystemEnds("resolve", r) /\ UNCHANGED datagrams

(* The kernel takes the request, or refuses it. *)
KernelSends == SystemEnds("send", "value") /\ UNCHANGED datagrams
KernelRefuses == SystemEnds("send", "error") /\ UNCHANGED datagrams

ReplyArrives ==
  /\ InGetDaytime
  /\ datagrams' = datagrams + 1
  /\ UNCHANGED <<mainVars, ops, result, runner>>

Received ==
  /\ datagrams > 0
  /\ SystemEnds("receive", "value")
  /\ datagrams' = datagrams - 1

(* An error of the socket ends the receive. *)
ReceiveFails == SystemEnds("receive", "error") /\ UNCHANGED datagrams

(* The handler of an operation sets the future; after stop() none is run.   *)
RunHandler(o) ==
  /\ runner = "run" /\ ~stopped
  /\ o \in ops /\ result[o] # "none"
  /\ ops' = ops \ {o}
  /\ UNCHANGED <<mainVars, result, runner, datagrams>>

(* The work guard keeps run() from returning for any other reason. *)
RunReturns ==
  /\ runner = "run" /\ stopped
  /\ runner' = "returned"
  /\ UNCHANGED <<mainVars, ops, result, datagrams>>

Runner == RunReturns \/ \E o \in Operation : RunHandler(o)

(* Both threads run; the resolver and the kernel answer in the end, which   *)
(* the network need not.                                                    *)
Fairness ==
  /\ WF_vars(Main) /\ WF_vars(Runner)
  /\ WF_vars(Resolved) /\ WF_vars(Received)

(* Nothing is left to the two threads, nor to the resolver and the receive  *)
(* buffer; what is left to the network is the composing module's to say.    *)
Rests ==
  /\ main \notin {"resolve", "open", "stop"}
  /\ main = "endpoints" => ~ Set("resolve")
  /\ main = "send_length" => ~ Set("send")
  /\ main = "recv_length" => ~ Set("receive")
  /\ main = "join" => runner # "returned"
  /\ runner = "run" => ~ stopped /\ \A o \in ops : result[o] = "none"
  /\ "resolve" \in ops => result["resolve"] # "none"
  /\ "receive" \in ops /\ result["receive"] = "none" => datagrams = 0

-----------------------------------------------------------------------------

TypeOK ==
  /\ main \in {"resolve", "open", "endpoints", "send_length", "recv_length",
               "stop", "join", "exited"}
  /\ ops \in SUBSET Operation
  /\ result \in [Operation -> {"none", "value", "error"}]
  /\ runner \in {"run", "returned"}
  /\ stopped \in BOOLEAN
  /\ datagrams \in Nat

(* An operation that uses a local of get_daytime - send_buf, recv_buf,      *)
(* send_endpoint, the socket - ends before that function is left, by return *)
(* or by any of its exceptions.  (The resolve that may still be outstanding *)
(* when the socket cannot be opened uses none.)                             *)
BuffersOutliveOperations == ~InGetDaytime => ops \subseteq {"resolve"}

(* main blocks on the future of an operation that it has started; the other *)
(* thread returns only when it was told to (inductive, for the proofs).     *)
Blocks ==
  /\ main \in {"open", "endpoints"} => "resolve" \in ops \/ result["resolve"] # "none"
  /\ main = "send_length" => "send" \in ops \/ result["send"] # "none"
  /\ main = "recv_length" =>
       /\ result["send"] = "value"
       /\ "receive" \in ops \/ result["receive"] # "none"
  /\ stopped <=> main \in {"join", "exited"}
  /\ runner = "returned" => stopped

=============================================================================
