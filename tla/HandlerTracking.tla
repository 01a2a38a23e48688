----------------------------- MODULE HandlerTracking -----------------------------
(***************************************************************************)
(* Handler Tracking/custom_tracking.hpp: the hooks that asio calls for     *)
(* every handler, in any number of threads, and the lines they print.      *)
(* (The header has slips - h. for h->, exection_context, CREATIN - and is  *)
(* read as what they stand for.)                                           *)
(*                                                                         *)
(* A tracked_handler is a base of the operation and lies in the memory of  *)
(* that.  asio makes the completion first, then moves the handler out and  *)
(* frees the memory, which any thread may use for its next operation while *)
(* the handler still runs.  Completions nest when a handler runs another   *)
(* one inside it, and a handler may end with an exception.                 *)
(***************************************************************************)
EXTENDS Naturals, Sequences

CONSTANTS
  Thread,   \* threads that execute handlers, or start operations
  Memory    \* where operations are kept

VARIABLES
  next_handler_id,
  handler,  \* handler[m]: _handler_id of the operation kept in m, 0 if there is none
  current,  \* current[t]: t's completions from *current_completion() along _next,
            \*   each a copy of the tracked_handler, and what became of the call
  lines     \* what was printed about handlers, in order

vars == <<next_handler_id, handler, current, lines>>

Stage == {"made", "entered", "left"}

Init ==
  /\ next_handler_id = 1
  /\ handler = [m \in Memory |-> 0]
  /\ current = [t \in Thread |-> << >>]
  /\ lines = << >>

Line(what, id, t) == [what |-> what, id |-> id, thread |-> t]

(* creation: thread t starts an operation kept in m. *)
Creation(t, m) ==
  /\ handler[m] = 0
  /\ handler' = [handler EXCEPT ![m] = next_handler_id]
  /\ next_handler_id' = next_handler_id + 1
  /\ lines' = Append(lines, Line("Starting", next_handler_id, t))
  /\ UNCHANGED current

(* The completion of the operation in m copies the tracked_handler; with    *)
(* the handler moved out, the memory is free.                               *)
Completion(t, m) ==
  /\ handler[m] # 0
  /\ current' = [current EXCEPT ![t] = <<[id |-> handler[m], stage |-> "made", memory |-> m]>> \o @]
  /\ handler' = [handler EXCEPT ![m] = 0]
  /\ UNCHANGED <<next_handler_id, lines>>

(* Mutant: the completion refers to the tracked_handler in its memory. *)
HandlerInPlace(t) == handler[Head(current[t]).memory]

(* _handler._handler_id of the innermost completion, a copy. *)
HandlerId(t) == Head(current[t]).id

(* invocation_begin and invocation_end of the innermost completion of t. *)
Invocation(t, from, to, what) ==
  /\ current[t] # << >> /\ Head(current[t]).stage = from
  /\ current' = [current EXCEPT ![t][1].stage = to]
  /\ lines' = Append(lines, Line(what, HandlerId(t), t))
  /\ UNCHANGED <<next_handler_id, handler>>

InvocationBegin(t) == Invocation(t, "made", "entered", "Entering")
InvocationEnd(t)   == Invocation(t, "entered", "left", "Leaving")

(* ~completion, after the handler has returned or thrown an exception, or   *)
(* when the operation is destroyed without its handler being called.        *)
CompletionGoes(t) ==
  /\ current[t] # << >>
  /\ current' = [current EXCEPT ![t] = Tail(@)]
  /\ UNCHANGED <<next_handler_id, handler, lines>>

Next ==
  \E t \in Thread :
    \/ \E m \in Memory : Creation(t, m) \/ Completion(t, m)
    \/ InvocationBegin(t) \/ InvocationEnd(t) \/ CompletionGoes(t)

Spec == Init /\ [][Next]_vars

-----------------------------------------------------------------------------

(* The log can be read: a handler is started, entered and left at most once *)
(* each, in this order, and left by the thread that entered it - although   *)
(* its memory may by then hold another operation, which other threads start *)
(* and run, and exceptions leave completions early.                         *)
LogIsReadable ==
  /\ \A i, j \in 1 .. Len(lines) :
       lines[i].what = lines[j].what /\ lines[i].id = lines[j].id => i = j
  /\ \A j \in 1 .. Len(lines) :
       /\ lines[j].what = "Entering" =>
            \E i \in 1 .. j - 1 : lines[i].what = "Starting" /\ lines[i].id = lines[j].id
       /\ lines[j].what = "Leaving" =>
            \E i \in 1 .. j - 1 : lines[i] = Line("Entering", lines[j].id, lines[j].thread)

-----------------------------------------------------------------------------
(* The inductive invariant of the proofs. *)

CompletionRecord == [id : Nat, stage : Stage, memory : Memory]

TypeOK ==
  /\ next_handler_id \in Nat \ {0}
  /\ handler \in [Memory -> Nat]
  /\ current \in [Thread -> Seq(CompletionRecord)]
  /\ lines \in Seq([what : {"Starting", "Entering", "Leaving"}, id : Nat, thread : Thread])

Printed(what, id) == \E i \in 1 .. Len(lines) : lines[i].what = what /\ lines[i].id = id

(* The numbers that handlers, completions and lines carry were given out. *)
GivenOut ==
  /\ \A i \in 1 .. Len(lines) : lines[i].id < next_handler_id
  /\ \A m \in Memory : handler[m] # 0 =>
       /\ handler[m] < next_handler_id
       /\ Printed("Starting", handler[m])
       /\ ~Printed("Entering", handler[m]) /\ ~Printed("Leaving", handler[m])

(* A completion c of t: what its stage says was printed, and no more. *)
Held(c, t) ==
  /\ c.id < next_handler_id
  /\ Printed("Starting", c.id)
  /\ c.stage = "made" => ~Printed("Entering", c.id)
  /\ c.stage = "entered" => \E i \in 1 .. Len(lines) : lines[i] = Line("Entering", c.id, t)
  /\ c.stage # "left" => ~Printed("Leaving", c.id)

StageOfLines == \A t \in Thread : \A k \in 1 .. Len(current[t]) : Held(current[t][k], t)

(* No number is in two places. *)
Distinct ==
  /\ \A m, n \in Memory : handler[m] # 0 /\ handler[m] = handler[n] => m = n
  /\ \A t \in Thread : \A k \in 1 .. Len(current[t]) :
       /\ \A m \in Memory : handler[m] # 0 => handler[m] # current[t][k].id
       /\ \A u \in Thread : \A l \in 1 .. Len(current[u]) :
            current[t][k].id = current[u][l].id => t = u /\ k = l

IInv == TypeOK /\ LogIsReadable /\ GivenOut /\ StageOfLines /\ Distinct

=============================================================================
