------------------------------ MODULE StrandPrinter ------------------------------
(***************************************************************************)
(* tutorial/syn_multi_thread.cpp: a pool of threads runs the handlers of   *)
(* several timers that share std::cout and _count, serialised by a strand. *)
(*                                                                         *)
(* print1 and print2 differ only in their timer: one definition with the   *)
(* timer as parameter stands for both.  Their statements are separate      *)
(* steps, so that the threads may interleave inside a handler as far as    *)
(* the strand allows it.  In which order the strand serves the handlers    *)
(* that wait in it is left open.                                           *)
(***************************************************************************)
EXTENDS Naturals, Sequences

CONSTANTS
  Thread,   \* the threads in io_context.run(): main and t
  Timer,    \* _timer1, _timer2
  Limit     \* the 10 of "_count < 10"

ASSUME PrinterAssumption ==
  /\ Limit \in Nat
  /\ Thread # {}

VARIABLES
  timer,    \* "waiting", "queued" (its handler is in the strand),
            \*   "running", "over" (no wait was started again)
  thread,   \* "run" (looking for work), in a handler: "test", "print", "count",
            \*   "rearm"; "returned"
  serving,  \* the timer whose handler the thread executes
  count,    \* _count
  output    \* what was printed

vars == <<timer, thread, serving, count, output>>

Handling == {"test", "print", "count", "rearm"}

Init ==
  /\ timer = [i \in Timer |-> "waiting"]
  /\ thread = [t \in Thread |-> "run"]
  /\ serving \in [Thread -> Timer]
  /\ count = 0
  /\ output = << >>

(* The timer expires: its handler, bound to the strand, is queued there. *)
Expire(i) ==
  /\ timer[i] = "waiting"
  /\ timer' = [timer EXCEPT ![i] = "queued"]
  /\ UNCHANGED <<thread, serving, count, output>>

(* Mutant: the handlers are not bound to the strand. *)
AnyoneMayEnter == TRUE

(* The strand lets a thread in only while no other executes a handler of it. *)
StrandFree == \A t \in Thread : thread[t] \notin Handling

Enter(t, i) ==
  /\ thread[t] = "run" /\ timer[i] = "queued"
  /\ StrandFree
  /\ serving' = [serving EXCEPT ![t] = i]
  /\ timer' = [timer EXCEPT ![i] = "running"]
  /\ thread' = [thread EXCEPT ![t] = "test"]
  /\ UNCHANGED <<count, output>>

(* Mutant: if (_count <= 10). *)
TestAtMost(t) ==
  /\ thread[t] = "test"
  /\ \/ /\ count <= Limit
        /\ thread' = [thread EXCEPT ![t] = "print"]
        /\ UNCHANGED timer
     \/ /\ ~ (count <= Limit)
        /\ thread' = [thread EXCEPT ![t] = "run"]
        /\ timer' = [timer EXCEPT ![serving[t]] = "over"]
  /\ UNCHANGED <<serving, count, output>>

(* Mutant: the timer is started again in any case. *)
TestRearms(t) ==
  /\ thread[t] = "test"
  /\ thread' = [thread EXCEPT ![t] = IF count < Limit THEN "print" ELSE "rearm"]
  /\ UNCHANGED <<timer, serving, count, output>>

(* if (_count < 10); otherwise the handler ends and its timer with it. *)
Test(t) ==
  /\ thread[t] = "test"
  /\ \/ /\ count < Limit
        /\ thread' = [thread EXCEPT ![t] = "print"]
        /\ UNCHANGED timer
     \/ /\ ~ (count < Limit)
        /\ thread' = [thread EXCEPT ![t] = "run"]
        /\ timer' = [timer EXCEPT ![serving[t]] = "over"]
  /\ UNCHANGED <<serving, count, output>>

PrintCount(t) ==
  /\ thread[t] = "print"
  /\ output' = Append(output, count)
  /\ thread' = [thread EXCEPT ![t] = "count"]
  /\ UNCHANGED <<timer, serving, count>>

Increment(t) ==
  /\ thread[t] = "count"
  /\ count' = count + 1
  /\ thread' = [thread EXCEPT ![t] = "rearm"]
  /\ UNCHANGED <<timer, serving, output>>

(* expires_at, async_wait, and the handler returns. *)
Rearm(t) ==
  /\ thread[t] = "rearm"
  /\ timer' = [timer EXCEPT ![serving[t]] = "waiting"]
  /\ thread' = [thread EXCEPT ![t] = "run"]
  /\ UNCHANGED <<serving, count, output>>

(* run() returns when no wait is outstanding and no handler queued. *)
Return(t) ==
  /\ thread[t] = "run"
  /\ \A i \in Timer : timer[i] = "over"
  /\ thread' = [thread EXCEPT ![t] = "returned"]
  /\ UNCHANGED <<timer, serving, count, output>>

Handle(t) == Test(t) \/ PrintCount(t) \/ Increment(t) \/ Rearm(t)

Next ==
  \/ \E i \in Timer : Expire(i)
  \/ \E t \in Thread : Handle(t) \/ Return(t) \/ \E i \in Timer : Enter(t, i)

(* Time passes, every thread is scheduled, and a queued handler is run. *)
Fairness ==
  /\ \A i \in Timer : WF_vars(Expire(i))
  /\ \A t \in Thread : WF_vars(Handle(t)) /\ WF_vars(Return(t))
  /\ \A i \in Timer : WF_vars(\E t \in Thread : Enter(t, i))

Spec == Init /\ [][Next]_vars /\ Fairness

-----------------------------------------------------------------------------
(* Properties *)

TypeOK ==
  /\ timer \in [Timer -> {"waiting", "queued", "running", "over"}]
  /\ thread \in [Thread -> Handling \cup {"run", "returned"}]
  /\ serving \in [Thread -> Timer]
  /\ count \in 0 .. Limit
  /\ output \in Seq(Nat)

(* The handlers print 0, 1, 2, ... whichever threads and timers they run    *)
(* on: no number is printed twice or left out, and none reaches the limit   *)
(* that the handlers test before they print.                                *)
CountsUp ==
  /\ output = [k \in 1 .. Len(output) |-> k - 1]
  /\ Len(output) <= Limit
  /\ count <= Limit

(* "Final count is": when the last thread has returned from run(), the      *)
(* program has counted exactly to the limit, with several timers too.       *)
FinalCount ==
  Timer # {} /\ (\A t \in Thread : thread[t] = "returned") =>
    count = Limit /\ Len(output) = Limit

(* Both threads come back from run() and join() returns. *)
ProgramEnds == <>(\A t \in Thread : thread[t] = "returned")

(* Nothing can happen any more: no timer runs, no thread is in a handler,   *)
(* none finds a handler to enter, and none may return from run().           *)
AtRest ==
  /\ \A i \in Timer : timer[i] # "waiting"
  /\ \A t \in Thread : thread[t] \notin Handling
  /\ \A t \in Thread : thread[t] = "run" =>
       /\ \A i \in Timer : timer[i] = "queued" => ~StrandFree
       /\ \E i \in Timer : timer[i] # "over"

(* The program stops only by ending: it never comes to rest with a thread   *)
(* still in run(), waiting for a handler that nobody will let it enter or   *)
(* for a timer that nobody started.                                         *)
RestsAtTheEnd == AtRest => \A t \in Thread : thread[t] = "returned"

-----------------------------------------------------------------------------
(* The inductive invariant of the proofs: one thread at a time in a handler, *)
(* and what it has done so far.                                              *)
StrandInv ==
  /\ \A t, u \in Thread : thread[t] \in Handling /\ thread[u] \in Handling => t = u
  /\ \A t \in Thread : thread[t] \in Handling => timer[serving[t]] = "running"
  /\ \A t \in Thread : thread[t] \in {"print", "count"} => count < Limit

OutputInv ==
  /\ \A k \in 1 .. Len(output) : output[k] = k - 1
  /\ \A t \in Thread : thread[t] = "count" => Len(output) = count + 1
  /\ (\A t \in Thread : thread[t] # "count") => Len(output) = count
  /\ count <= Limit

EndInv ==
  /\ \A i \in Timer : timer[i] = "over" => count = Limit
  /\ \A t \in Thread : thread[t] = "returned" => \A i \in Timer : timer[i] = "over"

IInv == TypeOK /\ StrandInv /\ OutputInv /\ EndInv

(* A timer is "running" only while a thread is in its handler: no way out   *)
(* of a handler forgets it.                                                 *)
Attended ==
  \A i \in Timer : timer[i] = "running" =>
    \E t \in Thread : thread[t] \in Handling /\ serving[t] = i

=============================================================================
