--------------------------- MODULE StrandPrinterProofs ---------------------------
(***************************************************************************)
(* The safety properties of StrandPrinter for every number of threads,     *)
(* timers and every limit.                                                 *)
(***************************************************************************)
EXTENDS StrandPrinter, TLAPS

(* Before main calls run() nothing is queued, printed or counted. *)
LEMMA InitInv == Init => IInv
  BY PrinterAssumption DEF Init, IInv, TypeOK, StrandInv, OutputInv, EndInv, Handling

-----------------------------------------------------------------------------
(* One lemma per action. *)

(* An expiry touches no handler that runs, and no timer that is over. *)
LEMMA ExpireInv == ASSUME NEW i \in Timer, IInv, Expire(i) PROVE IInv'
<1> USE DEF Expire, IInv, Handling
<1>1. TypeOK' BY DEF TypeOK
<1>2. StrandInv' BY DEF TypeOK, StrandInv
<1>3. OutputInv' BY DEF TypeOK, OutputInv
<1>4. EndInv' BY DEF TypeOK, EndInv
<1>5. QED BY <1>1, <1>2, <1>3, <1>4

(* A thread enters a strand that nobody is in: it is the only one in it. *)
LEMMA EnterInv == ASSUME NEW t \in Thread, NEW i \in Timer, IInv, Enter(t, i) PROVE IInv'
<1> USE DEF Enter, IInv, Handling
<1>1. TypeOK' BY DEF TypeOK
<1>2. StrandInv'
  <2>1. \A u \in Thread : u # t => thread'[u] \notin Handling
    BY DEF TypeOK, StrandFree
  <2>2. thread'[t] = "test" /\ serving'[t] = i /\ timer'[i] = "running"
    BY DEF TypeOK
  <2>3. QED BY <2>1, <2>2 DEF StrandInv
<1>3. OutputInv' BY DEF TypeOK, OutputInv
<1>4. EndInv' BY DEF TypeOK, EndInv
<1>5. QED BY <1>1, <1>2, <1>3, <1>4

(* A handler that finds the limit reached leaves the count at the limit. *)
LEMMA TestInv == ASSUME NEW t \in Thread, IInv, Test(t) PROVE IInv'
<1> USE DEF Test, IInv, Handling
<1>1. serving[t] \in Timer BY DEF TypeOK
<1>2. TypeOK' BY <1>1 DEF TypeOK
<1>3. StrandInv'
  <2>1. \A u \in Thread : u # t => thread'[u] \notin Handling
    BY DEF TypeOK, StrandInv
  <2>2. CASE count < Limit
    <3>1. thread'[t] = "print" /\ timer'[serving'[t]] = "running" /\ count' < Limit
      BY <2>2 DEF TypeOK, StrandInv
    <3>2. QED BY <2>1, <3>1 DEF StrandInv
  <2>3. CASE ~ (count < Limit)
    <3>1. thread'[t] = "run" BY <2>3 DEF TypeOK
    <3>2. QED BY <2>1, <3>1 DEF StrandInv
  <2>4. QED BY <2>2, <2>3
<1>4. OutputInv' BY DEF TypeOK, OutputInv
<1>5. EndInv'
  <2>1. CASE count < Limit
    BY <2>1 DEF TypeOK, EndInv
  <2>2. CASE ~ (count < Limit)
    <3>1. count = Limit BY <2>2, PrinterAssumption DEF TypeOK, OutputInv
    <3>2. \A i \in Timer : timer[i] = "over" => timer'[i] = "over"
      BY <2>2, <1>1 DEF TypeOK
    <3>3. \A u \in Thread : thread'[u] = "returned" => thread[u] = "returned"
      BY <2>2 DEF TypeOK
    <3>4. QED BY <3>1, <3>2, <3>3 DEF EndInv
  <2>3. QED BY <2>1, <2>2
<1>6. QED BY <1>2, <1>3, <1>4, <1>5

(* The number printed is the one that follows those printed before. *)
LEMMA PrintInv == ASSUME NEW t \in Thread, IInv, PrintCount(t) PROVE IInv'
<1> USE DEF PrintCount, IInv, Handling
<1>1. \A u \in Thread : u # t => thread'[u] \notin Handling
  BY DEF TypeOK, StrandInv
<1>2. thread'[t] = "count" /\ count' = count BY DEF TypeOK
<1>3. TypeOK' BY PrinterAssumption DEF TypeOK
<1>4. StrandInv'
  <2>1. timer'[serving'[t]] = "running" /\ count' < Limit BY DEF TypeOK, StrandInv
  <2>2. QED BY <1>1, <1>2, <2>1 DEF StrandInv
<1>5. OutputInv'
  <2>1. Len(output) = count
    BY DEF TypeOK, StrandInv, OutputInv
  <2>2. output \in Seq(Nat) /\ count \in Nat BY PrinterAssumption DEF TypeOK
  <2>3. Len(output') = count + 1 BY <2>1, <2>2
  <2>4. \A k \in 1 .. Len(output') : output'[k] = k - 1
    <3>1. SUFFICES ASSUME NEW k \in 1 .. count + 1 PROVE output'[k] = k - 1
      BY <2>3
    <3>2. CASE k \in 1 .. count
      <4>1. output'[k] = output[k] BY <3>2, <2>1, <2>2
      <4>2. QED BY <4>1, <3>2, <2>1 DEF OutputInv
    <3>3. CASE k = count + 1 BY <3>3, <2>1, <2>2
    <3>4. k \in 1 .. count \/ k = count + 1 BY <2>2
    <3>5. QED BY <3>2, <3>3, <3>4
  <2>5. QED BY <2>3, <2>4, <1>1, <1>2 DEF OutputInv
<1>6. EndInv' BY DEF TypeOK, EndInv
<1>7. QED BY <1>3, <1>4, <1>5, <1>6

(* The count never passes the limit: it was below it when it was tested,    *)
(* and nobody else has counted since.                                       *)
LEMMA IncrementInv == ASSUME NEW t \in Thread, IInv, Increment(t) PROVE IInv'
<1> USE DEF Increment, IInv, Handling
<1>1. \A u \in Thread : u # t => thread'[u] \notin Handling
  BY DEF TypeOK, StrandInv
<1>2. thread'[t] = "rearm" /\ count' = count + 1 /\ output' = output BY DEF TypeOK
<1>3. count \in Nat /\ Limit \in Nat /\ count < Limit
  BY PrinterAssumption DEF TypeOK, StrandInv
<1>4. TypeOK' BY <1>3 DEF TypeOK
<1>5. StrandInv'
  <2>1. timer'[serving'[t]] = "running" BY DEF TypeOK, StrandInv
  <2>2. QED BY <1>1, <1>2, <2>1 DEF StrandInv
<1>6. OutputInv'
  <2>1. Len(output) = count + 1 BY DEF OutputInv
  <2>2. \A u \in Thread : thread'[u] # "count" BY <1>1, <1>2
  <2>3. count' <= Limit BY <1>2, <1>3
  <2>4. QED BY <2>1, <2>2, <2>3, <1>2 DEF OutputInv
<1>7. EndInv'
  <2>1. \A i \in Timer : timer[i] # "over" BY <1>3 DEF EndInv
  <2>2. \A u \in Thread : thread'[u] = "returned" => thread[u] = "returned"
    BY DEF TypeOK
  <2>3. QED BY <2>1, <2>2 DEF EndInv
<1>8. QED BY <1>4, <1>5, <1>6, <1>7

(* The timer waits again: the thread is out of the strand. *)
LEMMA RearmInv == ASSUME NEW t \in Thread, IInv, Rearm(t) PROVE IInv'
<1> USE DEF Rearm, IInv, Handling
<1>1. TypeOK' BY DEF TypeOK
<1>2. StrandInv'
  <2>1. \A u \in Thread : thread'[u] \notin Handling
    BY DEF TypeOK, StrandInv
  <2>2. QED BY <2>1 DEF StrandInv
<1>3. OutputInv' BY DEF TypeOK, OutputInv
<1>4. EndInv'
  <2>1. serving[t] \in Timer /\ timer[serving[t]] = "running"
    BY DEF TypeOK, StrandInv
  <2>2. \A u \in Thread : thread'[u] # "returned"
    BY <2>1 DEF TypeOK, EndInv
  <2>3. \A i \in Timer : timer'[i] = "over" => timer[i] = "over"
    BY DEF TypeOK
  <2>4. QED BY <2>2, <2>3 DEF EndInv
<1>5. QED BY <1>1, <1>2, <1>3, <1>4

(* A thread that comes back from run() leaves no timer to expire. *)
LEMMA ReturnInv == ASSUME NEW t \in Thread, IInv, Return(t) PROVE IInv'
<1> USE DEF Return, IInv, Handling
<1>1. TypeOK' BY DEF TypeOK
<1>2. StrandInv' BY DEF TypeOK, StrandInv
<1>3. OutputInv' BY DEF TypeOK, OutputInv
<1>4. EndInv' BY DEF TypeOK, EndInv
<1>5. QED BY <1>1, <1>2, <1>3, <1>4

-----------------------------------------------------------------------------
(* Theorems *)

(* The inductive invariant: of all the threads at most one is in a handler, *)
(* the count below the limit it tested and the output in step with it.      *)
THEOREM Invariance == Spec => []IInv
<1>1. IInv /\ [Next]_vars => IInv'
  <2> SUFFICES ASSUME IInv, [Next]_vars PROVE IInv'
    OBVIOUS
  <2>1. CASE \E i \in Timer : Expire(i) BY <2>1, ExpireInv
  <2>2. CASE \E t \in Thread : Test(t) BY <2>2, TestInv
  <2>3. CASE \E t \in Thread : PrintCount(t) BY <2>3, PrintInv
  <2>4. CASE \E t \in Thread : Increment(t) BY <2>4, IncrementInv
  <2>5. CASE \E t \in Thread : Rearm(t) BY <2>5, RearmInv
  <2>6. CASE \E t \in Thread : Return(t) BY <2>6, ReturnInv
  <2>7. CASE \E t \in Thread, i \in Timer : Enter(t, i) BY <2>7, EnterInv
  <2>8. CASE UNCHANGED vars
    BY <2>8 DEF vars, IInv, TypeOK, StrandInv, OutputInv, EndInv
  <2>9. QED
    BY <2>1, <2>2, <2>3, <2>4, <2>5, <2>6, <2>7, <2>8 DEF Next, Handle
<1>2. QED BY InitInv, <1>1, PTL DEF Spec

(* Type correctness of the pool of threads. *)
THEOREM TypeCorrect == Spec => []TypeOK
<1>1. IInv => TypeOK BY DEF IInv
<1>2. QED BY Invariance, <1>1, PTL

(* print1 and print2 count 0, 1, 2, ... without a gap or a repetition, on   *)
(* however many threads, and stop at the limit.                             *)
THEOREM OutputCountsUp == Spec => []CountsUp
<1>1. IInv => CountsUp
  <2> SUFFICES ASSUME IInv PROVE CountsUp
    OBVIOUS
  <2>0. output \in Seq(Nat) /\ count \in Nat /\ Limit \in Nat
    BY PrinterAssumption DEF IInv, TypeOK
  <2>1. output = [k \in 1 .. Len(output) |-> k - 1]
    <3>1. output = [k \in 1 .. Len(output) |-> output[k]] BY <2>0
    <3>2. \A k \in 1 .. Len(output) : output[k] = k - 1 BY DEF IInv, OutputInv
    <3>3. QED BY <3>1, <3>2
  <2>2. count <= Limit BY DEF IInv, OutputInv
  <2>3. Len(output) <= Limit
    <3>1. CASE \E t \in Thread : thread[t] = "count"
      <4>1. Len(output) = count + 1 BY <3>1 DEF IInv, OutputInv
      <4>2. count < Limit BY <3>1 DEF IInv, StrandInv
      <4>3. QED BY <4>1, <4>2, <2>0
    <3>2. CASE \A t \in Thread : thread[t] # "count"
      BY <3>2, <2>2 DEF IInv, OutputInv
    <3>3. QED BY <3>1, <3>2
  <2>4. QED BY <2>1, <2>2, <2>3 DEF CountsUp
<1>2. QED BY Invariance, <1>1, PTL

(* The destructor of printer prints the limit, whatever the threads did. *)
THEOREM FinalCountIsTheLimit == Spec => []FinalCount
<1>1. IInv => FinalCount
  <2> SUFFICES ASSUME IInv, Timer # {}, \A t \in Thread : thread[t] = "returned"
               PROVE  count = Limit /\ Len(output) = Limit
    BY DEF FinalCount
  <2>1. PICK i \in Timer : TRUE OBVIOUS
  <2>2. timer[i] = "over" BY PrinterAssumption DEF IInv, EndInv
  <2>3. count = Limit BY <2>2 DEF IInv, EndInv
  <2>4. Len(output) = count BY DEF IInv, OutputInv
  <2>5. QED BY <2>3, <2>4
<1>2. QED BY Invariance, <1>1, PTL

-----------------------------------------------------------------------------
(* What holds when the program stops. *)

(* Whoever leaves a handler settles its timer, and there is no second       *)
(* handler in the strand whose timer the step could touch.                  *)
LEMMA AttendedStep == ASSUME IInv, Attended, [Next]_vars PROVE Attended'
<1> USE DEF Handling
<1>0. /\ timer \in [Timer -> {"waiting", "queued", "running", "over"}]
      /\ thread \in [Thread -> Handling \cup {"run", "returned"}]
      /\ serving \in [Thread -> Timer]
      /\ \A t, u \in Thread : thread[t] \in Handling /\ thread[u] \in Handling => t = u
  BY DEF IInv, TypeOK, StrandInv
<1>1. ASSUME NEW i \in Timer, Expire(i) PROVE Attended'
  BY <1>0, <1>1 DEF Attended, Expire
<1>2. ASSUME NEW t \in Thread, NEW i \in Timer, Enter(t, i) PROVE Attended'
  <2>1. \A j \in Timer : timer[j] # "running"
    BY <1>2 DEF Attended, Enter, StrandFree
  <2>2. \A j \in Timer : timer'[j] = "running" => j = i
    BY <1>0, <1>2, <2>1 DEF Enter
  <2>3. thread'[t] = "test" /\ serving'[t] = i
    BY <1>0, <1>2 DEF Enter
  <2>4. QED BY <2>2, <2>3 DEF Attended
<1>3. ASSUME NEW t \in Thread, thread[t] \in Handling, thread'[t] \in Handling,
             timer' = timer, serving' = serving
      PROVE  Attended'
  <2> SUFFICES ASSUME NEW i \in Timer, timer[i] = "running"
               PROVE  thread'[t] \in Handling /\ serving'[t] = i
    BY <1>3 DEF Attended
  <2>1. PICK u \in Thread : thread[u] \in Handling /\ serving[u] = i
    BY DEF Attended
  <2>2. u = t BY <1>0, <1>3, <2>1
  <2>3. QED BY <1>3, <2>1, <2>2
<1>4. ASSUME NEW t \in Thread, thread[t] \in Handling,
             \A i \in Timer : i # serving[t] => timer'[i] = timer[i],
             timer'[serving[t]] # "running"
      PROVE  Attended'
  <2>1. \A i \in Timer : timer[i] = "running" => i = serving[t]
    BY <1>0, <1>4 DEF Attended
  <2>2. \A i \in Timer : timer'[i] # "running"
    BY <1>4, <2>1
  <2>3. QED BY <2>2 DEF Attended
<1>5. ASSUME NEW t \in Thread, Test(t) PROVE Attended'
  <2>1. CASE count < Limit
    <3>1. thread[t] \in Handling /\ thread'[t] \in Handling /\ timer' = timer /\ serving' = serving
      BY <1>0, <1>5, <2>1 DEF Test
    <3>2. QED BY <1>3, <3>1
  <2>2. CASE ~ (count < Limit)
    <3>1. /\ thread[t] \in Handling /\ timer'[serving[t]] = "over"
          /\ \A i \in Timer : i # serving[t] => timer'[i] = timer[i]
      BY <1>0, <1>5, <2>2 DEF Test
    <3>2. QED BY <1>4, <3>1
  <2>3. QED BY <2>1, <2>2
<1>6. ASSUME NEW t \in Thread, PrintCount(t) PROVE Attended'
  <2>1. thread[t] \in Handling /\ thread'[t] \in Handling /\ timer' = timer /\ serving' = serving
    BY <1>0, <1>6 DEF PrintCount
  <2>2. QED BY <1>3, <2>1
<1>7. ASSUME NEW t \in Thread, Increment(t) PROVE Attended'
  <2>1. thread[t] \in Handling /\ thread'[t] \in Handling /\ timer' = timer /\ serving' = serving
    BY <1>0, <1>7 DEF Increment
  <2>2. QED BY <1>3, <2>1
<1>8. ASSUME NEW t \in Thread, Rearm(t) PROVE Attended'
  <2>1. /\ thread[t] \in Handling /\ timer'[serving[t]] = "waiting"
        /\ \A i \in Timer : i # serving[t] => timer'[i] = timer[i]
    BY <1>0, <1>8 DEF Rearm
  <2>2. QED BY <1>4, <2>1
<1>9. ASSUME NEW t \in Thread, Return(t) PROVE Attended'
  BY <1>0, <1>9 DEF Attended, Return
<1>10. CASE UNCHANGED vars
  BY <1>10 DEF vars, Attended
<1>11. QED
  BY <1>1, <1>2, <1>5, <1>6, <1>7, <1>8, <1>9, <1>10 DEF Next, Handle

(* The program cannot hang: when no step is left to take, every thread has  *)
(* returned from run(), so that join() returns and the final count is       *)
(* printed.                                                                 *)
THEOREM RestsWhenDone == Spec => []RestsAtTheEnd
<1>1. Init => Attended
  BY DEF Init, Attended
<1>2. IInv /\ Attended /\ [Next]_vars => Attended'
  BY AttendedStep
<1>3. IInv /\ Attended => RestsAtTheEnd
  <2> SUFFICES ASSUME IInv, Attended, AtRest, NEW t \in Thread, thread[t] # "returned"
               PROVE  FALSE
    BY DEF RestsAtTheEnd
  <2>1. thread[t] = "run"
    BY DEF IInv, TypeOK, AtRest
  <2>2. StrandFree
    BY DEF StrandFree, AtRest
  <2>3. \A i \in Timer : timer[i] # "running"
    BY DEF Attended, AtRest
  <2>4. \A i \in Timer : timer[i] # "queued"
    BY <2>1, <2>2 DEF AtRest
  <2>5. \A i \in Timer : timer[i] = "over"
    BY <2>3, <2>4 DEF IInv, TypeOK, AtRest
  <2>6. QED
    BY <2>1, <2>5 DEF AtRest
<1>4. QED
  BY Invariance, <1>1, <1>2, <1>3, PTL DEF Spec

=============================================================================
