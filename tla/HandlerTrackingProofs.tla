-------------------------- MODULE HandlerTrackingProofs --------------------------
(***************************************************************************)
(* The log of HandlerTracking is readable for any number of threads and    *)
(* operations, any nesting of handlers and any memory.                     *)
(***************************************************************************)
EXTENDS HandlerTracking, TLAPS

LineRecord == [what : {"Starting", "Entering", "Leaving"}, id : Nat, thread : Thread]

-----------------------------------------------------------------------------
(* One more line *)

LEMMA AppendFacts ==
  ASSUME NEW S, NEW q \in Seq(S), NEW x \in S
  PROVE  /\ Append(q, x) \in Seq(S) /\ Len(Append(q, x)) = Len(q) + 1 /\ Len(q) \in Nat
         /\ \A i \in 1 .. Len(q) : Append(q, x)[i] = q[i] /\ i \in 1 .. Len(Append(q, x))
         /\ Append(q, x)[Len(q) + 1] = x /\ Len(q) + 1 \in 1 .. Len(Append(q, x))
         /\ \A i \in 1 .. Len(Append(q, x)) : i \in 1 .. Len(q) \/ i = Len(q) + 1
  OBVIOUS

LEMMA LineFacts ==
  ASSUME NEW what \in {"Starting", "Entering", "Leaving"}, NEW id \in Nat, NEW t \in Thread
  PROVE  /\ Line(what, id, t) \in LineRecord
         /\ Line(what, id, t).what = what /\ Line(what, id, t).id = id /\ Line(what, id, t).thread = t
  BY DEF Line, LineRecord

(* What is printed stays printed, and nothing else is than the new line. *)
LEMMA PrintedOneMore ==
  ASSUME NEW what \in {"Starting", "Entering", "Leaving"}, NEW id \in Nat, NEW t \in Thread,
         lines \in Seq(LineRecord), lines' = Append(lines, Line(what, id, t))
  PROVE  /\ lines' \in Seq(LineRecord)
         /\ \A w, j : Printed(w, j)' <=> Printed(w, j) \/ (w = what /\ j = id)
         /\ \A x : (\E i \in 1 .. Len(lines) : lines[i] = x) => \E i \in 1 .. Len(lines') : lines'[i] = x
         /\ \E i \in 1 .. Len(lines') : lines'[i] = Line(what, id, t)
<1> DEFINE x == Line(what, id, t)
<1>1. x \in LineRecord /\ x.what = what /\ x.id = id BY LineFacts
<1> HIDE DEF x
<1>2. lines' = Append(lines, x) BY DEF x
<1>3. /\ lines' \in Seq(LineRecord)
      /\ \A i \in 1 .. Len(lines) : lines'[i] = lines[i] /\ i \in 1 .. Len(lines')
      /\ lines'[Len(lines) + 1] = x /\ Len(lines) + 1 \in 1 .. Len(lines')
      /\ \A i \in 1 .. Len(lines') : i \in 1 .. Len(lines) \/ i = Len(lines) + 1
  BY <1>1, <1>2, AppendFacts
<1>4. \A w, j : Printed(w, j)' <=> Printed(w, j) \/ (w = what /\ j = id)
  <2>1. TAKE w, j
  <2>2. Printed(w, j)' => Printed(w, j) \/ (w = what /\ j = id)
    BY <1>1, <1>3 DEF Printed
  <2>3. Printed(w, j) => Printed(w, j)'
    BY <1>3 DEF Printed
  <2>4. w = what /\ j = id => Printed(w, j)'
    BY <1>1, <1>3 DEF Printed
  <2>5. QED BY <2>2, <2>3, <2>4
<1>5. QED BY <1>3, <1>4, Zenon DEF x

(* A line that was not printed before, and follows the one it should, may   *)
(* be printed.                                                              *)
LEMMA LogOneMore ==
  ASSUME NEW what \in {"Starting", "Entering", "Leaving"}, NEW id \in Nat, NEW t \in Thread,
         lines \in Seq(LineRecord), lines' = Append(lines, Line(what, id, t)),
         LogIsReadable, ~Printed(what, id),
         what = "Entering" => Printed("Starting", id),
         what = "Leaving" => \E i \in 1 .. Len(lines) : lines[i] = Line("Entering", id, t)
  PROVE  LogIsReadable'
<1> DEFINE x == Line(what, id, t)
<1>1. x \in LineRecord /\ x.what = what /\ x.id = id /\ x.thread = t BY LineFacts
<1> HIDE DEF x
<1>2. lines' = Append(lines, x) BY DEF x
<1>3. /\ Len(lines) \in Nat /\ Len(lines') = Len(lines) + 1
      /\ \A i \in 1 .. Len(lines) : lines'[i] = lines[i]
      /\ lines'[Len(lines) + 1] = x
      /\ \A i \in 1 .. Len(lines') : i \in 1 .. Len(lines) \/ i = Len(lines) + 1
  BY <1>1, <1>2, AppendFacts
<1>4. ASSUME NEW i \in 1 .. Len(lines'), NEW j \in 1 .. Len(lines'),
             lines'[i].what = lines'[j].what, lines'[i].id = lines'[j].id
      PROVE  i = j
  <2>1. CASE i \in 1 .. Len(lines) /\ j \in 1 .. Len(lines)
    BY <1>3, <1>4, <2>1 DEF LogIsReadable
  <2>2. CASE i \in 1 .. Len(lines) /\ j = Len(lines) + 1
    BY <1>1, <1>3, <1>4, <2>2 DEF Printed
  <2>3. CASE i = Len(lines) + 1 /\ j \in 1 .. Len(lines)
    BY <1>1, <1>3, <1>4, <2>3 DEF Printed
  <2>4. QED BY <1>3, <2>1, <2>2, <2>3
<1>5. ASSUME NEW j \in 1 .. Len(lines'), lines'[j].what = "Entering"
      PROVE  \E i \in 1 .. j - 1 : lines'[i].what = "Starting" /\ lines'[i].id = lines'[j].id
  <2>1. CASE j \in 1 .. Len(lines)
    <3>1. PICK i \in 1 .. j - 1 : lines[i].what = "Starting" /\ lines[i].id = lines[j].id
      BY <1>3, <1>5, <2>1 DEF LogIsReadable
    <3>2. i \in 1 .. Len(lines) BY <1>3, <2>1
    <3>3. QED BY <1>3, <2>1, <3>1, <3>2
  <2>2. CASE j = Len(lines) + 1
    <3>1. PICK i \in 1 .. Len(lines) : lines[i].what = "Starting" /\ lines[i].id = id
      BY <1>1, <1>3, <1>5, <2>2 DEF Printed
    <3>2. i \in 1 .. j - 1 BY <1>3, <2>2
    <3>3. QED BY <1>1, <1>3, <2>2, <3>1, <3>2
  <2>3. QED BY <1>3, <2>1, <2>2
<1>6. ASSUME NEW j \in 1 .. Len(lines'), lines'[j].what = "Leaving"
      PROVE  \E i \in 1 .. j - 1 : lines'[i] = Line("Entering", lines'[j].id, lines'[j].thread)
  <2>1. CASE j \in 1 .. Len(lines)
    <3>1. PICK i \in 1 .. j - 1 : lines[i] = Line("Entering", lines[j].id, lines[j].thread)
      BY <1>3, <1>6, <2>1 DEF LogIsReadable
    <3>2. i \in 1 .. Len(lines) BY <1>3, <2>1
    <3>3. QED BY <1>3, <2>1, <3>1, <3>2
  <2>2. CASE j = Len(lines) + 1
    <3>1. PICK i \in 1 .. Len(lines) : lines[i] = Line("Entering", id, t)
      BY <1>1, <1>3, <1>6, <2>2
    <3>2. i \in 1 .. j - 1 BY <1>3, <2>2
    <3>3. QED BY <1>1, <1>3, <2>2, <3>1, <3>2
  <2>3. QED BY <1>3, <2>1, <2>2
<1>7. QED BY <1>4, <1>5, <1>6 DEF LogIsReadable

-----------------------------------------------------------------------------
(* The places of what changes *)

LEMMA TypeUnfolded ==
  TypeOK <=> /\ next_handler_id \in Nat \ {0}
             /\ handler \in [Memory -> Nat]
             /\ current \in [Thread -> Seq(CompletionRecord)]
             /\ lines \in Seq(LineRecord)
  BY DEF TypeOK, LineRecord

(* GivenOut in terms of Printed. *)
LEMMA PrintedIsGivenOut ==
  ASSUME TypeOK
  PROVE  (\A i \in 1 .. Len(lines) : lines[i].id < next_handler_id)
           <=> \A w, j : Printed(w, j) => j < next_handler_id
  BY DEF Printed

LEMMA OneMemory ==
  ASSUME NEW m \in Memory, NEW v \in Nat, handler \in [Memory -> Nat], handler' = [handler EXCEPT ![m] = v]
  PROVE  /\ handler' \in [Memory -> Nat]
         /\ \A x \in Memory : handler'[x] = IF x = m THEN v ELSE handler[x]
  OBVIOUS

(* A completion in front of the others. *)
LEMMA InFront ==
  ASSUME NEW S, NEW q \in Seq(S), NEW x \in S
  PROVE  /\ <<x>> \o q \in Seq(S)
         /\ (<<x>> \o q)[1] = x
         /\ \A k \in 1 .. Len(<<x>> \o q) : k = 1 \/ (k - 1 \in 1 .. Len(q) /\ (<<x>> \o q)[k] = q[k - 1])
  OBVIOUS

LEMMA WithoutFirst ==
  ASSUME NEW S, NEW q \in Seq(S), q # << >>
  PROVE  /\ Tail(q) \in Seq(S)
         /\ \A k \in 1 .. Len(Tail(q)) : k + 1 \in 1 .. Len(q) /\ Tail(q)[k] = q[k + 1]
  OBVIOUS

LEMMA FirstExcept ==
  ASSUME NEW S, NEW q \in Seq(S), q # << >>, NEW x \in S
  PROVE  /\ [q EXCEPT ![1] = x] \in Seq(S)
         /\ Len([q EXCEPT ![1] = x]) = Len(q) /\ 1 \in 1 .. Len(q) /\ Head(q) = q[1]
         /\ \A k \in 1 .. Len(q) : [q EXCEPT ![1] = x][k] = IF k = 1 THEN x ELSE q[k]
  OBVIOUS

LEMMA OneThread ==
  ASSUME NEW S, NEW f \in [Thread -> S], NEW t \in Thread, NEW v \in S
  PROVE  /\ [f EXCEPT ![t] = v] \in [Thread -> S]
         /\ \A u \in Thread : [f EXCEPT ![t] = v][u] = IF u = t THEN v ELSE f[u]
  OBVIOUS

LEMMA CompletionFacts ==
  ASSUME NEW id \in Nat, NEW stage \in Stage, NEW m \in Memory
  PROVE  LET c == [id |-> id, stage |-> stage, memory |-> m]
         IN  c \in CompletionRecord /\ c.id = id /\ c.stage = stage
  BY DEF CompletionRecord

(* A line that is not about the entering or leaving of c leaves c as it is. *)
LEMMA HeldOneMore ==
  ASSUME NEW what \in {"Starting", "Entering", "Leaving"}, NEW id \in Nat, NEW t \in Thread,
         lines \in Seq(LineRecord), lines' = Append(lines, Line(what, id, t)),
         next_handler_id \in Nat, next_handler_id' \in Nat, next_handler_id <= next_handler_id',
         NEW c \in CompletionRecord, NEW u \in Thread, Held(c, u), what = "Starting" \/ c.id # id
  PROVE  Held(c, u)'
<1>1. \A w, j : Printed(w, j)' <=> Printed(w, j) \/ (w = what /\ j = id)
  BY PrintedOneMore
<1>2. (\E i \in 1 .. Len(lines) : lines[i] = Line("Entering", c.id, u))
        => \E i \in 1 .. Len(lines') : lines'[i] = Line("Entering", c.id, u)
  BY PrintedOneMore, Zenon
<1>3. c.id < next_handler_id'
  <2>1. c.id \in Nat /\ c.id < next_handler_id BY DEF Held, CompletionRecord
  <2>2. QED BY <2>1
<1>4. Printed("Starting", c.id)' /\ (c.stage = "made" => ~Printed("Entering", c.id)')
      /\ (c.stage # "left" => ~Printed("Leaving", c.id)')
  <2>1. Printed("Starting", c.id)' BY <1>1, Zenon DEF Held
  <2>2. c.stage = "made" => ~Printed("Entering", c.id)' BY <1>1 DEF Held
  <2>3. c.stage # "left" => ~Printed("Leaving", c.id)' BY <1>1 DEF Held
  <2>4. QED BY <2>1, <2>2, <2>3
<1>5. QED BY <1>2, <1>3, <1>4 DEF Held

-----------------------------------------------------------------------------
(* Every action preserves IInv *)

(* No handler has been created and no completion is running                 *)
(* (custom_tracking::init).                                                 *)
THEOREM InitInv == Init => IInv
<1> SUFFICES ASSUME Init PROVE IInv OBVIOUS
<1>1. TypeOK BY DEF Init, TypeOK
<1>2. LogIsReadable BY DEF Init, LogIsReadable
<1>3. GivenOut BY DEF Init, GivenOut
<1>4. StageOfLines BY DEF Init, StageOfLines
<1>5. Distinct BY DEF Init, Distinct
<1>6. QED BY <1>1, <1>2, <1>3, <1>4, <1>5 DEF IInv

LEMMA CreationInv ==
  ASSUME IInv, NEW t \in Thread, NEW m \in Memory, Creation(t, m)
  PROVE  IInv'
<1> DEFINE n == next_handler_id
<1>1. n \in Nat /\ n # 0 /\ handler \in [Memory -> Nat] /\ current \in [Thread -> Seq(CompletionRecord)]
      /\ lines \in Seq(LineRecord)
  BY TypeUnfolded DEF IInv
<1>2. /\ handler' = [handler EXCEPT ![m] = n] /\ next_handler_id' = n + 1 /\ current' = current
      /\ lines' = Append(lines, Line("Starting", n, t)) /\ handler[m] = 0
  BY DEF Creation
<1>3. \A w, j : Printed(w, j) => j < n
  BY PrintedIsGivenOut DEF IInv, GivenOut, n
<1>4. ~Printed("Starting", n) /\ ~Printed("Entering", n) /\ ~Printed("Leaving", n)
  BY <1>1, <1>3
<1>5. n \in Nat BY <1>1
<1> HIDE DEF n
<1>13. lines' \in Seq(LineRecord)
  BY <1>1, <1>2, <1>5, PrintedOneMore
<1>14. \A w, j : Printed(w, j)' <=> Printed(w, j) \/ (w = "Starting" /\ j = n)
  BY <1>1, <1>2, <1>5, PrintedOneMore
<1>6. /\ handler' \in [Memory -> Nat]
      /\ \A x \in Memory : handler'[x] = IF x = m THEN n ELSE handler[x]
  BY <1>1, <1>2, OneMemory
<1>7. TypeOK'
  BY <1>1, <1>2, <1>13, <1>6 DEF TypeOK, LineRecord
<1>8. LogIsReadable'
  <2>1. n \in Nat /\ LogIsReadable BY <1>1 DEF IInv
  <2>2. QED BY <1>1, <1>2, <1>4, <2>1, LogOneMore
<1>9. GivenOut'
  <2>2. ASSUME NEW i \in 1 .. Len(lines') PROVE lines'[i].id < next_handler_id'
    <3>5. lines'[i] \in LineRecord BY <1>13
    <3>1. lines'[i].id \in Nat BY <3>5 DEF LineRecord
    <3>2. Printed(lines[i].what, lines[i].id)' BY <1>13 DEF Printed
    <3>3. Printed(lines'[i].what, lines'[i].id) \/ lines'[i].id = n BY <1>14, <3>2
    <3>4. QED BY <1>1, <1>2, <1>3, <3>1, <3>3
  <2>3. ASSUME NEW x \in Memory, handler'[x] # 0
        PROVE  /\ handler'[x] < next_handler_id'
               /\ Printed("Starting", handler[x])'
               /\ ~Printed("Entering", handler[x])' /\ ~Printed("Leaving", handler[x])'
    <3>1. CASE x = m
      BY <1>1, <1>2, <1>4, <1>14, <1>6, <3>1
    <3>2. CASE x # m
      <4>1. handler'[x] = handler[x] /\ handler[x] < n /\ Printed("Starting", handler[x])
            /\ ~Printed("Entering", handler[x]) /\ ~Printed("Leaving", handler[x])
        BY <1>6, <2>3, <3>2 DEF IInv, GivenOut, n
      <4>2. QED BY <1>1, <1>2, <1>14, <1>6, <4>1
    <3>3. QED BY <3>1, <3>2
  <2>4. QED BY <2>2, <2>3 DEF GivenOut
<1>10. StageOfLines'
  <2>1. ASSUME NEW u \in Thread, NEW k \in 1 .. Len(current[u]) PROVE Held(current[u][k], u)'
    <3>1. current[u][k] \in CompletionRecord /\ Held(current[u][k], u)
      BY <1>1 DEF IInv, StageOfLines
    <3>2. next_handler_id \in Nat /\ next_handler_id' \in Nat /\ next_handler_id <= next_handler_id'
      BY <1>1, <1>2 DEF n
    <3>3. QED BY <1>1, <1>2, <1>5, <3>1, <3>2, HeldOneMore
  <2>2. QED BY <1>2, <2>1 DEF StageOfLines
<1>11. Distinct'
  <2>1. ASSUME NEW x \in Memory PROVE handler[x] # n
    <3>1. handler[x] # 0 => handler[x] < n
      BY DEF IInv, GivenOut, n
    <3>2. handler[x] \in Nat /\ n # 0
      BY <1>1 DEF n
    <3>3. QED
      BY <1>5, <3>1, <3>2
  <2>2. ASSUME NEW u \in Thread, NEW k \in 1 .. Len(current[u]) PROVE current[u][k].id # n
    <3>1. current[u][k].id < n BY DEF IInv, StageOfLines, Held, n
    <3>2. current[u][k] \in CompletionRecord BY <1>1
    <3>3. current[u][k].id \in Nat BY <3>2 DEF CompletionRecord
    <3>4. QED BY <1>5, <3>1, <3>3
  <2>3. QED BY <1>2, <1>6, <2>1, <2>2 DEF IInv, Distinct
<1>12. QED BY <1>7, <1>8, <1>9, <1>10, <1>11 DEF IInv

(* Nothing printed, no number given out. *)
LEMMA NothingPrinted ==
  ASSUME UNCHANGED <<next_handler_id, lines>>
  PROVE  /\ LogIsReadable => LogIsReadable'
         /\ \A w, j : Printed(w, j)' <=> Printed(w, j)
         /\ \A c, u : Held(c, u)' <=> Held(c, u)
<1>1. LogIsReadable => LogIsReadable' BY DEF LogIsReadable
<1>2. \A w, j : Printed(w, j)' <=> Printed(w, j) BY DEF Printed
<1>3. \A c, u : Held(c, u)' <=> Held(c, u) BY DEF Held, Printed
<1>4. QED BY <1>1, <1>2, <1>3

LEMMA CompletionInv ==
  ASSUME IInv, NEW t \in Thread, NEW m \in Memory, Completion(t, m)
  PROVE  IInv'
<1> DEFINE c == [id |-> handler[m], stage |-> "made", memory |-> m]
<1>1. next_handler_id \in Nat /\ next_handler_id # 0 /\ handler \in [Memory -> Nat]
      /\ current \in [Thread -> Seq(CompletionRecord)] /\ lines \in Seq(LineRecord)
  BY TypeUnfolded DEF IInv
<1>2. /\ handler[m] # 0 /\ UNCHANGED <<next_handler_id, lines>>
      /\ current' = [current EXCEPT ![t] = <<c>> \o current[t]] /\ handler' = [handler EXCEPT ![m] = 0]
  BY <1>1 DEF Completion
<1>3. c \in CompletionRecord /\ c.id = handler[m] /\ c.stage = "made"
  BY <1>1, CompletionFacts DEF Stage
<1> HIDE DEF c
<1>4. /\ current[t] \in Seq(CompletionRecord)
      /\ <<c>> \o current[t] \in Seq(CompletionRecord)
      /\ (<<c>> \o current[t])[1] = c
      /\ \A k \in 1 .. Len(<<c>> \o current[t]) :
           k = 1 \/ (k - 1 \in 1 .. Len(current[t]) /\ (<<c>> \o current[t])[k] = current[t][k - 1])
  BY <1>1, <1>3, InFront
<1>5. /\ current' \in [Thread -> Seq(CompletionRecord)]
      /\ \A u \in Thread : current'[u] = IF u = t THEN <<c>> \o current[t] ELSE current[u]
  BY <1>1, <1>2, <1>4, OneThread
<1>6. \A u \in Thread : \A k \in 1 .. Len(current'[u]) :
        \/ u = t /\ k = 1 /\ current'[u][k] = c
        \/ \E l \in 1 .. Len(current[u]) : /\ l = (IF u = t THEN k - 1 ELSE k)
                                           /\ current'[u][k] = current[u][l]
  BY <1>4, <1>5
<1>7. /\ handler' \in [Memory -> Nat]
      /\ \A x \in Memory : handler'[x] = IF x = m THEN 0 ELSE handler[x]
  BY <1>1, <1>2, OneMemory
<1>8. TypeOK'
  BY <1>1, <1>2, <1>5, <1>7 DEF TypeOK, LineRecord
<1>9. LogIsReadable'
  BY <1>2, NothingPrinted DEF IInv
<1>10. GivenOut'
  BY <1>2, <1>7, NothingPrinted DEF IInv, GivenOut
<1>11. StageOfLines'
  <2>1. Held(c, t)
    BY <1>2, <1>3 DEF IInv, GivenOut, Held
  <2>2. ASSUME NEW u \in Thread, NEW k \in 1 .. Len(current'[u]) PROVE Held(current'[u][k], u)
    BY <1>6, <2>1 DEF IInv, StageOfLines
  <2>3. ASSUME NEW u \in Thread, NEW k \in 1 .. Len(current'[u]) PROVE Held(current[u][k], u)'
    BY <1>2, <2>2, NothingPrinted
  <2>4. QED BY <2>3 DEF StageOfLines
<1>12. Distinct'
  <2>1. \A x, y \in Memory : handler'[x] # 0 /\ handler'[x] = handler'[y] => x = y
    BY <1>7 DEF IInv, Distinct
  <2>2. \A u \in Thread : \A k \in 1 .. Len(current[u]) : current[u][k].id # c.id
    BY <1>2, <1>3 DEF IInv, Distinct
  <2>3. \A u \in Thread : \A k \in 1 .. Len(current'[u]) : \A x \in Memory :
          handler'[x] # 0 => handler'[x] # current'[u][k].id
    BY <1>2, <1>3, <1>6, <1>7, <2>2 DEF IInv, Distinct
  <2>4. ASSUME NEW u \in Thread, NEW k \in 1 .. Len(current'[u]),
               NEW v \in Thread, NEW l \in 1 .. Len(current'[v]),
               current'[u][k].id = current'[v][l].id
        PROVE  u = v /\ k = l
    <3>1. CASE current'[u][k].id = c.id
      <4>1. ASSUME NEW w \in Thread, NEW h \in 1 .. Len(current'[w]),
                   current'[w][h].id = c.id
            PROVE  w = t /\ h = 1
        <5>1. \A i \in 1 .. Len(current[w]) : current'[w][h] # current[w][i]
          BY <2>2, <4>1
        <5>2. QED BY <1>6, <5>1, Zenon
      <4>2. u = t /\ k = 1 BY <3>1, <4>1
      <4>3. v = t /\ l = 1 BY <2>4, <3>1, <4>1
      <4>4. QED BY <4>2, <4>3
    <3>2. CASE current'[u][k].id # c.id
      <4>1. PICK i \in 1 .. Len(current[u]) :
              i = (IF u = t THEN k - 1 ELSE k) /\ current'[u][k] = current[u][i]
        BY <1>6, <3>2
      <4>2. PICK j \in 1 .. Len(current[v]) :
              j = (IF v = t THEN l - 1 ELSE l) /\ current'[v][l] = current[v][j]
        BY <1>6, <2>4, <3>2
      <4>3. u = v /\ i = j BY <2>4, <4>1, <4>2 DEF IInv, Distinct
      <4>4. QED BY <4>1, <4>2, <4>3
    <3>3. QED BY <3>1, <3>2
  <2>5. QED BY <2>1, <2>3, <2>4 DEF Distinct
<1>13. QED BY <1>8, <1>9, <1>10, <1>11, <1>12 DEF IInv

LEMMA CompletionGoesInv ==
  ASSUME IInv, NEW t \in Thread, CompletionGoes(t)
  PROVE  IInv'
<1>1. next_handler_id \in Nat /\ handler \in [Memory -> Nat]
      /\ current \in [Thread -> Seq(CompletionRecord)] /\ lines \in Seq(LineRecord)
  BY TypeUnfolded DEF IInv
<1>2. /\ UNCHANGED <<next_handler_id, handler, lines>> /\ current[t] # << >>
      /\ current' = [current EXCEPT ![t] = Tail(current[t])]
  BY <1>1 DEF CompletionGoes
<1>3. /\ current[t] \in Seq(CompletionRecord)
      /\ Tail(current[t]) \in Seq(CompletionRecord)
      /\ \A k \in 1 .. Len(Tail(current[t])) :
           k + 1 \in 1 .. Len(current[t]) /\ Tail(current[t])[k] = current[t][k + 1]
  BY <1>1, <1>2, WithoutFirst
<1>4. /\ current' \in [Thread -> Seq(CompletionRecord)]
      /\ \A u \in Thread : current'[u] = IF u = t THEN Tail(current[t]) ELSE current[u]
  BY <1>1, <1>2, <1>3, OneThread
<1>5. \A u \in Thread : \A k \in 1 .. Len(current'[u]) :
        \E l \in 1 .. Len(current[u]) : l = (IF u = t THEN k + 1 ELSE k) /\ current'[u][k] = current[u][l]
  BY <1>3, <1>4
<1>6. TypeOK'
  BY <1>1, <1>2, <1>4 DEF IInv, TypeOK
<1>7. LogIsReadable' /\ GivenOut'
  BY <1>2, NothingPrinted DEF IInv, GivenOut
<1>8. StageOfLines'
  <2>1. ASSUME NEW u \in Thread, NEW k \in 1 .. Len(current'[u]) PROVE Held(current'[u][k], u)
    BY <1>5 DEF IInv, StageOfLines
  <2>2. ASSUME NEW u \in Thread, NEW k \in 1 .. Len(current'[u]) PROVE Held(current[u][k], u)'
    BY <1>2, <2>1, NothingPrinted
  <2>3. QED BY <2>2 DEF StageOfLines
<1>9. Distinct'
  <2>1. ASSUME NEW u \in Thread, NEW k \in 1 .. Len(current'[u]),
               NEW v \in Thread, NEW l \in 1 .. Len(current'[v]),
               current'[u][k].id = current'[v][l].id
        PROVE  u = v /\ k = l
    <3>1. PICK i \in 1 .. Len(current[u]) :
            i = (IF u = t THEN k + 1 ELSE k) /\ current'[u][k] = current[u][i]
      BY <1>5
    <3>2. PICK j \in 1 .. Len(current[v]) :
            j = (IF v = t THEN l + 1 ELSE l) /\ current'[v][l] = current[v][j]
      BY <1>5
    <3>3. u = v /\ i = j BY <2>1, <3>1, <3>2 DEF IInv, Distinct
    <3>4. QED BY <3>1, <3>2, <3>3
  <2>2. \A u \in Thread : \A k \in 1 .. Len(current'[u]) : \A x \in Memory :
          handler'[x] # 0 => handler'[x] # current'[u][k].id
    BY <1>2, <1>5 DEF IInv, Distinct
  <2>3. QED BY <1>2, <2>1, <2>2 DEF IInv, Distinct
<1>10. QED BY <1>6, <1>7, <1>8, <1>9 DEF IInv

LEMMA InvocationInv ==
  ASSUME IInv, NEW t \in Thread, NEW from, NEW to, NEW what, Invocation(t, from, to, what),
         \/ from = "made" /\ to = "entered" /\ what = "Entering"
         \/ from = "entered" /\ to = "left" /\ what = "Leaving"
  PROVE  IInv'
<1> DEFINE old == current[t][1]
           c == [id |-> old.id, stage |-> to, memory |-> old.memory]
           new == [current[t] EXCEPT ![1] = c]
<1>1. next_handler_id \in Nat /\ handler \in [Memory -> Nat]
      /\ current \in [Thread -> Seq(CompletionRecord)] /\ lines \in Seq(LineRecord)
  BY TypeUnfolded DEF IInv
<1>2. current[t] \in Seq(CompletionRecord) /\ current[t] # << >> /\ 1 \in 1 .. Len(current[t])
      /\ Head(current[t]) = old /\ old \in CompletionRecord
  BY <1>1 DEF Invocation
<1>3. old.id \in Nat /\ old.memory \in Memory /\ old.stage = from /\ to \in Stage
      /\ what \in {"Starting", "Entering", "Leaving"}
  BY <1>2 DEF CompletionRecord, Invocation, Stage
<1>4. c \in CompletionRecord /\ c.id = old.id /\ c.stage = to
  <2>1. old.id \in Nat /\ old.memory \in Memory /\ to \in Stage BY <1>3
  <2>2. QED BY <2>1, CompletionFacts
<1>5. current' = [current EXCEPT ![t] = new]
  <2>1. [old EXCEPT !.stage = to] = c BY <1>2 DEF CompletionRecord
  <2>2. current' = [current EXCEPT ![t] = [current[t] EXCEPT ![1] = [old EXCEPT !.stage = to]]]
    BY DEF Invocation
  <2>3. QED BY <2>1, <2>2
<1>6. /\ UNCHANGED <<next_handler_id, handler>>
      /\ lines' = Append(lines, Line(what, old.id, t))
  BY <1>2 DEF Invocation, HandlerId
<1>7. /\ new \in Seq(CompletionRecord) /\ Len(new) = Len(current[t])
      /\ \A k \in 1 .. Len(current[t]) : new[k] = IF k = 1 THEN c ELSE current[t][k]
  <2> HIDE DEF c
  <2>1. QED BY <1>2, <1>4, FirstExcept
<1> DEFINE id == old.id
<1>8. id \in Nat /\ c.id = id /\ lines' = Append(lines, Line(what, id, t)) BY <1>3, <1>4, <1>6
<1>9. Held(old, t) BY <1>2 DEF IInv, StageOfLines
<1>10. /\ current' \in [Thread -> Seq(CompletionRecord)]
       /\ \A u \in Thread : current'[u] = IF u = t THEN new ELSE current[u]
  <2> HIDE DEF new
  <2>1. QED BY <1>1, <1>5, <1>7, OneThread
<1>11. \A u \in Thread : Len(current'[u]) = Len(current[u]) /\ \A k \in 1 .. Len(current[u]) :
         current'[u][k] = IF u = t /\ k = 1 THEN c ELSE current[u][k]
  <2> HIDE DEF new, c
  <2>1. QED BY <1>7, <1>10
<1>12. \A u \in Thread : \A k \in 1 .. Len(current[u]) : current'[u][k].id = current[u][k].id
  BY <1>4, <1>11
<1>13. \A u \in Thread : \A k \in 1 .. Len(current[u]) : current[u][k].id = id => u = t /\ k = 1
  BY <1>2 DEF IInv, Distinct
<1> HIDE DEF id, c, new, old
<1>14. lines' \in Seq(LineRecord)
  BY <1>1, <1>3, <1>8, PrintedOneMore
<1>15. \A w, j : Printed(w, j)' <=> Printed(w, j) \/ (w = what /\ j = id)
  BY <1>1, <1>3, <1>8, PrintedOneMore
<1>16. \E i \in 1 .. Len(lines') : lines'[i] = Line(what, id, t)
  BY <1>1, <1>3, <1>8, PrintedOneMore
<1>17. TypeOK'
  BY <1>1, <1>6, <1>10, <1>14 DEF IInv, TypeOK, LineRecord
<1>18. LogIsReadable'
  <2>1. ~Printed(what, id) /\ (what = "Entering" => Printed("Starting", id))
        /\ (what = "Leaving" => \E i \in 1 .. Len(lines) : lines[i] = Line("Entering", id, t))
    BY <1>3, <1>9 DEF Held, id
  <2>2. QED BY <1>1, <1>3, <1>8, <2>1, LogOneMore DEF IInv
<1>19. GivenOut'
  <2>1. ASSUME NEW i \in 1 .. Len(lines') PROVE lines'[i].id < next_handler_id'
    <3>1. Printed(lines[i].what, lines[i].id)' BY <1>14 DEF Printed
    <3>2. Printed(lines'[i].what, lines'[i].id) \/ lines'[i].id = id BY <1>15, <3>1
    <3>3. \A w, j : Printed(w, j) => j < next_handler_id
      BY PrintedIsGivenOut DEF IInv, GivenOut
    <3>4. id < next_handler_id BY <1>9 DEF Held, id
    <3>5. QED BY <1>6, <3>2, <3>3, <3>4
  <2>2. \A x \in Memory : handler[x] # 0 => handler[x] # id
    BY <1>2 DEF IInv, Distinct, id, old
  <2>3. QED BY <1>3, <1>6, <1>15, <2>1, <2>2 DEF IInv, GivenOut
<1>20. StageOfLines'
  <2>1. ASSUME NEW u \in Thread, NEW k \in 1 .. Len(current'[u]) PROVE Held(current[u][k], u)'
    <3>1. CASE u = t /\ k = 1
      <4>1. current'[u][k] = c BY <1>2, <1>11, <3>1
      <4>2. ASSUME NEW d, d = c PROVE Held(d, t)'
        <5>1. d.id = id /\ d.stage = to BY <1>4, <1>8, <4>2
        <5>2. d.id < next_handler_id' /\ Printed("Starting", d.id)
          BY <1>6, <1>9, <5>1 DEF Held, id
        <5>3. Printed("Starting", d.id)' BY <1>15, <5>2
        <5>4. what = "Entering" => ~Printed("Leaving", d.id)'
          BY <1>3, <1>9, <1>15, <5>1 DEF Held, id
        <5>5. \E i \in 1 .. Len(lines') : lines'[i] = Line(what, d.id, t)
          BY <1>16, <5>1
        <5>6. QED BY <5>1, <5>2, <5>3, <5>4, <5>5 DEF Held
      <4>3. QED BY <3>1, <4>1, <4>2
    <3>2. CASE ~(u = t /\ k = 1)
      <4>1. k \in 1 .. Len(current[u]) /\ current'[u][k] = current[u][k] BY <1>11, <3>2
      <4>2. current[u][k] \in CompletionRecord /\ Held(current[u][k], u) /\ current[u][k].id # id
        BY <1>1, <1>13, <3>2, <4>1 DEF IInv, StageOfLines
      <4>3. ASSUME NEW d \in CompletionRecord, Held(d, u), d.id # id PROVE Held(d, u)'
        <5>1. lines' = Append(lines, Line(what, id, t)) /\ id \in Nat BY <1>8
        <5>2. next_handler_id' \in Nat /\ next_handler_id <= next_handler_id' BY <1>1, <1>6
        <5>3. QED BY <1>1, <1>3, <4>3, <5>1, <5>2, HeldOneMore
      <4>4. QED BY <4>1, <4>2, <4>3
    <3>3. QED BY <3>1, <3>2
  <2>2. QED BY <2>1 DEF StageOfLines
<1>21. Distinct'
  <2>1. \A u \in Thread : \A k \in 1 .. Len(current'[u]) :
          k \in 1 .. Len(current[u]) /\ current'[u][k].id = current[u][k].id
    BY <1>11, <1>12
  <2>2. QED BY <1>6, <2>1 DEF IInv, Distinct
<1>22. QED BY <1>17, <1>18, <1>19, <1>20, <1>21 DEF IInv

LEMMA NextInv == IInv /\ [Next]_vars => IInv'
<1> SUFFICES ASSUME IInv, [Next]_vars PROVE IInv' OBVIOUS
<1>1. ASSUME NEW t \in Thread, NEW m \in Memory, Creation(t, m) PROVE IInv'
  BY <1>1, CreationInv
<1>2. ASSUME NEW t \in Thread, NEW m \in Memory, Completion(t, m) PROVE IInv'
  BY <1>2, CompletionInv
<1>3. ASSUME NEW t \in Thread, InvocationBegin(t) PROVE IInv'
  BY <1>3, InvocationInv DEF InvocationBegin
<1>4. ASSUME NEW t \in Thread, InvocationEnd(t) PROVE IInv'
  BY <1>4, InvocationInv DEF InvocationEnd
<1>5. ASSUME NEW t \in Thread, CompletionGoes(t) PROVE IInv'
  BY <1>5, CompletionGoesInv
<1>6. CASE UNCHANGED vars
  <2>1. UNCHANGED <<next_handler_id, handler, current, lines>> BY <1>6 DEF vars
  <2>2. TypeOK' BY <2>1 DEF IInv, TypeOK
  <2>3. LogIsReadable' /\ GivenOut' BY <2>1, NothingPrinted DEF IInv, GivenOut
  <2>4. StageOfLines' BY <2>1, NothingPrinted DEF IInv, StageOfLines
  <2>5. Distinct' BY <2>1 DEF IInv, Distinct
  <2>6. QED BY <2>2, <2>3, <2>4, <2>5 DEF IInv
<1>7. QED BY <1>1, <1>2, <1>3, <1>4, <1>5, <1>6 DEF Next

-----------------------------------------------------------------------------

(* Numbers are given out once and stay with one operation, its completion   *)
(* and the lines about it.                                                  *)
THEOREM Invariance == Spec => []IInv
<1>1. QED BY InitInv, NextInv, PTL DEF Spec

(* What any number of threads print about any number of handlers can be     *)
(* read: each is started, entered and left at most once, in this order, and *)
(* left by the thread that entered it.                                      *)
THEOREM LogReadable == Spec => []LogIsReadable
<1>1. IInv => LogIsReadable BY DEF IInv
<1>2. QED BY Invariance, <1>1, PTL

=============================================================================
