------------------------------- MODULE EchoProofs -------------------------------
(***************************************************************************)
(* The safety properties of TrackedEcho for any number of chunks and parts *)
(* and any sizes of the handlers: those of the session, and that its       *)
(* handlers use the tracking hooks in the way that keeps the log readable. *)
(***************************************************************************)
EXTENDS TrackedEcho, SequenceTheorems, TLAPS

(* The hooks have their theorems in HandlerTrackingProofs. *)
Hooks ==
  INSTANCE HandlerTrackingProofs WITH
    Thread <- {Main}, Memory <- {"acceptor", "storage", "heap"}

-----------------------------------------------------------------------------
(* The session alone *)

(* The invariant holds after the accept: its handler alone holds the session, *)
(* whose storage is free (session::session).                                *)
THEOREM EchoInit == Init => EchoInv
<1> SUFFICES ASSUME Init PROVE EchoInv OBVIOUS
<1>1. TypeOK
  <2>1. small \in SUBSET Kind BY DEF Init
  <2>2. op = "none" /\ place = "none" /\ called = "accept" /\ phase = "called" /\ refs = 1 BY DEF Init
  <2>3. isUse \in BOOLEAN /\ alive \in BOOLEAN BY Zenon DEF Init
  <2>4. refs \in 0 .. 2 BY <2>2
  <2>5. QED BY <2>1, <2>2, <2>3, <2>4, Zenon DEF TypeOK
<1>2. StorageSuffices
  <2>1. op = "none" /\ place = "none" /\ isUse = FALSE /\ small \in SUBSET Kind BY DEF Init
  <2>2. op \notin small BY <2>1 DEF Kind
  <2>3. ~(place = "storage") BY <2>1
  <2>4. QED BY <2>1, <2>2, <2>3, Zenon DEF StorageSuffices
<1>3. OneBlock BY DEF Init, OneBlock
<1>4. RefsCounted BY DEF Init, RefsCounted
<1>5. QED BY <1>1, <1>2, <1>3, <1>4 DEF EchoInv

(* The end of an operation gives its block back, and its shared_ptr to the  *)
(* handler that is called.                                                  *)
LEMMA CompleteInv ==
  ASSUME EchoInv, NEW k \in Kind, NEW success, Complete(k, success)
  PROVE  EchoInv'
<1>1. op = k /\ k # "none" /\ k # "accept" /\ called = "none" /\ refs = 1 /\ alive /\ (isUse <=> place = "storage")
      /\ isUse \in BOOLEAN
  BY DEF EchoInv, TypeOK, StorageSuffices, RefsCounted, Complete, Kind
<1>2. /\ op' = "none" /\ place' = "none" /\ isUse' = FALSE
      /\ called' = k /\ phase' = "called"
      /\ UNCHANGED <<small, refs, alive>>
  BY <1>1 DEF Complete, Deallocate, lifeVars
<1>3. TypeOK'
  <2>1. small \in SUBSET Kind /\ alive \in BOOLEAN /\ refs \in 0 .. 2 BY DEF EchoInv, TypeOK
  <2>2. small' \in SUBSET Kind /\ alive' \in BOOLEAN /\ refs' \in 0 .. 2 /\ isUse' \in BOOLEAN
    BY <1>2, <2>1, Zenon
  <2>3. QED BY <1>2, <2>2, Zenon DEF TypeOK
<1>4. StorageSuffices'
  <2>1. "none" \notin small' BY <1>2 DEF EchoInv, TypeOK, Kind
  <2>2. ~(place' = "storage") BY <1>2
  <2>3. QED BY <1>2, <2>1, <2>2, Zenon DEF StorageSuffices
<1>5. OneBlock' BY <1>2 DEF OneBlock
<1>6. RefsCounted'
  <2>1. refs' = (IF op' = "none" THEN 0 ELSE 1) + (IF called' = "none" THEN 0 ELSE 1)
    BY <1>1, <1>2
  <2>2. refs' > 0 BY <1>1, <1>2
  <2>3. alive' BY <1>1, <1>2, Zenon
  <2>4. QED BY <2>1, <2>2, <2>3, Zenon DEF RefsCounted
<1>7. QED BY <1>3, <1>4, <1>5, <1>6 DEF EchoInv

LEMMA EchoNext == EchoInv /\ [Next]_vars => EchoInv'
<1> SUFFICES ASSUME EchoInv, [Next]_vars PROVE EchoInv' OBVIOUS
<1>1. ASSUME UNCHANGED <<small, blockVars, handlerVars, lifeVars>> PROVE EchoInv'
  BY <1>1 DEF EchoInv, TypeOK, StorageSuffices, OneBlock, RefsCounted, blockVars, handlerVars, lifeVars
<1>2. CASE ClientSend \/ ClientLeave("half") \/ ClientLeave("reset")
  BY <1>1, <1>2 DEF ClientSend, ClientLeave
<1>3. CASE ReadCompletes
  BY <1>3, CompleteInv DEF ReadCompletes, Kind
<1>4. CASE WriteCompletes
  BY <1>4, CompleteInv DEF WriteCompletes, Kind
<1>5. ASSUME NEW k \in Kind, Fails(k) PROVE EchoInv'
  BY <1>5, CompleteInv DEF Fails
<1>6. CASE HandlerBody
  <2>1. /\ called # "none" /\ phase = "called" /\ op = "none" /\ place = "none" /\ ~isUse
        /\ refs = 1 /\ alive = TRUE
    BY <1>6 DEF HandlerBody, EchoInv, TypeOK, StorageSuffices, OneBlock, RefsCounted
  <2>2. phase' = "ended" /\ UNCHANGED <<small, called, alive>>
    BY <1>6 DEF HandlerBody
  <2>3. CASE ok
    <3>1. PICK k \in Kind : Start(k)
      <4>1. Start("write") \/ Start("read") BY <1>6, <2>3 DEF HandlerBody
      <4>2. QED BY <4>1 DEF Kind
    <3>2. /\ op' = k /\ place' = (IF k \in small THEN "storage" ELSE "heap")
          /\ isUse' = (k \in small) /\ refs' = 2
      BY <2>1, <3>1 DEF Start, Allocate
    <3>3. TypeOK'
      <4>1. small \in SUBSET Kind /\ alive \in BOOLEAN BY DEF EchoInv, TypeOK
      <4>2. called \in Kind \cup {"accept", "none"} BY DEF EchoInv, TypeOK
      <4>3. isUse' \in BOOLEAN
        <5>1. (k \in small) \in BOOLEAN OBVIOUS
        <5>2. isUse' = (k \in small) BY <3>2
        <5>3. QED BY <5>1, <5>2, Zenon
      <4>4. place' \in {"storage", "heap", "none"} /\ refs' \in 0 .. 2 BY <3>2
      <4>5. op' \in Kind \cup {"none"} BY <3>2, Zenon
      <4>6. QED BY <2>2, <4>1, <4>2, <4>3, <4>4, <4>5, Zenon DEF TypeOK
    <3>4. StorageSuffices'
      <4>1. (k \in small) <=> place' = "storage"
        <5>1. place' = (IF k \in small THEN "storage" ELSE "heap") BY <3>2
        <5>2. "storage" # "heap" OBVIOUS
        <5>3. QED BY <5>1, <5>2
      <4>2. QED BY <2>2, <3>2, <4>1, Zenon DEF StorageSuffices
    <3>5. OneBlock'
      <4>1. op' # "none" /\ place' # "none" BY <3>2 DEF Kind
      <4>2. QED BY <2>2, <4>1 DEF OneBlock
    <3>6. RefsCounted'
      <4>1. refs' = (IF op' = "none" THEN 0 ELSE 1) + (IF called' = "none" THEN 0 ELSE 1)
        BY <2>1, <2>2, <3>2 DEF Kind
      <4>2. refs' > 0 BY <3>2
      <4>3. alive' BY <2>1, <2>2, Zenon
      <4>4. QED BY <4>1, <4>2, <4>3, Zenon DEF RefsCounted
    <3>7. QED BY <3>3, <3>4, <3>5, <3>6 DEF EchoInv
  <2>4. CASE ~ok
    <3>1. UNCHANGED <<small, op, place, isUse, called, refs, alive>> /\ phase' = "ended"
      BY <1>6, <2>2, <2>4 DEF HandlerBody, blockVars
    <3>2. TypeOK' BY <3>1 DEF EchoInv, TypeOK
    <3>3. StorageSuffices' BY <3>1 DEF EchoInv, StorageSuffices
    <3>4. OneBlock' BY <3>1 DEF EchoInv, OneBlock
    <3>5. RefsCounted' BY <3>1 DEF EchoInv, RefsCounted
    <3>6. QED BY <3>2, <3>3, <3>4, <3>5 DEF EchoInv
  <2>5. QED BY <2>3, <2>4
<1>7. CASE HandlerDestroyed
  <2>1. /\ called # "none" /\ called' = "none" /\ refs' = refs - 1 /\ alive' = (refs' > 0)
        /\ UNCHANGED <<small, op, place, isUse, phase>>
    BY <1>7 DEF HandlerDestroyed, blockVars
  <2>2. TypeOK'
    <3>1. refs = 1 \/ refs = 2 BY <2>1 DEF EchoInv, RefsCounted
    <3>2. refs' \in 0 .. 2 BY <2>1, <3>1
    <3>3. alive' \in BOOLEAN
      <4>1. (refs' > 0) \in BOOLEAN OBVIOUS
      <4>2. alive' = (refs' > 0) BY <2>1
      <4>3. QED BY <4>1, <4>2, Zenon
    <3>4. UNCHANGED <<small, op, place, isUse, phase>> BY <2>1
    <3>5. /\ small' \in SUBSET Kind /\ op' \in Kind \cup {"none"} /\ place' \in {"storage", "heap", "none"}
          /\ isUse' \in BOOLEAN /\ phase' \in {"called", "ended"}
      BY <3>4 DEF EchoInv, TypeOK
    <3>6. QED BY <2>1, <3>2, <3>3, <3>5, Zenon DEF TypeOK
  <2>3. StorageSuffices' BY <2>1 DEF EchoInv, StorageSuffices
  <2>4. OneBlock' BY <2>1 DEF EchoInv, OneBlock
  <2>5. RefsCounted'
    <3>1. refs' = (IF op' = "none" THEN 0 ELSE 1) + (IF called' = "none" THEN 0 ELSE 1)
      BY <2>1 DEF EchoInv, RefsCounted
    <3>2. alive' = (refs' > 0) BY <2>1
    <3>3. QED BY <3>1, <3>2, Zenon DEF RefsCounted
  <2>6. QED BY <2>2, <2>3, <2>4, <2>5 DEF EchoInv
<1>8. CASE UNCHANGED vars
  BY <1>1, <1>8 DEF vars
<1>9. QED BY <1>2, <1>3, <1>4, <1>5, <1>6, <1>7, <1>8 DEF Next, Run

-----------------------------------------------------------------------------
(* The session with the hooks *)

(* What the program does is a step of the session or none. *)
LEMMA StepOfSession == [TrackedNext]_trackedVars => [Next]_vars
BY DEF TrackedNext, TrackedRun, AcceptStarts, AcceptCompletes, TrackedCompletion, Enter, TrackedBody,
       Leave, TrackedDestroyed, Peer, trackedVars, Next, Run

(* The invariant of the session holds in every reachable state of the       *)
(* tracked program.                                                         *)
THEOREM EchoInvariance == TrackedSpec => []EchoInv
<1>1. TrackedInit => EchoInv BY EchoInit DEF TrackedInit
<1>2. EchoInv /\ [TrackedNext]_trackedVars => EchoInv' BY StepOfSession, EchoNext
<1>3. QED BY <1>1, <1>2, PTL DEF TrackedSpec

(* One block of storage is enough: whichever of the handlers are small, the *)
(* operation that is outstanding has it to itself.                          *)
THEOREM StorageIsEnough == TrackedSpec => []StorageSuffices
<1>1. EchoInv => StorageSuffices BY DEF EchoInv
<1>2. QED BY <1>1, EchoInvariance, PTL

(* shared_from_this keeps the session as long as an operation or a handler  *)
(* may use it.                                                              *)
THEOREM SessionIsKept == TrackedSpec => []SessionOutlivesHandlers
<1>1. EchoInv => SessionOutlivesHandlers
  BY DEF EchoInv, TypeOK, StorageSuffices, OneBlock, RefsCounted, SessionOutlivesHandlers
<1>2. QED BY <1>1, EchoInvariance, PTL

(* The hooks observe: what the program does is what the session does without *)
(* them.                                                                     *)
THEOREM HooksOnlyObserve == TrackedSpec => Init /\ [][Next]_vars
<1>1. TrackedInit => Init BY DEF TrackedInit
<1>2. QED BY <1>1, StepOfSession, PTL DEF TrackedSpec

-----------------------------------------------------------------------------
(* The buffer *)

(* One more chunk in its place. *)
LEMMA EchoedOneMore ==
  ASSUME NEW q \in Seq(Nat), q = [i \in 1 .. Len(q) |-> i]
  PROVE  LET s == Append(q, Len(q) + 1)
         IN  s \in Seq(Nat) /\ Len(s) = Len(q) + 1 /\ s = [i \in 1 .. Len(s) |-> i]
<1> DEFINE s == Append(q, Len(q) + 1)
<1>1. Len(q) \in Nat /\ \A i \in 1 .. Len(q) : q[i] = i
  OBVIOUS
<1>2. s \in Seq(Nat) /\ Len(s) = Len(q) + 1
  BY <1>1
<1>3. \A i \in 1 .. Len(s) : s[i] = IF i = Len(q) + 1 THEN Len(q) + 1 ELSE q[i]
  BY <1>1, <1>2
<1>4. \A i \in 1 .. Len(s) : s[i] = i
  BY <1>1, <1>2, <1>3
<1>5. s = [i \in 1 .. Len(s) |-> i]
  <2> DEFINE t == [i \in 1 .. Len(q) + 1 |-> i]
  <2>1. t \in Seq(Nat) /\ Len(t) = Len(q) + 1
    BY <1>1
  <2>2. \A i \in 1 .. Len(q) + 1 : t[i] = i
    OBVIOUS
  <2> HIDE DEF s, t
  <2>3. s = t
    <3>1. Len(s) = Len(t) /\ \A i \in 1 .. Len(s) : s[i] = t[i]
      BY <1>1, <1>2, <1>4, <2>1, <2>2
    <3>2. QED
      BY <1>2, <2>1, <3>1, SeqEqual
  <2>4. QED
    BY <1>2, <2>3 DEF t
<1>6. QED
  BY <1>2, <1>5

(* The session starts with an empty buffer. *)
LEMMA BufferInit == Init => BufferInv
<1> SUFFICES ASSUME Init PROVE BufferInv
  OBVIOUS
<1>1. << >> \in Seq(Nat) /\ Len(<< >>) = 0 /\ << >> = [i \in 1 .. Len(<< >>) |-> i]
  OBVIOUS
<1>2. /\ sent = 0 /\ data = 0 /\ left = 0 /\ echoed = << >> /\ op = "none" /\ ok = TRUE
      /\ called = "accept"
  BY DEF Init
<1>3. EchoesInOrder
  BY <1>1, <1>2 DEF EchoesInOrder
<1>4. ok \in BOOLEAN
  BY <1>2
<1>5. ReadPending
  BY <1>1, <1>2 DEF ReadPending
<1>6. QED
  BY <1>1, <1>2, <1>3, <1>4, <1>5 DEF BufferInv

(* A step that changes neither the buffer nor what is outstanding. *)
LEMMA BufferKept ==
  ASSUME BufferInv, sent' \in Nat, sent <= sent', UNCHANGED dataVars, ok' = ok,
         op' = op \/ op' = "none",
         phase' = "called" => phase = "called" /\ (called' = called \/ called' = "none")
  PROVE  BufferInv'
<1>1. data' = data /\ left' = left /\ echoed' = echoed
  BY DEF dataVars
<1>2. EchoesInOrder'
  <2>1. data \in Nat /\ sent \in Nat /\ data <= sent
    BY DEF BufferInv, EchoesInOrder
  <2>2. data' <= sent'
    BY <1>1, <2>1
  <2>3. echoed' = [i \in 1 .. Len(echoed') |-> i] /\ Len(echoed') \in {data' - 1, data'}
    BY <1>1 DEF BufferInv, EchoesInOrder
  <2>4. QED
    BY <2>2, <2>3 DEF EchoesInOrder
<1>3. (ReadPending' <=> ReadPending) /\ (WritePending' <=> WritePending)
  BY <1>1 DEF ReadPending, WritePending
<1>4. phase' = "called" /\ ok' =>
        /\ called' = "accept" => ReadPending
        /\ called' = "read" => WritePending
        /\ called' = "write" => WritePending \/ ReadPending
  <2>1. ok' => ok
    BY Zenon
  <2>2. called' \in {"accept", "read", "write"} /\ phase' = "called" => called' = called /\ phase = "called"
    OBVIOUS
  <2>3. QED
    BY <2>1, <2>2 DEF BufferInv
<1>5. ok' \in BOOLEAN
  BY DEF BufferInv
<1>6. /\ sent' \in Nat /\ data' \in Nat /\ left' \in Nat /\ echoed' \in Seq(Nat)
      /\ op' = "read" => ReadPending
      /\ op' = "write" => WritePending
  BY <1>1 DEF BufferInv
<1>7. QED
  BY <1>2, <1>3, <1>4, <1>5, <1>6 DEF BufferInv

(* A read is started only when the last chunk was written back in full.     *)
LEMMA BufferNext ==
  ASSUME EchoInv, BufferInv, [Next]_vars
  PROVE  BufferInv'
<1> USE EchoAssumption DEF Kind
<1>1. CASE ClientSend \/ ClientLeave("half") \/ ClientLeave("reset")
  <2>1. /\ sent' \in {sent, sent + 1} /\ UNCHANGED dataVars
        /\ ok' = ok /\ op' = op /\ phase' = phase /\ called' = called
    BY <1>1 DEF ClientSend, ClientLeave, blockVars, handlerVars
  <2>2. sent' \in Nat /\ sent <= sent'
    BY <2>1 DEF BufferInv
  <2>3. QED
    BY <2>1, <2>2, BufferKept
<1>2. CASE ReadCompletes
  <2>1. /\ op = "read" /\ op' = "none" /\ called' = "read" /\ ok' = TRUE
        /\ data < sent /\ sent' = sent
        /\ data' = data + 1 /\ left' = Parts /\ echoed' = echoed
    BY <1>2 DEF ReadCompletes, Complete, Deallocate, clientVars
  <2>2. ReadPending /\ data \in Nat /\ sent \in Nat
    BY <2>1 DEF BufferInv
  <2>3. EchoesInOrder'
    BY <2>1, <2>2 DEF BufferInv, EchoesInOrder, ReadPending
  <2>4. WritePending'
    BY <2>1, <2>2 DEF ReadPending, WritePending
  <2>5. ok' \in BOOLEAN
    BY <2>1
  <2>6. QED
    BY <2>1, <2>2, <2>3, <2>4, <2>5 DEF BufferInv
<1>3. CASE WriteCompletes
  <2>1. /\ op = "write" /\ op' = "none" /\ called' = "write" /\ ok' = TRUE
        /\ sent' = sent /\ data' = data
    BY <1>3 DEF WriteCompletes, Complete, Deallocate, clientVars
  <2>2. WritePending /\ data \in Nat /\ sent \in Nat /\ left \in Nat
    BY <2>1 DEF BufferInv
  <2>3. ok' \in BOOLEAN
    BY <2>1
  <2>4. CASE left > 1 /\ left' = left - 1 /\ echoed' = echoed
    <3>1. EchoesInOrder'
      BY <2>1, <2>4 DEF BufferInv, EchoesInOrder
    <3>2. WritePending' /\ left' \in Nat
      BY <2>1, <2>2, <2>4 DEF WritePending
    <3>3. QED
      BY <2>1, <2>2, <2>3, <2>4, <3>1, <3>2 DEF BufferInv
  <2>5. CASE left' = 0 /\ echoed' = Append(echoed, data)
    <3>1. echoed \in Seq(Nat) /\ echoed = [i \in 1 .. Len(echoed) |-> i] /\ data <= sent
      BY DEF BufferInv, EchoesInOrder
    <3>2. data = Len(echoed) + 1
      BY <2>2, <3>1 DEF WritePending
    <3>3. /\ echoed' \in Seq(Nat) /\ Len(echoed') = data
          /\ echoed' = [i \in 1 .. Len(echoed') |-> i]
      BY <2>5, <3>1, <3>2, EchoedOneMore
    <3>4. EchoesInOrder' /\ ReadPending'
      BY <2>1, <2>2, <2>5, <3>1, <3>3 DEF EchoesInOrder, ReadPending
    <3>5. QED
      BY <2>1, <2>2, <2>3, <2>5, <3>3, <3>4 DEF BufferInv
  <2>6. QED
    BY <1>3, <2>4, <2>5 DEF WriteCompletes
<1>4. ASSUME NEW k \in Kind, Fails(k) PROVE BufferInv'
  <2>1. /\ op' = "none" /\ ok' = FALSE /\ sent' = sent
        /\ data' = data /\ left' = left /\ echoed' = echoed
    BY <1>4 DEF Fails, Complete, Deallocate, clientVars, dataVars
  <2>2. EchoesInOrder'
    BY <2>1 DEF BufferInv, EchoesInOrder
  <2>3. ok' \in BOOLEAN /\ ~ok'
    BY <2>1
  <2>4. QED
    BY <2>1, <2>2, <2>3 DEF BufferInv
<1>5. CASE HandlerBody
  <2>1. /\ called # "none" /\ phase = "called" /\ phase' = "ended" /\ op = "none"
        /\ ok' = ok /\ sent' = sent /\ UNCHANGED dataVars
        /\ data' = data /\ left' = left /\ echoed' = echoed
    BY <1>5 DEF HandlerBody, EchoInv, OneBlock, clientVars, dataVars
  <2>2. CASE ~ok
    <3>1. op' = op
      BY <1>5, <2>2 DEF HandlerBody, blockVars
    <3>2. QED
      BY <2>1, <3>1, BufferKept DEF BufferInv
  <2>3. CASE ok
    <3>1. op' = IF called = "read" \/ left > 0 THEN "write" ELSE "read"
      BY <1>5, <2>3 DEF HandlerBody, Start, Allocate
    <3>2. called \in {"read", "write", "accept"}
      BY <2>1 DEF EchoInv, TypeOK
    <3>3. IF called = "read" \/ left > 0 THEN WritePending ELSE ReadPending
      BY <2>1, <2>3, <3>2 DEF BufferInv, WritePending, ReadPending
    <3>4. (ReadPending' <=> ReadPending) /\ (WritePending' <=> WritePending)
      BY <2>1 DEF ReadPending, WritePending
    <3>5. EchoesInOrder'
      BY <2>1 DEF BufferInv, EchoesInOrder
    <3>6. QED
      BY <2>1, <3>1, <3>3, <3>4, <3>5 DEF BufferInv
  <2>4. QED
    BY <2>2, <2>3 DEF BufferInv
<1>6. CASE HandlerDestroyed
  BY <1>6, BufferKept DEF HandlerDestroyed, clientVars, blockVars, BufferInv
<1>7. CASE UNCHANGED vars
  BY <1>7, BufferKept DEF vars, clientVars, blockVars, handlerVars, BufferInv
<1>8. QED
  BY <1>1, <1>2, <1>3, <1>4, <1>5, <1>6, <1>7 DEF Next, Run

(* One buffer serves reads and writes: whatever the kernel takes at a time  *)
(* and whenever the client goes, the session writes back the chunks that it *)
(* read, in order and each once.                                            *)
THEOREM ChunksAreEchoedInOrder == TrackedSpec => []EchoesInOrder
<1>1. TrackedInit => BufferInv
  BY BufferInit DEF TrackedInit
<1>2. EchoInv /\ BufferInv /\ [TrackedNext]_trackedVars => BufferInv'
  BY StepOfSession, BufferNext
<1>3. BufferInv => EchoesInOrder
  BY DEF BufferInv
<1>4. QED
  BY <1>1, <1>2, <1>3, EchoInvariance, PTL DEF TrackedSpec

-----------------------------------------------------------------------------
(* The session at rest *)

LEMMA ChainedNext ==
  ASSUME EchoInv, BufferInv, Chained, [Next]_vars
  PROVE  Chained'
<1>0. client \in {"up", "half", "reset"} /\ ok \in BOOLEAN
  BY DEF Chained, BufferInv
<1>1. CASE ClientSend \/ ClientLeave("half") \/ ClientLeave("reset")
  <2>1. /\ UNCHANGED <<op, called, phase, ok>>
        /\ client' \in {"up", "half", "reset"} /\ (client # "up" => client' # "up")
    BY <1>0, <1>1 DEF ClientSend, ClientLeave, blockVars, handlerVars
  <2>2. QED
    BY <2>1 DEF Chained
<1>2. ASSUME NEW k \in Kind, NEW success \in BOOLEAN, Complete(k, success),
             success = FALSE => client # "up"
      PROVE  Chained'
  <2>1. /\ called' = k /\ phase' = "called" /\ ok' = success /\ client' = client
        /\ called' # "none"
    BY <1>2 DEF Complete, clientVars, Kind
  <2>2. QED
    BY <1>0, <1>2, <2>1 DEF Chained
<1>3. CASE ReadCompletes \/ WriteCompletes
  <2>1. \E k \in Kind : Complete(k, TRUE)
    BY <1>3 DEF ReadCompletes, WriteCompletes, Kind
  <2>2. QED
    BY <1>2, <2>1
<1>4. ASSUME NEW k \in Kind, Fails(k) PROVE Chained'
  BY <1>2, <1>4 DEF Fails
<1>5. CASE HandlerBody
  <2>1. called # "none" /\ called' = called /\ phase' = "ended" /\ ok' = ok /\ client' = client
    BY <1>5 DEF HandlerBody, clientVars
  <2>2. ok => op' # "none"
    BY <1>5 DEF HandlerBody, Start, Allocate
  <2>3. QED
    BY <1>0, <2>1, <2>2 DEF Chained
<1>6. CASE HandlerDestroyed
  <2>1. /\ called # "none" /\ phase = "ended" /\ called' = "none"
        /\ op' = op /\ client' = client
    BY <1>6 DEF HandlerDestroyed, clientVars, blockVars
  <2>2. op = "none" => client # "up"
    BY <1>0, <2>1 DEF Chained
  <2>3. QED
    BY <1>0, <2>1, <2>2 DEF Chained
<1>7. CASE UNCHANGED vars
  BY <1>7 DEF vars, clientVars, blockVars, handlerVars, Chained
<1>8. QED
  BY <1>1, <1>3, <1>4, <1>5, <1>6, <1>7 DEF Next, Run

(* The chain read, write, read of a session does not break: when nothing is *)
(* left to do, the session reads and has echoed all that it was sent, or    *)
(* the client has gone and so has the session.                              *)
THEOREM SessionForgetsNothing == TrackedSpec => []RestsWhenEchoed
<1>1. TrackedInit => BufferInv /\ Chained
  <2>1. Init => Chained
    BY DEF Init, Chained
  <2>2. QED
    BY <2>1, BufferInit DEF TrackedInit
<1>2. EchoInv /\ BufferInv /\ Chained /\ [TrackedNext]_trackedVars => BufferInv' /\ Chained'
  BY StepOfSession, BufferNext, ChainedNext
<1>3. EchoInv /\ BufferInv /\ Chained => RestsWhenEchoed
  <2> SUFFICES ASSUME EchoInv, BufferInv, Chained, SessionRests
               PROVE  IF alive THEN client = "up" /\ op = "read" /\ Len(echoed) = sent
                               ELSE client # "up"
    BY DEF RestsWhenEchoed
  <2>1. /\ called = "none" /\ op \in {"read", "none"}
        /\ refs = IF op = "none" THEN 0 ELSE 1
    BY DEF SessionRests, EchoInv, TypeOK, Kind, RefsCounted
  <2>2. CASE op = "none"
    <3>1. ~alive
      <4>1. ~ (refs > 0) BY <2>1, <2>2
      <4>2. QED BY <4>1, Zenon DEF EchoInv, RefsCounted
    <3>2. client # "up"
      BY <2>1, <2>2 DEF Chained
    <3>3. QED
      BY <3>1, <3>2
  <2>3. CASE op = "read"
    <3>1. alive
      <4>1. refs > 0 BY <2>1, <2>3
      <4>2. QED BY <4>1, Zenon DEF EchoInv, RefsCounted
    <3>2. data = sent /\ Len(echoed) = data
      BY <2>3 DEF SessionRests, BufferInv, EchoesInOrder, ReadPending
    <3>3. client = "up"
      BY <2>3, <3>2 DEF SessionRests, Chained
    <3>4. QED
      BY <2>3, <3>1, <3>2, <3>3
  <2>4. QED
    BY <2>1, <2>2, <2>3
<1>4. QED
  BY <1>1, <1>2, <1>3, EchoInvariance, PTL DEF TrackedSpec

-----------------------------------------------------------------------------
(* The hooks *)

(* The program calls the hooks as HandlerTracking says that asio does. *)
LEMMA StepOfHooks == EchoInv /\ [TrackedNext]_trackedVars => [Hooks!Next]_(Hooks!vars)
<1> SUFFICES ASSUME EchoInv, [TrackedNext]_trackedVars PROVE [Hooks!Next]_(Hooks!vars)
  OBVIOUS
<1> USE DEF Hooks!Next, Hooks!Creation, Hooks!Completion, Hooks!InvocationBegin, Hooks!InvocationEnd,
            Hooks!Invocation, Hooks!HandlerId, Hooks!Line, Hooks!CompletionGoes, Hooks!vars
<1>1. CASE AcceptStarts
  BY <1>1 DEF AcceptStarts, Tracking!Creation, Tracking!Line
<1>2. CASE AcceptCompletes
  BY <1>2 DEF AcceptCompletes, Tracking!Completion
<1>3. CASE TrackedCompletion
  <2>1. place # "none" => place \in {"acceptor", "storage", "heap"}
    BY DEF EchoInv, TypeOK
  <2>2. op # "none"
    BY <1>3 DEF TrackedCompletion, ReadCompletes, WriteCompletes, Fails, Complete, Kind
  <2>3. place \in {"acceptor", "storage", "heap"}
    BY <2>1, <2>2 DEF EchoInv, OneBlock
  <2>4. Hooks!Completion(Main, place)
    BY <1>3 DEF TrackedCompletion, Tracking!Completion
  <2>5. QED BY <2>3, <2>4
<1>4. CASE Enter
  BY <1>4 DEF Enter, Tracking!InvocationBegin, Tracking!Invocation, Tracking!HandlerId, Tracking!Line
<1>5. CASE TrackedBody
  <2>1. CASE op' = "none"
    BY <1>5, <2>1 DEF TrackedBody, trackingVars
  <2>2. CASE op' # "none"
    <3>1. Tracking!Creation(Main, place') BY <1>5, <2>2 DEF TrackedBody
    <3>2. place' \in {"acceptor", "storage", "heap"}
      <4>1. EchoInv' BY StepOfSession, EchoNext
      <4>2. QED BY <2>2, <4>1 DEF EchoInv, TypeOK, OneBlock
    <3>3. PICK m \in {"acceptor", "storage", "heap"} : m = place' BY <3>2
    <3>4. Hooks!Creation(Main, m)
      BY <3>1, <3>3 DEF Tracking!Creation, Tracking!Line
    <3>5. QED BY <3>4
  <2>3. QED BY <2>1, <2>2
<1>6. CASE Leave
  BY <1>6 DEF Leave, Tracking!InvocationEnd, Tracking!Invocation, Tracking!HandlerId, Tracking!Line
<1>7. CASE TrackedDestroyed
  BY <1>7 DEF TrackedDestroyed, Tracking!CompletionGoes
<1>8. CASE UNCHANGED trackingVars
  BY <1>8 DEF trackingVars
<1>9. QED BY <1>1, <1>2, <1>3, <1>4, <1>5, <1>6, <1>7, <1>8 DEF TrackedNext, TrackedRun, Peer, trackedVars

(* So what the program prints is a log that HandlerTracking can make, and   *)
(* can be read.                                                             *)
THEOREM TrackedLogReadable == TrackedSpec => []LogIsReadable
<1>1. TrackedInit => Hooks!Init
  BY DEF TrackedInit, Tracking!Init, Hooks!Init
<1>2. EchoInv /\ [TrackedNext]_trackedVars => [Hooks!Next]_(Hooks!vars)
  BY StepOfHooks
<1>3. TrackedSpec => Hooks!Spec
  BY <1>1, <1>2, EchoInvariance, PTL DEF TrackedSpec, Hooks!Spec
<1>4. Hooks!Spec => []Hooks!LogIsReadable
  BY Hooks!LogReadable
<1>5. Hooks!LogIsReadable => LogIsReadable
  BY DEF Hooks!LogIsReadable, LogIsReadable, Tracking!LogIsReadable, Hooks!Line, Tracking!Line
<1>6. QED BY <1>3, <1>4, <1>5, PTL

=============================================================================
