---------------------------- MODULE ForkServerProofs ----------------------------
(***************************************************************************)
(* The safety properties of ForkServer for any number of connections and   *)
(* chunks; and those of Daemon, for any number of clients and requests and *)
(* any receive buffer.                                                     *)
(***************************************************************************)
EXTENDS ForkServer, Daemon, FiniteSetTheorems, TLAPS

Stages == {"none", "forked", "reading", "writing", "over", "zombie", "reaped"}

(* What the invariant says besides TypeOK depends on these only. *)
served == <<accepted, parent, holders, child, echoVars>>

LEMMA ServedUnchanged ==
  ASSUME IInv, UNCHANGED served, TypeOK'
  PROVE  IInv'
<1>1. UNCHANGED <<accepted, parent, holders, child, got, data, echoed>> BY DEF served, echoVars
<1>2. Descriptors' BY <1>1 DEF IInv, Descriptors
<1>3. Chunks' BY <1>1 DEF IInv, Chunks
<1>4. EchoInOrder' BY <1>1 DEF IInv, EchoInOrder
<1>5. QED BY <1>2, <1>3, <1>4 DEF IInv

(* The server starts with one process and nothing accepted (server::server). *)
THEOREM InitInv == Init => IInv
<1> SUFFICES ASSUME Init PROVE IInv OBVIOUS
<1>1. TypeOK
  <2>1. MaxChunks \in Nat /\ 0 \in 0 .. MaxChunks BY ForkAssumption
  <2>2. /\ client \in [Conn -> {"absent", "up", "half", "reset"}]
        /\ sent \in [Conn -> 0 .. MaxChunks] /\ got \in [Conn -> 0 .. MaxChunks]
        /\ data \in [Conn -> 0 .. MaxChunks] /\ echoed \in [Conn -> Seq(1 .. MaxChunks)]
    BY <2>1 DEF Init
  <2>3. /\ accepted \in [Conn -> BOOLEAN] /\ accepting \in BOOLEAN
        /\ watched \in BOOLEAN /\ pipe \in BOOLEAN
    BY DEF Init
  <2>4. /\ holders \in [Conn -> SUBSET (Conn \cup {Parent})]
        /\ parent \in {"run", "forked"} /\ wait \in {"armed", "queued", "reaping"}
        /\ child \in [Conn -> {"none", "forked", "reading", "writing", "over", "zombie", "reaped"}]
        /\ childWait \in [Conn -> {"armed", "queued", "none"}]
    BY DEF Init
  <2>5. QED BY <2>2, <2>3, <2>4 DEF TypeOK
<1>2. Descriptors BY DEF Init, Descriptors
<1>3. Chunks BY DEF Init, Chunks
<1>4. EchoInOrder
  <2>1. \A c \in Conn : echoed[c] = << >> /\ got[c] = 0 BY DEF Init
  <2>2. << >> = [i \in 1 .. Len(<< >>) |-> i] /\ Len(<< >>) = 0 OBVIOUS
  <2>3. QED BY <2>1, <2>2 DEF EchoInOrder
<1>5. QED BY <1>1, <1>2, <1>3, <1>4 DEF IInv

-----------------------------------------------------------------------------
(* Clients and signals *)

LEMMA ClientInv ==
  ASSUME IInv, NEW c \in Conn, Client(c)
  PROVE  IInv'
<1> USE ForkAssumption
<1>1. ASSUME NEW from, NEW to \in {"absent", "up", "half", "reset"}, ClientMoves(c, from, to) PROVE IInv'
  <2>1. client' = [client EXCEPT ![c] = to] /\ UNCHANGED <<sent, acceptVars, holders, signalVars, child, childWait, echoVars>>
    BY <1>1 DEF ClientMoves
  <2>2. TypeOK' BY <2>1 DEF IInv, TypeOK, acceptVars, signalVars, echoVars
  <2>3. UNCHANGED served BY <2>1 DEF served, acceptVars
  <2>4. QED BY <2>2, <2>3, ServedUnchanged
<1>2. CASE ClientSend(c)
  <2>1. sent' = [sent EXCEPT ![c] = sent[c] + 1] /\ sent[c] < MaxChunks
        /\ UNCHANGED <<client, acceptVars, holders, signalVars, child, childWait, echoVars>>
    BY <1>2 DEF ClientSend, IInv, TypeOK
  <2>2. sent[c] + 1 \in 0 .. MaxChunks BY <2>1 DEF IInv, TypeOK
  <2>3. TypeOK' BY <2>1, <2>2 DEF IInv, TypeOK, acceptVars, signalVars, echoVars
  <2>4. UNCHANGED served BY <2>1 DEF served, acceptVars
  <2>5. QED BY <2>3, <2>4, ServedUnchanged
<1>3. QED BY <1>1, <1>2 DEF Client

LEMMA WaitInv ==
  ASSUME IInv, DeliverSignal \/ StartReaping \/ StopReaping
  PROVE  IInv'
<1>1. /\ UNCHANGED <<clientVars, acceptVars, holders, watched, child, childWait, echoVars>>
      /\ pipe' \in BOOLEAN /\ wait' \in {"armed", "queued", "reaping"}
  BY DEF DeliverSignal, StartReaping, StopReaping, IInv, TypeOK
<1>2. TypeOK' BY <1>1 DEF IInv, TypeOK, clientVars, acceptVars, echoVars
<1>3. UNCHANGED served BY <1>1 DEF served, acceptVars
<1>4. QED BY <1>2, <1>3, ServedUnchanged

LEMMA ChildWaitHandlerInv ==
  ASSUME IInv, NEW c \in Conn, ChildWaitHandler(c)
  PROVE  IInv'
<1>1. /\ childWait' = [childWait EXCEPT ![c] = "none"]
      /\ UNCHANGED <<clientVars, acceptVars, holders, signalVars, child, echoVars>>
  BY DEF ChildWaitHandler
<1>2. TypeOK' BY <1>1 DEF IInv, TypeOK, clientVars, acceptVars, signalVars, echoVars
<1>3. UNCHANGED served BY <1>1 DEF served, acceptVars
<1>4. QED BY <1>2, <1>3, ServedUnchanged

-----------------------------------------------------------------------------
(* The accept handler *)

LEMMA AcceptInv ==
  ASSUME IInv, NEW c \in Conn, Accept(c)
  PROVE  IInv'
<1>1. /\ parent = "run" /\ ~accepted[c]
      /\ accepted' = [accepted EXCEPT ![c] = TRUE] /\ accepting' = FALSE /\ watched' = FALSE
      /\ parent' = "forked"
      /\ UNCHANGED <<client, sent, pipe, wait, got, data, echoed>>
  BY DEF Accept, ParentIdle, clientVars, echoVars
<1>2. child[c] = "none" /\ \A d \in Conn : Parent \notin holders[d] /\ holders[d] \subseteq {Parent, d}
  BY <1>1 DEF IInv, Chunks, Descriptors
<1>3. /\ accepted' \in [Conn -> BOOLEAN]
      /\ \A d \in Conn : ~accepted'[d] => d # c /\ ~accepted[d]
  BY <1>1 DEF IInv, TypeOK
<1>5. CASE /\ child' = [child EXCEPT ![c] = "forked"]
           /\ childWait' = [childWait EXCEPT ![c] = wait]
           /\ holders' = [d \in Conn |-> IF d = c \/ Parent \in holders[d]
                                         THEN holders[d] \cup {Parent, c} ELSE holders[d]]
  <2>1. child' \in [Conn -> Stages] /\ \A d \in Conn : child'[d] = IF d = c THEN "forked" ELSE child[d]
    BY <1>5 DEF IInv, TypeOK, Stages
  <2>2. \A d \in Conn : holders'[d] = IF d = c THEN holders[d] \cup {Parent, c} ELSE holders[d]
    BY <1>2, <1>5
  <2>3. TypeOK'
    <3>1. holders' \in [Conn -> SUBSET (Conn \cup {Parent})] BY <1>5 DEF IInv, TypeOK
    <3>2. childWait' \in [Conn -> {"armed", "queued", "none"}]
      <4>1. wait \in {"armed", "queued"} BY DEF Accept, ParentIdle, IInv, TypeOK
      <4>2. QED BY <1>5, <4>1 DEF IInv, TypeOK
    <3>3. QED BY <1>1, <1>3, <2>1, <3>1, <3>2 DEF IInv, TypeOK, Stages
  <2>4. Descriptors' BY <1>1, <1>2, <2>1, <2>2 DEF IInv, Descriptors
  <2>5. Chunks' BY <1>1, <1>2, <1>3, <2>1 DEF IInv, Chunks
  <2>6. EchoInOrder'
    <3>1. \A d \in Conn : child'[d] = "reading" => child[d] = "reading" BY <2>1
    <3>2. QED BY <1>1, <3>1 DEF IInv, EchoInOrder
  <2>7. QED BY <2>3, <2>4, <2>5, <2>6 DEF IInv
<1>6. CASE holders' = [holders EXCEPT ![c] = {Parent}] /\ UNCHANGED <<child, childWait>>
  <2>1. holders' \in [Conn -> SUBSET (Conn \cup {Parent})]
        /\ \A d \in Conn : holders'[d] = IF d = c THEN {Parent} ELSE holders[d]
    BY <1>6 DEF IInv, TypeOK
  <2>2. TypeOK' BY <1>1, <1>3, <1>6, <2>1 DEF IInv, TypeOK
  <2>3. Descriptors'
    <3>1. Parent # c BY ForkAssumption
    <3>2. QED BY <1>1, <1>2, <1>6, <2>1, <3>1 DEF IInv, Descriptors
  <2>4. Chunks' BY <1>1, <1>3, <1>6 DEF IInv, Chunks
  <2>5. EchoInOrder' BY <1>1, <1>6 DEF IInv, EchoInOrder
  <2>6. QED BY <2>2, <2>3, <2>4, <2>5 DEF IInv
<1>7. QED BY <1>5, <1>6 DEF Accept

LEMMA AcceptFailedInv ==
  ASSUME IInv, NEW c \in Conn, AcceptFailed(c)
  PROVE  IInv'
<1>1. /\ accepted' = [accepted EXCEPT ![c] = TRUE] /\ accepting' = TRUE
      /\ UNCHANGED <<clientVars, parent, holders, signalVars, child, childWait, echoVars>>
  BY DEF AcceptFailed
<1>2. /\ accepted' \in [Conn -> BOOLEAN]
      /\ \A d \in Conn : ~accepted'[d] => ~accepted[d]
  BY <1>1 DEF IInv, TypeOK
<1>3. TypeOK' BY <1>1, <1>2 DEF IInv, TypeOK, clientVars, signalVars, echoVars
<1>4. Descriptors' BY <1>1 DEF IInv, Descriptors
<1>5. Chunks' BY <1>1, <1>2 DEF IInv, Chunks, echoVars
<1>6. EchoInOrder' BY <1>1 DEF IInv, EchoInOrder, echoVars
<1>7. QED BY <1>3, <1>4, <1>5, <1>6 DEF IInv

LEMMA ParentContinuesInv ==
  ASSUME IInv, ParentContinues
  PROVE  IInv'
<1>1. /\ watched' = TRUE /\ parent' = "run" /\ accepting' = TRUE
      /\ holders' = [c \in Conn |-> holders[c] \ {Parent}]
      /\ UNCHANGED <<clientVars, accepted, pipe, wait, child, childWait, echoVars>>
  BY DEF ParentContinues
<1>2. TypeOK' BY <1>1 DEF IInv, TypeOK, clientVars, echoVars
<1>3. Descriptors' BY <1>1 DEF IInv, Descriptors
<1>4. Chunks' BY <1>1 DEF IInv, Chunks, echoVars
<1>5. EchoInOrder' BY <1>1 DEF IInv, EchoInOrder, echoVars
<1>6. QED BY <1>2, <1>3, <1>4, <1>5 DEF IInv

-----------------------------------------------------------------------------
(* The children *)

(* A child moves on without touching its chunks or a descriptor. *)
LEMMA ChildMoves ==
  ASSUME IInv, NEW c \in Conn, NEW to \in {"reading", "over", "reaped"},
         child' = [child EXCEPT ![c] = to], child[c] # "none",
         to = "reading" => child[c] = "forked",
         to = "reaped" => child[c] = "zombie",
         childWait' \in [Conn -> {"armed", "queued", "none"}],
         UNCHANGED <<clientVars, acceptVars, holders, signalVars, echoVars>>
  PROVE  IInv'
<1>1. child' \in [Conn -> Stages] /\ \A d \in Conn : child'[d] = IF d = c THEN to ELSE child[d]
  BY DEF IInv, TypeOK, Stages
<1>2. UNCHANGED <<client, sent, accepted, parent, accepting, holders, watched, pipe, wait, got, data, echoed>>
  BY DEF clientVars, acceptVars, signalVars, echoVars
<1>3. TypeOK' BY <1>1, <1>2 DEF IInv, TypeOK, Stages
<1>4. Descriptors' BY <1>1, <1>2 DEF IInv, Descriptors
<1>5. Chunks' BY <1>1, <1>2 DEF IInv, Chunks
<1>6. EchoInOrder' BY <1>1, <1>2 DEF IInv, EchoInOrder, Chunks
<1>7. QED BY <1>3, <1>4, <1>5, <1>6 DEF IInv

LEMMA ReadSomeInv ==
  ASSUME IInv, NEW c \in Conn, ReadSome(c)
  PROVE  IInv'
<1>1. /\ child[c] = "reading" /\ got[c] < sent[c]
      /\ got' = [got EXCEPT ![c] = got[c] + 1] /\ data' = [data EXCEPT ![c] = got[c] + 1]
      /\ child' = [child EXCEPT ![c] = "writing"]
      /\ UNCHANGED <<client, sent, accepted, parent, accepting, holders, watched, pipe, wait, childWait, echoed>>
  BY DEF ReadSome, clientVars, acceptVars, signalVars, IInv, TypeOK
<1>2. got[c] \in Nat /\ got[c] + 1 \in 0 .. MaxChunks
  BY <1>1, ForkAssumption DEF IInv, TypeOK
<1>3. /\ got' \in [Conn -> 0 .. MaxChunks] /\ data' \in [Conn -> 0 .. MaxChunks] /\ child' \in [Conn -> Stages]
      /\ \A d \in Conn : /\ got'[d] = IF d = c THEN got[c] + 1 ELSE got[d]
                         /\ data'[d] = IF d = c THEN got[c] + 1 ELSE data[d]
                         /\ child'[d] = IF d = c THEN "writing" ELSE child[d]
  BY <1>1, <1>2 DEF IInv, TypeOK, Stages
<1>4. TypeOK' BY <1>1, <1>3 DEF IInv, TypeOK, Stages
<1>5. Descriptors' BY <1>1, <1>3 DEF IInv, Descriptors
<1>6. Chunks' BY <1>1, <1>2, <1>3 DEF IInv, Chunks
<1>7. EchoInOrder'
  <2>1. Len(echoed[c]) = got[c] BY <1>1 DEF IInv, Chunks
  <2>2. \A d \in Conn : Len(echoed[d]) \in {got'[d] - 1, got'[d]}
    <3>1. TAKE d \in Conn
    <3>2. Len(echoed[d]) \in {got[d] - 1, got[d]} BY DEF IInv, EchoInOrder
    <3>3. Len(echoed[d]) = got'[d] - 1 \/ d # c BY <1>2, <1>3, <2>1
    <3>4. QED BY <1>3, <3>2, <3>3
  <2>3. \A d \in Conn : child'[d] = "reading" => Len(echoed[d]) = got'[d]
    BY <1>3 DEF IInv, EchoInOrder
  <2>4. QED BY <1>1, <2>2, <2>3 DEF IInv, EchoInOrder
<1>8. QED BY <1>4, <1>5, <1>6, <1>7 DEF IInv

LEMMA WriteBackInv ==
  ASSUME IInv, NEW c \in Conn, WriteBack(c)
  PROVE  IInv'
<1> DEFINE e == Append(echoed[c], data[c])
<1>1. /\ child[c] = "writing"
      /\ echoed' = [echoed EXCEPT ![c] = e] /\ child' = [child EXCEPT ![c] = "reading"]
      /\ UNCHANGED <<client, sent, accepted, parent, accepting, holders, watched, pipe, wait, childWait, got, data>>
  BY DEF WriteBack, clientVars, acceptVars, signalVars, IInv, TypeOK
<1>2. /\ got[c] \in Nat /\ data[c] = got[c] /\ got[c] = Len(echoed[c]) + 1
      /\ echoed[c] \in Seq(1 .. MaxChunks) /\ data[c] \in 1 .. MaxChunks
      /\ echoed[c] = [i \in 1 .. Len(echoed[c]) |-> i]
  BY <1>1, ForkAssumption DEF IInv, TypeOK, Chunks, EchoInOrder
<1>3. e \in Seq(1 .. MaxChunks) /\ Len(e) = got[c]
  BY <1>2
<1>4. e = [i \in 1 .. Len(e) |-> i]
  <2>1. \A i \in 1 .. Len(e) : e[i] = i BY <1>2, <1>3
  <2>2. DOMAIN e = 1 .. Len(e) BY <1>3
  <2>3. QED BY <1>3, <2>1, <2>2
<1> HIDE DEF e
<1>5. /\ echoed' \in [Conn -> Seq(1 .. MaxChunks)] /\ child' \in [Conn -> Stages]
      /\ \A d \in Conn : /\ echoed'[d] = IF d = c THEN e ELSE echoed[d]
                         /\ child'[d] = IF d = c THEN "reading" ELSE child[d]
  BY <1>1, <1>3 DEF IInv, TypeOK, Stages
<1>6. TypeOK' BY <1>1, <1>5 DEF IInv, TypeOK, Stages
<1>7. Descriptors' BY <1>1, <1>5 DEF IInv, Descriptors
<1>8. Chunks' BY <1>1, <1>3, <1>5 DEF IInv, Chunks
<1>9. EchoInOrder' BY <1>1, <1>3, <1>4, <1>5 DEF IInv, EchoInOrder
<1>10. QED BY <1>6, <1>7, <1>8, <1>9 DEF IInv

LEMMA ChildExitsInv ==
  ASSUME IInv, NEW c \in Conn, ChildExits(c)
  PROVE  IInv'
<1>1. /\ child[c] = "over"
      /\ child' = [child EXCEPT ![c] = "zombie"] /\ holders' = [d \in Conn |-> holders[d] \ {c}] /\ pipe' = TRUE
      /\ UNCHANGED <<client, sent, accepted, parent, accepting, watched, wait, childWait, got, data, echoed>>
  BY DEF ChildExits, clientVars, acceptVars, echoVars
<1>2. child' \in [Conn -> Stages] /\ \A d \in Conn : child'[d] = IF d = c THEN "zombie" ELSE child[d]
  BY <1>1 DEF IInv, TypeOK, Stages
<1>3. TypeOK' BY <1>1, <1>2 DEF IInv, TypeOK, Stages
<1>4. Descriptors' BY <1>1, <1>2 DEF IInv, Descriptors
<1>5. Chunks' BY <1>1, <1>2 DEF IInv, Chunks
<1>6. EchoInOrder' BY <1>1, <1>2 DEF IInv, EchoInOrder
<1>7. QED BY <1>3, <1>4, <1>5, <1>6 DEF IInv

LEMMA ChildInv ==
  ASSUME IInv, NEW c \in Conn, Child(c)
  PROVE  IInv'
<1>1. CASE ChildContinues(c)
  <2>1. childWait' \in [Conn -> {"armed", "queued", "none"}]
    BY <1>1 DEF ChildContinues, IInv, TypeOK
  <2>2. QED BY <1>1, <2>1, ChildMoves DEF ChildContinues
<1>2. CASE ChildWaitHandler(c) BY <1>2, ChildWaitHandlerInv
<1>3. CASE ReadSome(c) BY <1>3, ReadSomeInv
<1>4. CASE WriteBack(c) BY <1>4, WriteBackInv
<1>5. CASE EchoFailed(c)
  <2>1. childWait' \in [Conn -> {"armed", "queued", "none"}]
    BY <1>5 DEF EchoFailed, IInv, TypeOK
  <2>2. QED BY <1>5, <2>1, ChildMoves DEF EchoFailed
<1>6. CASE ChildExits(c) BY <1>6, ChildExitsInv
<1>7. QED BY <1>1, <1>2, <1>3, <1>4, <1>5, <1>6 DEF Child

LEMMA ReapInv ==
  ASSUME IInv, NEW c \in Conn, Reap(c)
  PROVE  IInv'
<1>1. childWait' \in [Conn -> {"armed", "queued", "none"}]
  BY DEF Reap, IInv, TypeOK
<1>2. QED BY <1>1, ChildMoves DEF Reap

-----------------------------------------------------------------------------

LEMMA NextInv == IInv /\ [Next]_vars => IInv'
<1> SUFFICES ASSUME IInv, [Next]_vars PROVE IInv' OBVIOUS
<1>1. CASE ParentContinues BY <1>1, ParentContinuesInv
<1>2. CASE Signals BY <1>2, WaitInv, ReapInv DEF Signals
<1>3. ASSUME NEW c \in Conn, Client(c) PROVE IInv' BY <1>3, ClientInv
<1>4. ASSUME NEW c \in Conn, Accept(c) PROVE IInv' BY <1>4, AcceptInv
<1>5. ASSUME NEW c \in Conn, AcceptFailed(c) PROVE IInv' BY <1>5, AcceptFailedInv
<1>6. ASSUME NEW c \in Conn, Child(c) PROVE IInv' BY <1>6, ChildInv
<1>7. CASE UNCHANGED vars
  <2>1. UNCHANGED <<clientVars, acceptVars, holders, signalVars, child, childWait, echoVars>> BY <1>7 DEF vars
  <2>2. TypeOK' BY <2>1 DEF IInv, TypeOK, clientVars, acceptVars, signalVars, echoVars
  <2>3. UNCHANGED served BY <2>1 DEF served, acceptVars
  <2>4. QED BY <2>2, <2>3, ServedUnchanged
<1>8. QED BY <1>1, <1>2, <1>3, <1>4, <1>5, <1>6, <1>7 DEF Next

(* The inductive invariant holds in every reachable state of the server and *)
(* of the children it has forked.                                           *)
THEOREM Invariance == Spec => []IInv
<1>1. QED BY InitInv, NextInv, PTL DEF Spec

(* A connection is closed when the process that serves it has ended: the    *)
(* parent holds a socket in its accept handler only, so that no process     *)
(* forked later gets a copy of it.                                          *)
THEOREM ConnectionsClose == Spec => []ClosedWithTheChild
<1>1. IInv => ClosedWithTheChild
  BY DEF IInv, TypeOK, Descriptors, ClosedWithTheChild
<1>2. QED BY <1>1, Invariance, PTL

(* What a client is sent back is what it sent, in order. *)
THEOREM EchoIsInOrder == Spec => []EchoInOrder
<1>1. IInv => EchoInOrder BY DEF IInv
<1>2. QED BY <1>1, Invariance, PTL

-----------------------------------------------------------------------------
(* What holds when the processes rest *)

(* The facts about the state that the steps below use. *)
LEMMA Shapes ==
  ASSUME IInv
  PROVE  /\ client \in [Conn -> {"absent", "up", "half", "reset"}]
         /\ sent \in [Conn -> Nat] /\ got \in [Conn -> Nat]
         /\ accepted \in [Conn -> BOOLEAN]
         /\ child \in [Conn -> Stages]
         /\ childWait \in [Conn -> {"armed", "queued", "none"}]
         /\ \A c \in Conn : ~accepted[c] => child[c] = "none"
BY ForkAssumption DEF IInv, TypeOK, Chunks, Stages

(* The parent's side: a round of waitpid ends only when no zombie is left,  *)
(* and a child that ends later signals again.                               *)
LEMMA ParentOwesStep == ASSUME IInv, ParentOwes, [Next]_vars PROVE ParentOwes'
<1>1. CASE ParentContinues
  BY <1>1 DEF ParentContinues, ParentOwes
<1>2. CASE DeliverSignal
  BY <1>2 DEF DeliverSignal, ParentIdle, ParentOwes, acceptVars
<1>3. CASE StartReaping
  BY <1>3 DEF StartReaping, ParentIdle, ParentOwes, acceptVars
<1>4. CASE StopReaping
  BY <1>4 DEF StopReaping, ParentOwes, acceptVars
<1>5. ASSUME NEW c \in Conn, Reap(c) PROVE ParentOwes'
  <2>1. \A d \in Conn : child'[d] = "zombie" => child[d] = "zombie"
    BY <1>5, Shapes DEF Reap
  <2>2. QED BY <1>5, <2>1 DEF Reap, ParentOwes, acceptVars, signalVars
<1>6. ASSUME NEW c \in Conn, Client(c) PROVE ParentOwes'
  BY <1>6 DEF Client, ClientMoves, ClientSend, ParentOwes, acceptVars, signalVars
<1>7. ASSUME NEW c \in Conn, Accept(c) PROVE ParentOwes'
  <2>1. \A d \in Conn : child'[d] = "zombie" => child[d] = "zombie"
    BY <1>7, Shapes DEF Accept
  <2>2. QED BY <1>7, <2>1 DEF Accept, ParentIdle, ParentOwes
<1>8. ASSUME NEW c \in Conn, AcceptFailed(c) PROVE ParentOwes'
  BY <1>8 DEF AcceptFailed, ParentIdle, ParentOwes, signalVars
<1>9. ASSUME NEW c \in Conn, Child(c) PROVE ParentOwes'
  <2>1. CASE ChildExits(c)
    BY <2>1 DEF ChildExits, ParentOwes, acceptVars
  <2>2. CASE ~ ChildExits(c)
    <3>1. UNCHANGED <<acceptVars, signalVars>>
      BY <1>9, <2>2 DEF Child, ChildContinues, ChildWaitHandler, ReadSome, WriteBack, EchoFailed
    <3>2. \A d \in Conn : child'[d] = "zombie" => child[d] = "zombie"
      BY <1>9, <2>2, Shapes DEF Child, ChildContinues, ChildWaitHandler, ReadSome, WriteBack, EchoFailed
    <3>3. QED BY <3>1, <3>2 DEF ParentOwes, acceptVars, signalVars
  <2>3. QED BY <2>1, <2>2
<1>10. CASE UNCHANGED vars
  BY <1>10 DEF vars, acceptVars, signalVars, ParentOwes
<1>11. QED
  BY <1>1, <1>2, <1>3, <1>4, <1>5, <1>6, <1>7, <1>8, <1>9, <1>10 DEF Next, Signals

(* The children's side. *)
LEMMA ChildOwesStep == ASSUME IInv, ChildOwes, [Next]_vars PROVE ChildOwes'
<1>1. CASE ParentContinues
  BY <1>1 DEF ParentContinues, ChildOwes, clientVars, echoVars
<1>2. CASE DeliverSignal \/ StartReaping \/ StopReaping
  BY <1>2 DEF DeliverSignal, StartReaping, StopReaping, ChildOwes, clientVars, acceptVars, echoVars
<1>3. ASSUME NEW c \in Conn, Reap(c) PROVE ChildOwes'
  <2>1. \A d \in Conn : child'[d] \in {"reading", "writing", "over"} => child'[d] = child[d]
    BY <1>3, Shapes DEF Reap
  <2>2. QED BY <1>3, <2>1 DEF Reap, ChildOwes, clientVars, acceptVars, echoVars
<1>4. ASSUME NEW c \in Conn, NEW from, NEW to \in {"up", "half", "reset"}, ClientMoves(c, from, to)
      PROVE  ChildOwes'
  <2>1. \A d \in Conn : client'[d] = "absent" => client[d] = "absent"
    BY <1>4, Shapes DEF ClientMoves
  <2>2. QED BY <1>4, <2>1 DEF ClientMoves, ChildOwes, acceptVars, echoVars
<1>5. ASSUME NEW c \in Conn, ClientSend(c) PROVE ChildOwes'
  <2>1. \A d \in Conn : got[d] <= sent[d] => got[d] <= sent'[d]
    BY <1>5, Shapes DEF ClientSend
  <2>2. QED BY <1>5, <2>1 DEF ClientSend, ChildOwes, acceptVars, echoVars
<1>6. ASSUME NEW c \in Conn, Accept(c) PROVE ChildOwes'
  <2>1. \A d \in Conn : accepted'[d] => client[d] # "absent"
    BY <1>6, Shapes DEF Accept, ChildOwes
  <2>2. \A d \in Conn : child'[d] \in {"reading", "writing", "over"} =>
          child'[d] = child[d] /\ childWait'[d] = childWait[d]
    <3>1. child[c] = "none"
      BY <1>6, Shapes DEF Accept
    <3>2. QED BY <1>6, <3>1, Shapes DEF Accept
  <2>3. UNCHANGED <<client, sent, got>>
    BY <1>6 DEF Accept, clientVars, echoVars
  <2>4. QED BY <2>1, <2>2, <2>3 DEF ChildOwes
<1>7. ASSUME NEW c \in Conn, AcceptFailed(c) PROVE ChildOwes'
  <2>1. \A d \in Conn : accepted'[d] => client[d] # "absent"
    BY <1>7, Shapes DEF AcceptFailed, ChildOwes
  <2>2. UNCHANGED <<client, sent, child, childWait, got>>
    BY <1>7 DEF AcceptFailed, clientVars, echoVars
  <2>3. QED BY <2>1, <2>2 DEF ChildOwes
<1>8. ASSUME NEW c \in Conn, Child(c) PROVE ChildOwes'
  <2>1. UNCHANGED <<client, sent, accepted>>
    BY <1>8 DEF Child, ChildContinues, ChildWaitHandler, ReadSome, WriteBack, EchoFailed,
                ChildExits, clientVars, acceptVars
  <2>2. \A d \in Conn : got'[d] <= sent[d]
    <3>1. CASE ReadSome(c)
      BY <3>1, Shapes DEF ReadSome, ChildOwes
    <3>2. CASE ~ ReadSome(c)
      BY <1>8, <3>2 DEF Child, ChildContinues, ChildWaitHandler, WriteBack, EchoFailed,
                        ChildExits, echoVars, ChildOwes
    <3>3. QED BY <3>1, <3>2
  <2>3. \A d \in Conn : child'[d] \in {"reading", "writing", "over"} => childWait'[d] # "armed"
    <3>1. ASSUME NEW d \in Conn, d # c PROVE child'[d] = child[d] /\ childWait'[d] = childWait[d]
      BY <1>8, <3>1, Shapes DEF Child, ChildContinues, ChildWaitHandler, ReadSome, WriteBack,
                                EchoFailed, ChildExits
    <3>2. child'[c] \in {"reading", "writing", "over"} => childWait'[c] # "armed"
      <4>1. CASE ChildContinues(c) BY <4>1, Shapes DEF ChildContinues
      <4>2. CASE ChildWaitHandler(c) BY <4>2, Shapes DEF ChildWaitHandler
      <4>3. CASE ReadSome(c) \/ WriteBack(c) \/ EchoFailed(c)
        BY <4>3 DEF ReadSome, WriteBack, EchoFailed, ChildOwes
      <4>4. CASE ChildExits(c) BY <4>4, Shapes DEF ChildExits
      <4>5. QED BY <1>8, <4>1, <4>2, <4>3, <4>4 DEF Child
    <3>3. QED BY <3>1, <3>2 DEF ChildOwes
  <2>4. QED BY <2>1, <2>2, <2>3 DEF ChildOwes
<1>9. CASE UNCHANGED vars
  BY <1>9 DEF vars, clientVars, acceptVars, echoVars, ChildOwes
<1>10. ASSUME NEW c \in Conn, Client(c) PROVE ChildOwes'
  BY <1>4, <1>5, <1>10 DEF Client
<1>11. QED
  BY <1>1, <1>2, <1>3, <1>6, <1>7, <1>8, <1>9, <1>10 DEF Next, Signals

(* The server cannot get stuck: when no process has anything left to do,    *)
(* everyone was accepted, every child that ended was reaped, and every one  *)
(* that lives has sent back all it was sent and waits for its client.       *)
THEOREM NothingIsForgotten == Spec => []NothingForgotten
<1>1. ASSUME Init PROVE Owed
  <2>1. ParentOwes
    <3>1. watched = (parent = "run") /\ accepting = (parent = "run")
      BY <1>1, Zenon DEF Init
    <3>2. \A c \in Conn : child[c] # "zombie"
      BY <1>1 DEF Init
    <3>3. QED
      BY <3>1, <3>2, Zenon DEF ParentOwes
  <2>2. ASSUME NEW c \in Conn
        PROVE  /\ accepted[c] => client[c] # "absent"
               /\ child[c] \notin {"reading", "writing", "over"}
               /\ got[c] <= sent[c]
    BY <1>1 DEF Init
  <2>3. ChildOwes
    BY <2>2, Zenon DEF ChildOwes
  <2>4. QED
    BY <2>1, <2>3 DEF Owed
<1>2. IInv /\ Owed /\ [Next]_vars => Owed'
  BY ParentOwesStep, ChildOwesStep DEF Owed
<1>3. IInv /\ Owed => NothingForgotten
  <2> SUFFICES ASSUME IInv, Owed, AtRest, NEW c \in Conn
               PROVE  /\ client[c] # "absent" => accepted[c]
                      /\ child[c] \in {"none", "reading", "reaped"}
                      /\ child[c] = "reading" =>
                           client[c] = "up" /\ echoed[c] = [i \in 1 .. sent[c] |-> i]
    BY DEF NothingForgotten
  <2>1. parent = "run" /\ accepting /\ watched /\ ~pipe /\ wait = "armed"
    BY DEF IInv, TypeOK, Owed, ParentOwes, AtRest
  <2>2. client[c] # "absent" => accepted[c]
    BY <2>1 DEF AtRest
  <2>3. child[c] # "zombie"
    BY <2>1 DEF Owed, ParentOwes
  <2>4. child[c] # "over"
    BY Shapes DEF Owed, ChildOwes, AtRest
  <2>5. child[c] \in {"none", "reading", "reaped"}
    BY <2>3, <2>4, Shapes DEF AtRest, Stages
  <2>6. ASSUME child[c] = "reading"
        PROVE  client[c] = "up" /\ echoed[c] = [i \in 1 .. sent[c] |-> i]
    <3>1. client[c] = "up"
      BY <2>6, Shapes DEF Owed, ChildOwes, AtRest
    <3>2. got[c] = sent[c]
      BY <2>6, Shapes DEF Owed, ChildOwes, AtRest
    <3>3. echoed[c] = [i \in 1 .. Len(echoed[c]) |-> i] /\ Len(echoed[c]) = got[c]
      BY <2>6 DEF IInv, EchoInOrder
    <3>4. QED BY <3>1, <3>2, <3>3
  <2>7. QED BY <2>2, <2>5, <2>6
<1>4. QED
  BY Invariance, <1>1, <1>2, <1>3, PTL DEF Spec

-----------------------------------------------------------------------------
(* The daemon *)

(* What the descriptors are when k of the standard streams are open again.  *)
LEMMA StreamFacts ==
  /\ Fd = {0, 1, 2, 3, 4} /\ Own = {3, 4} /\ Process = {1, 2, 3}
  /\ \A k \in 0 .. 3 : \A n \in Fd :
       Redirected(k)[n] = IF n \in Own THEN "asio"
                          ELSE IF ~(n < k) THEN "free"
                          ELSE IF n = 0 THEN "null" ELSE "log"
  /\ \A k \in 0 .. 3 : Redirected(k) \in [Fd -> {"terminal", "asio", "free", "null", "log"}]
<1>1. Fd = {0, 1, 2, 3, 4} /\ Own = {3, 4} /\ Process = {1, 2, 3}
  BY DEF Fd, Own, Process
<1>2. ASSUME NEW k \in 0 .. 3, NEW n \in Fd
      PROVE  Redirected(k)[n] = IF n \in Own THEN "asio"
                                ELSE IF ~(n < k) THEN "free"
                                ELSE IF n = 0 THEN "null" ELSE "log"
  BY <1>1 DEF Redirected
<1>3. ASSUME NEW k \in 0 .. 3
      PROVE  Redirected(k) \in [Fd -> {"terminal", "asio", "free", "null", "log"}]
  <2>1. \A n \in Fd : Redirected(k)[n] \in {"terminal", "asio", "free", "null", "log"}
    BY <1>1, <1>2
  <2>2. QED
    BY <2>1 DEF Redirected
<1>4. QED
  BY <1>1, <1>2, <1>3

(* open and dup take the next of the standard streams. *)
LEMMA NextStream ==
  ASSUME NEW p \in Process, NEW k \in 0 .. 2, fd[p] = Redirected(k)
  PROVE  /\ Lowest(p) = k
         /\ \A what \in {"null", "log"} : what = (IF k = 0 THEN "null" ELSE "log") =>
              [fd[p] EXCEPT ![k] = what] = Redirected(k + 1)
<1> DEFINE free == {n \in Fd : fd[p][n] = "free"}
<1>1. k \in free /\ \A n \in free : n \in 0 .. 4 /\ k <= n
  BY StreamFacts
<1>2. \A m \in free : (\A n \in free : m <= n) => m = k
  BY <1>1
<1>3. Lowest(p) = k
  BY <1>1, <1>2 DEF Lowest, Min
<1>4. ASSUME NEW what \in {"null", "log"}, what = (IF k = 0 THEN "null" ELSE "log")
      PROVE  [fd[p] EXCEPT ![k] = what] = Redirected(k + 1)
  <2> DEFINE f == [fd[p] EXCEPT ![k] = what]
             g == Redirected(k + 1)
             T == {"terminal", "asio", "free", "null", "log"}
  <2>1. k + 1 \in 0 .. 3
    OBVIOUS
  <2>2. f \in [Fd -> T] /\ g \in [Fd -> T]
    BY <2>1, StreamFacts
  <2>3. \A n \in Fd : f[n] = g[n]
    BY <1>4, <2>1, StreamFacts
  <2> HIDE DEF f, g, T
  <2>4. QED
    BY <2>2, <2>3 DEF f, g
<1>5. QED
  BY <1>3, <1>4

(* Where each process may be. *)
LEMMA WayFacts ==
  /\ Way[1] = {"prepare", "fork1", "exit", "exited"}
  /\ Way[2] = {"unborn", "setsid", "fork2", "exit", "exited"}
  /\ Way[3] = {"unborn", "close", "open null", "open log", "dup", "run", "exited"}
BY DEF Way

(* The program starts in the terminal. *)
LEMMA DaemonStarts == DaemonInit => DaemonInv
<1> SUFFICES ASSUME DaemonInit PROVE DaemonInv
  OBVIOUS
<1>1. Process = {1, 2, 3}
  BY StreamFacts
<1>2. WayInv
  <2>1. \A p \in Process : pc[p] \in Way[p]
    BY <1>1, WayFacts DEF DaemonInit
  <2>2. pc \in [Process -> UNION {Way[p] : p \in Process}]
    <3>1. pc = [p \in Process |-> pc[p]]
      BY DEF DaemonInit
    <3>2. QED
      BY <2>1, <3>1
  <2>3. QED
    BY <2>1, <2>2 DEF WayInv
<1>3. SessionInv
  BY <1>1 DEF DaemonInit, SessionInv, Terminal
<1>4. StreamsInv
  <2>1. \A p \in Process : fd[p] = Inherited
    BY DEF DaemonInit, Inherited
  <2>2. fd \in [Process -> [Fd -> {"terminal", "asio", "free", "null", "log"}]]
    BY DEF DaemonInit
  <2>3. \A p \in Process : pc[p] \in {"prepare", "unborn"}
    BY DEF DaemonInit
  <2>4. QED
    BY <2>1, <2>2, <2>3 DEF StreamsInv, StreamsAt
<1>5. QED
  BY <1>2, <1>3, <1>4 DEF DaemonInv

(* A process takes its next step on its way through main. *)
LEMMA WayStep ==
  ASSUME WayInv, NEW p \in Process, NEW to \in Way[p],
         pc' = [pc EXCEPT ![p] = to]
  PROVE  /\ WayInv'
         /\ \A q \in Process : pc'[q] = IF q = p THEN to ELSE pc[q]
<1>1. \A q \in Process : pc'[q] = IF q = p THEN to ELSE pc[q]
  BY DEF WayInv
<1>2. \A q \in Process : pc'[q] \in Way[q]
  BY <1>1 DEF WayInv
<1>3. pc' \in [Process -> UNION {Way[q] : q \in Process}]
  BY <1>2 DEF WayInv
<1>4. QED
  BY <1>1, <1>2, <1>3 DEF WayInv

(* Who is at which statement. *)
LEMMA Who ==
  ASSUME WayInv, NEW p \in Process
  PROVE  /\ pc[p] \in {"prepare", "fork1"} => p = 1
         /\ pc[p] \in {"setsid", "fork2"} => p = 2
         /\ pc[p] \in {"close", "open null", "open log", "dup", "run"} => p = 3
         /\ pc[p] = "exit" => p \in {1, 2}
BY StreamFacts, WayFacts DEF WayInv

(* Preparing a fork and ending leave sessions and descriptors alone. *)
LEMMA KeepsStreams ==
  ASSUME DaemonInv, WayInv', session' = session, fd' = fd,
         \A p \in Process :
           \/ pc'[p] = pc[p]
           \/ pc'[p] \in {"exit", "exited"} /\ pc[p] # "unborn"
           \/ pc'[p] = "fork1" /\ pc[p] = "prepare"
  PROVE  DaemonInv'
<1>1. 1 \in Process /\ 2 \in Process /\ 3 \in Process
  BY StreamFacts
<1>2. pc[2] # "prepare" /\ pc[3] # "prepare"
  BY <1>1, WayFacts DEF DaemonInv, WayInv
<1>3. SessionInv'
  BY <1>1, <1>2 DEF DaemonInv, SessionInv
<1>4. StreamsInv'
  <2>1. \A p \in Process : StreamsAt(pc'[p], fd[p])
    BY DEF DaemonInv, StreamsInv, StreamsAt
  <2>2. QED
    BY <2>1 DEF DaemonInv, StreamsInv
<1>5. QED
  BY <1>3, <1>4 DEF DaemonInv

(* A child is born: it continues with its parent's session and descriptors. *)
LEMMA ForkInv ==
  ASSUME DaemonInv, NEW p \in {1, 2}, NEW at, NEW continue,
         \/ p = 1 /\ at = "fork1" /\ continue = "setsid"
         \/ p = 2 /\ at = "fork2" /\ continue = "close",
         Fork(p, at, continue)
  PROVE  DaemonInv'
<1>1. Process = {1, 2, 3} /\ p + 1 \in Process /\ p + 1 # p
  BY StreamFacts
<1>2. /\ pc[p] = at /\ pc' = [pc EXCEPT ![p] = "exit", ![p + 1] = continue]
      /\ session' = [session EXCEPT ![p + 1] = session[p]]
      /\ fd' = [fd EXCEPT ![p + 1] = fd[p]]
  BY DEF Fork
<1>3. \A q \in Process :
        /\ pc'[q] = IF q = p + 1 THEN continue ELSE IF q = p THEN "exit" ELSE pc[q]
        /\ session'[q] = IF q = p + 1 THEN session[p] ELSE session[q]
        /\ fd'[q] = IF q = p + 1 THEN fd[p] ELSE fd[q]
  BY <1>1, <1>2 DEF DaemonInv, WayInv, SessionInv, StreamsInv
<1>4. WayInv'
  <2>1. \A q \in Process : pc'[q] \in Way[q]
    <3>1. CASE p = 1
      <4>1. pc'[1] = "exit" /\ pc'[2] = "setsid" /\ pc'[3] = pc[3]
        BY <1>1, <1>3, <3>1
      <4>2. pc'[1] \in Way[1] /\ pc'[2] \in Way[2] /\ pc'[3] \in Way[3]
        BY <1>1, <4>1, WayFacts DEF DaemonInv, WayInv
      <4>3. QED
        BY <1>1, <4>2
    <3>2. CASE p = 2
      <4>1. pc'[1] = pc[1] /\ pc'[2] = "exit" /\ pc'[3] = "close"
        BY <1>1, <1>3, <3>2
      <4>2. pc'[1] \in Way[1] /\ pc'[2] \in Way[2] /\ pc'[3] \in Way[3]
        BY <1>1, <4>1, WayFacts DEF DaemonInv, WayInv
      <4>3. QED
        BY <1>1, <4>2
    <3>3. QED
      BY <3>1, <3>2
  <2>2. pc' \in [Process -> UNION {Way[q] : q \in Process}]
    BY <1>2, <2>1 DEF DaemonInv, WayInv
  <2>3. QED
    BY <2>1, <2>2 DEF WayInv
<1>5. SessionInv'
  <2>1. session' \in [Process -> {Terminal} \cup Process]
    BY <1>1, <1>2 DEF DaemonInv, SessionInv
  <2>2. p = 2 => session[p] = 2
    BY <1>2 DEF DaemonInv, SessionInv
  <2>3. QED
    BY <1>1, <1>3, <2>1, <2>2 DEF DaemonInv, SessionInv
<1>6. StreamsInv'
  <2>1. fd[p] = Inherited
    BY <1>1, <1>2 DEF DaemonInv, StreamsInv, StreamsAt
  <2>2. fd' \in [Process -> [Fd -> {"terminal", "asio", "free", "null", "log"}]]
    BY <1>1, <1>2 DEF DaemonInv, StreamsInv
  <2>3. StreamsAt(continue, fd[p]) /\ StreamsAt("exit", fd[p])
    BY <2>1 DEF StreamsAt
  <2>4. \A q \in Process : StreamsAt(pc'[q], fd'[q])
    BY <1>1, <1>3, <2>3 DEF DaemonInv, StreamsInv
  <2>5. QED
    BY <2>2, <2>4 DEF StreamsInv
<1>7. QED
  BY <1>4, <1>5, <1>6 DEF DaemonInv

(* setsid() *)
LEMMA SetSidInv ==
  ASSUME DaemonInv, NEW p \in Process, SetSid(p)
  PROVE  DaemonInv'
<1>1. p = 2 /\ Process = {1, 2, 3}
  BY Who, StreamFacts DEF DaemonInv, SetSid
<1>2. /\ pc' = [pc EXCEPT ![2] = "fork2"] /\ session' = [session EXCEPT ![2] = 2] /\ fd' = fd
  BY <1>1 DEF SetSid
<1>3. "fork2" \in Way[2]
  BY DEF Way
<1>4. WayInv' /\ \A q \in Process : pc'[q] = IF q = 2 THEN "fork2" ELSE pc[q]
  BY <1>1, <1>2, <1>3, WayStep DEF DaemonInv
<1>5. SessionInv'
  BY <1>1, <1>2, <1>4 DEF DaemonInv, SessionInv
<1>6. StreamsInv'
  <2>1. fd[2] = Inherited
    BY <1>1 DEF SetSid, DaemonInv, StreamsInv, StreamsAt
  <2>2. StreamsAt("fork2", fd[2])
    BY <2>1 DEF StreamsAt
  <2>3. QED
    BY <1>1, <1>2, <1>4, <2>2 DEF DaemonInv, StreamsInv
<1>7. QED
  BY <1>4, <1>5, <1>6 DEF DaemonInv

(* A step of the process that becomes the daemon, to its next statement and *)
(* with the descriptors this statement finds.                               *)
LEMMA StreamStep ==
  ASSUME DaemonInv, pc[3] # "unborn",
         NEW to \in Way[3], NEW f \in [Fd -> {"terminal", "asio", "free", "null", "log"}],
         StreamsAt(to, f),
         pc' = [pc EXCEPT ![3] = to], fd' = [fd EXCEPT ![3] = f], session' = session
  PROVE  DaemonInv'
<1>1. Process = {1, 2, 3}
  BY StreamFacts
<1>2. WayInv' /\ \A q \in Process : pc'[q] = IF q = 3 THEN to ELSE pc[q]
  BY <1>1, WayStep DEF DaemonInv
<1>3. SessionInv'
  BY <1>1, <1>2 DEF DaemonInv, SessionInv
<1>4. StreamsInv'
  BY <1>1, <1>2 DEF DaemonInv, StreamsInv
<1>5. QED
  BY <1>2, <1>3, <1>4 DEF DaemonInv

(* close(0), close(1), close(2) *)
LEMMA CloseInv ==
  ASSUME DaemonInv, NEW p \in Process, CloseStreams(p)
  PROVE  DaemonInv'
<1> DEFINE f == [n \in Fd |-> IF n \in 0 .. 2 THEN "free" ELSE fd[3][n]]
<1>1. p = 3 /\ pc[3] = "close" /\ 3 \in Process
  BY Who, StreamFacts DEF DaemonInv, CloseStreams
<1>2. fd[3] = Inherited
  BY <1>1 DEF DaemonInv, StreamsInv, StreamsAt
<1>3. f = Redirected(0)
  <2>1. \A n \in Fd : f[n] = Redirected(0)[n]
    <3>1. \A n \in Fd : n \notin 0 .. 2 => n \in Own
      BY StreamFacts
    <3>2. \A n \in Fd : n \in 0 .. 2 => n \notin Own /\ ~(n < 0)
      BY StreamFacts
    <3>3. \A n \in Own : n \in Fd /\ fd[3][n] = "asio"
      BY <1>2, StreamFacts DEF Inherited
    <3>4. QED
      BY <3>1, <3>2, <3>3, StreamFacts
  <2>2. Redirected(0) = [n \in Fd |-> Redirected(0)[n]]
    BY DEF Redirected
  <2>3. QED
    BY <2>1, <2>2
<1>4. /\ pc' = [pc EXCEPT ![3] = "open null"] /\ session' = session
      /\ fd' = [fd EXCEPT ![3] = f]
  BY <1>1 DEF CloseStreams, DaemonInv, StreamsInv
<1>5. StreamsAt("open null", f)
  BY <1>3 DEF StreamsAt
<1>6. f \in [Fd -> {"terminal", "asio", "free", "null", "log"}] /\ "open null" \in Way[3]
  <2>1. Redirected(0) \in [Fd -> {"terminal", "asio", "free", "null", "log"}]
    BY StreamFacts
  <2>2. QED
    BY <1>3, <2>1, WayFacts
<1> HIDE DEF f
<1>7. QED
  BY <1>1, <1>4, <1>5, <1>6, StreamStep

(* open and dup fill the next stream. *)
LEMMA OpenStep ==
  ASSUME DaemonInv, NEW k \in 0 .. 2, NEW what \in {"null", "log"}, NEW to \in Way[3],
         pc[3] # "unborn", fd[3] = Redirected(k),
         what = (IF k = 0 THEN "null" ELSE "log"), StreamsAt(to, Redirected(k + 1)),
         pc' = [pc EXCEPT ![3] = to], fd' = [fd EXCEPT ![3][Lowest(3)] = what],
         session' = session
  PROVE  DaemonInv'
<1>1. 3 \in Process
  BY StreamFacts
<1>2. Lowest(3) = k /\ [fd[3] EXCEPT ![k] = what] = Redirected(k + 1)
  BY <1>1, NextStream
<1>3. fd' = [fd EXCEPT ![3] = Redirected(k + 1)]
  <2>1. fd' = [fd EXCEPT ![3] = [fd[3] EXCEPT ![k] = what]]
    BY <1>1, <1>2 DEF DaemonInv, StreamsInv
  <2>2. QED
    BY <1>2, <2>1
<1>4. k + 1 \in 0 .. 3
  OBVIOUS
<1>5. Redirected(k + 1) \in [Fd -> {"terminal", "asio", "free", "null", "log"}]
  BY <1>4, StreamFacts
<1>6. QED
  BY <1>3, <1>5, StreamStep

(* open("/dev/null"), open of the log, dup(1) *)
LEMMA OpenInv ==
  ASSUME DaemonInv, NEW p \in Process,
         OpenNull(p) \/ OpenLog(p) \/ Dup(p)
  PROVE  DaemonInv'
<1>1. p = 3 /\ 3 \in Process
  BY Who, StreamFacts DEF DaemonInv, OpenNull, OpenLog, Dup
<1>2. StreamsAt(pc[3], fd[3])
  BY <1>1 DEF DaemonInv, StreamsInv
<1>3. /\ StreamsAt("open log", Redirected(0 + 1))
      /\ StreamsAt("dup", Redirected(1 + 1))
      /\ StreamsAt("run", Redirected(2 + 1))
  BY DEF StreamsAt
<1>4. CASE OpenNull(3)
  <2>1. fd[3] = Redirected(0)
    BY <1>2, <1>4 DEF OpenNull, StreamsAt
  <2>2. /\ pc[3] # "unborn" /\ "open log" \in Way[3]
        /\ pc' = [pc EXCEPT ![3] = "open log"] /\ session' = session
        /\ fd' = [fd EXCEPT ![3][Lowest(3)] = "null"]
    BY <1>4, WayFacts DEF OpenNull
  <2>3. 0 \in 0 .. 2 /\ "null" = (IF 0 = 0 THEN "null" ELSE "log")
    OBVIOUS
  <2>4. QED
    BY <1>3, <2>1, <2>2, <2>3, OpenStep
<1>5. CASE OpenLog(3)
  <2>1. fd[3] = Redirected(1)
    BY <1>2, <1>5 DEF OpenLog, StreamsAt
  <2>2. /\ pc[3] # "unborn" /\ "dup" \in Way[3]
        /\ pc' = [pc EXCEPT ![3] = "dup"] /\ session' = session
        /\ fd' = [fd EXCEPT ![3][Lowest(3)] = "log"]
    BY <1>5, WayFacts DEF OpenLog
  <2>3. 1 \in 0 .. 2 /\ "log" = (IF 1 = 0 THEN "null" ELSE "log")
    OBVIOUS
  <2>4. QED
    BY <1>3, <2>1, <2>2, <2>3, OpenStep
<1>6. CASE Dup(3)
  <2>1. fd[3] = Redirected(2)
    BY <1>2, <1>6 DEF Dup, StreamsAt
  <2>2. fd[3][1] = "log"
    BY <2>1, StreamFacts
  <2>3. /\ pc[3] # "unborn" /\ "run" \in Way[3]
        /\ pc' = [pc EXCEPT ![3] = "run"] /\ session' = session
        /\ fd' = [fd EXCEPT ![3][Lowest(3)] = "log"]
    BY <1>6, <2>2, WayFacts DEF Dup
  <2>4. 2 \in 0 .. 2 /\ "log" = (IF 2 = 0 THEN "null" ELSE "log")
    OBVIOUS
  <2>5. QED
    BY <1>3, <2>1, <2>3, <2>4, OpenStep
<1>7. QED
  BY <1>1, <1>4, <1>5, <1>6

(* Every other step leaves the processes alone or ends one of them. *)
LEMMA DaemonStep ==
  ASSUME DaemonInv,
         [DaemonNext \/ \E p \in Process : SignalHandler(p)]_daemonVars
  PROVE  DaemonInv'
<1>1. ASSUME NEW p \in Process, NEW to, pc' = [pc EXCEPT ![p] = to],
             session' = session, fd' = fd,
             \/ to = "exited" /\ pc[p] # "unborn"
             \/ to = "fork1" /\ pc[p] = "prepare"
      PROVE  DaemonInv'
  <2>1. to \in Way[p]
    BY <1>1, Who, WayFacts, StreamFacts DEF DaemonInv
  <2>2. WayInv' /\ \A q \in Process : pc'[q] = IF q = p THEN to ELSE pc[q]
    BY <1>1, <2>1, WayStep DEF DaemonInv
  <2>3. QED
    BY <1>1, <2>2, KeepsStreams
<1>2. ASSUME NEW p \in Process, Main(p) PROVE DaemonInv'
  <2>1. CASE Prepare(p)
    BY <1>1, <2>1 DEF Prepare
  <2>2. CASE Fork(p, "fork1", "setsid")
    <3>1. p = 1
      BY <2>2, Who DEF DaemonInv, Fork
    <3>2. QED
      BY <2>2, <3>1, ForkInv
  <2>3. CASE Exit(p)
    BY <1>1, <2>3 DEF Exit
  <2>4. CASE SetSid(p)
    BY <2>4, SetSidInv
  <2>5. CASE Fork(p, "fork2", "close")
    <3>1. p = 2
      BY <2>5, Who DEF DaemonInv, Fork
    <3>2. QED
      BY <2>5, <3>1, ForkInv
  <2>6. CASE CloseStreams(p)
    BY <2>6, CloseInv
  <2>7. CASE OpenNull(p)
    BY <2>7, OpenInv
  <2>8. CASE OpenLog(p)
    BY <2>8, OpenInv
  <2>9. CASE Dup(p)
    BY <2>9, OpenInv
  <2>10. QED
    BY <1>2, <2>1, <2>2, <2>3, <2>4, <2>5, <2>6, <2>7, <2>8, <2>9 DEF Main
<1>3. ASSUME NEW p \in Process, SystemCallFails(p) PROVE DaemonInv'
  BY <1>1, <1>3 DEF SystemCallFails
<1>4. ASSUME NEW p \in Process, SignalHandler(p) PROVE DaemonInv'
  BY <1>1, <1>4 DEF SignalHandler
<1>5. CASE UNCHANGED processVars
  <2>1. pc' = pc /\ session' = session /\ fd' = fd
    BY <1>5 DEF processVars
  <2>2. QED
    BY <2>1 DEF DaemonInv, WayInv, SessionInv, StreamsInv
<1>6. QED
  <2>1. ASSUME NEW p \in Process,
               Answer(p) \/ ReceiveError(p) \/ Signal(p)
        PROVE  UNCHANGED processVars
    BY <2>1 DEF Answer, ReceiveError, Signal
  <2>2. ASSUME NEW c \in Asker, Ask(c) PROVE UNCHANGED processVars
    BY <2>2 DEF Ask
  <2>3. Unreachable \/ UNCHANGED daemonVars => UNCHANGED processVars
    BY DEF Unreachable, daemonVars
  <2>4. QED
    BY <1>2, <1>3, <1>4, <1>5, <2>1, <2>2, <2>3 DEF DaemonNext

(* The process that serves is a daemon: in a session that it does not lead  *)
(* and that is not the terminal's, with its standard streams on /dev/null   *)
(* and the log and the descriptors of asio and of the socket as they were.  *)
(* However the three processes, the clients and the failures of the system  *)
(* calls interleave, with or without signals.                               *)
THEOREM DaemonIsDetached ==
  /\ DaemonSpec => []Detached
  /\ SpecWithSignals => []Detached
<1>1. DaemonInv => Detached
  <2> SUFFICES ASSUME DaemonInv, NEW p \in Process, pc[p] = "run"
               PROVE  /\ session[p] # Terminal /\ ~Leader(p)
                      /\ fd[p] = [n \in Fd |-> CASE n = 0 -> "null"
                                                 [] n \in 1 .. 2 -> "log"
                                                 [] OTHER -> "asio"]
    BY DEF Detached
  <2>1. p = 3 /\ session[3] = 2
    BY Who DEF DaemonInv, SessionInv
  <2>2. fd[p] = Redirected(3)
    BY DEF DaemonInv, StreamsInv, StreamsAt
  <2>3. \A n \in Fd :
          Redirected(3)[n] = CASE n = 0 -> "null"
                               [] n \in 1 .. 2 -> "log"
                               [] OTHER -> "asio"
    BY StreamFacts
  <2>4. Redirected(3) = [n \in Fd |-> Redirected(3)[n]]
    BY DEF Redirected
  <2>5. QED
    BY <2>1, <2>2, <2>3, <2>4 DEF Terminal, Leader
<1>2. [DaemonNext]_daemonVars =>
        [DaemonNext \/ \E p \in Process : SignalHandler(p)]_daemonVars
  OBVIOUS
<1>3. QED
  BY DaemonStarts, DaemonStep, <1>1, <1>2, PTL DEF DaemonSpec, SpecWithSignals
-----------------------------------------------------------------------------
(* What the daemon owes its clients.                                        *)

(* The places of c in the buffer q. *)
At(q, c) == {i \in 1 .. Len(q) : q[i] = c}

LEMMA QueuedFinite ==
  ASSUME NEW S, NEW q \in Seq(S), NEW c
  PROVE  IsFiniteSet(At(q, c)) /\ Queued(q, c) = Cardinality(At(q, c)) /\ Queued(q, c) \in Nat
<1>1. IsFiniteSet(1 .. Len(q)) /\ At(q, c) \in SUBSET (1 .. Len(q))
  BY FS_Interval DEF At
<1>2. IsFiniteSet(At(q, c))
  BY <1>1, FS_Subset
<1>3. QED
  BY <1>2, FS_CardinalityType DEF Queued, At

LEMMA NoneQueued == ASSUME NEW c PROVE Queued(<< >>, c) = 0
<1>1. {i \in 1 .. Len(<< >>) : << >>[i] = c} = {}
  OBVIOUS
<1>2. QED
  BY <1>1, FS_EmptySet DEF Queued

(* A request that arrives counts for the one who asks, and for no other. *)
LEMMA QueuedAppend ==
  ASSUME NEW S, NEW q \in Seq(S), NEW d \in S, NEW c
  PROVE  Queued(Append(q, d), c) = Queued(q, c) + (IF c = d THEN 1 ELSE 0)
<1> DEFINE n == Len(q) + 1
           a == Append(q, d)
<1>1. a \in Seq(S) /\ Len(a) = n /\ Len(q) \in Nat
  OBVIOUS
<1>2. \A i \in 1 .. n : a[i] = IF i = n THEN d ELSE q[i]
  OBVIOUS
<1>3. /\ IsFiniteSet(At(q, c)) /\ Queued(q, c) = Cardinality(At(q, c)) /\ Queued(q, c) \in Nat
      /\ Queued(a, c) = Cardinality(At(a, c))
  BY <1>1, QueuedFinite
<1>4. n \notin At(q, c)
  BY <1>1 DEF At
<1> HIDE DEF a
<1>5. CASE c = d
  <2>1. At(a, c) = At(q, c) \cup {n}
    BY <1>1, <1>2, <1>5 DEF At
  <2>2. Cardinality(At(q, c) \cup {n}) = Cardinality(At(q, c)) + 1
    BY <1>3, <1>4, FS_AddElement
  <2>3. Queued(a, c) = Queued(q, c) + 1
    BY <2>1, <2>2, <1>3
  <2>4. QED
    BY <2>3, <1>5 DEF a
<1>6. CASE c # d
  <2>1. At(a, c) = At(q, c)
    BY <1>1, <1>2, <1>6 DEF At
  <2>2. Queued(a, c) = Queued(q, c)
    BY <2>1, <1>3
  <2>3. QED
    BY <2>2, <1>3, <1>6 DEF a
<1>7. QED
  BY <1>5, <1>6

(* The first request in the buffer counted for the one who is answered. *)
LEMMA QueuedTail ==
  ASSUME NEW S, NEW q \in Seq(S), q # << >>, NEW c
  PROVE  Queued(q, c) = Queued(Tail(q), c) + (IF c = Head(q) THEN 1 ELSE 0)
<1> DEFINE t == Tail(q)
           next == [i \in At(t, c) |-> i + 1]
           rest == At(q, c) \ {1}
<1>1. /\ t \in Seq(S) /\ Len(q) \in Nat /\ Len(q) > 0 /\ Len(t) = Len(q) - 1
      /\ \A i \in 1 .. Len(t) : t[i] = q[i + 1]
      /\ Head(q) = q[1]
  OBVIOUS
<1>2. /\ IsFiniteSet(At(q, c)) /\ Queued(q, c) = Cardinality(At(q, c)) /\ Queued(q, c) \in Nat
      /\ IsFiniteSet(At(t, c)) /\ Queued(t, c) = Cardinality(At(t, c)) /\ Queued(t, c) \in Nat
  BY <1>1, QueuedFinite
<1>3. Cardinality(rest) = Cardinality(At(t, c))
  <2>1. \A i \in At(t, c) : i \in Int /\ next[i] = i + 1 /\ next[i] \in rest
    BY <1>1 DEF At
  <2>2. \A i, j \in At(t, c) : next[i] = next[j] => i = j
    <3>1. SUFFICES ASSUME NEW i \in At(t, c), NEW j \in At(t, c), next[i] = next[j]
                   PROVE  i = j
      OBVIOUS
    <3>2. i \in Int /\ j \in Int /\ i + 1 = j + 1
      BY <2>1, <3>1
    <3>3. QED
      BY <3>2
  <2>3. \A k \in rest : \E i \in At(t, c) : next[i] = k
    <3>1. TAKE k \in rest
    <3>2. k - 1 \in At(t, c) /\ k - 1 + 1 = k
      BY <1>1 DEF At
    <3>3. QED
      BY <3>2
  <2>4. next \in [At(t, c) -> rest] /\ DOMAIN next = At(t, c)
    BY <2>1
  <2> HIDE DEF next
  <2>5. next \in Injection(At(t, c), rest)
    <3>1. IsInjective(next)
      BY <2>2, <2>4, Zenon DEF IsInjective
    <3>2. QED
      BY <2>4, <3>1, Zenon DEF Injection
  <2>6. next \in Surjection(At(t, c), rest)
    BY <2>3, <2>4, Zenon DEF Surjection
  <2>7. QED
    BY <2>5, <2>6, <1>2, FS_Bijection DEF ExistsBijection, Bijection
<1>4. CASE c = Head(q)
  <2>1. 1 \in At(q, c)
    BY <1>1, <1>4 DEF At
  <2>2. Cardinality(rest) = Cardinality(At(q, c)) - 1
    BY <2>1, <1>2, FS_RemoveElement
  <2> HIDE DEF rest, t
  <2>3. Queued(q, c) = Queued(t, c) + 1
    BY <2>2, <1>2, <1>3
  <2>4. QED
    BY <2>3, <1>4 DEF t
<1>5. CASE c # Head(q)
  <2>1. rest = At(q, c)
    BY <1>1, <1>5 DEF At
  <2> HIDE DEF rest, t
  <2>2. Queued(q, c) = Queued(t, c)
    BY <2>1, <1>2, <1>3
  <2>3. QED
    BY <2>2, <1>2, <1>5 DEF t
<1>6. QED
  BY <1>4, <1>5

(* The account of a client: a request is lost, queued, or answered. *)
LEMMA Accounts ==
  ASSUME NEW a \in Nat, NEW l \in Nat, NEW n \in Nat, NEW q \in Nat, a = l + n + q
  PROVE  /\ n + l <= a
         /\ q = 0 => a = l + n
         /\ a + 1 = l + 1 + n + q
         /\ a + 1 = l + n + (q + 1)
         /\ \A r \in Nat : q = r + 1 => a = l + (n + 1) + r
<1>1. n + l <= a
  OBVIOUS
<1>2. q = 0 => a = l + n
  OBVIOUS
<1>3. a + 1 = l + 1 + n + q /\ a + 1 = l + n + (q + 1)
  OBVIOUS
<1>4. ASSUME NEW r \in Nat, q = r + 1
      PROVE  a = l + (n + 1) + r
  BY <1>4
<1>5. QED
  BY <1>1, <1>2, <1>3, <1>4

LEMMA OwesAtFirst == DaemonInit => DaemonOwes
<1> SUFFICES ASSUME DaemonInit PROVE DaemonOwes
  OBVIOUS
<1>1. /\ receiving = TRUE /\ queue = << >>
      /\ asked = [c \in Asker |-> 0] /\ lost = [c \in Asker |-> 0]
      /\ answered = [c \in Asker |-> 0]
  BY DEF DaemonInit
<1>2. << >> \in Seq(Asker)
  OBVIOUS
<1>3. ASSUME NEW c \in Asker
      PROVE  asked[c] = lost[c] + answered[c] + Queued(queue, c)
  BY <1>1, NoneQueued
<1>4. QED
  BY <1>1, <1>2, <1>3 DEF DaemonOwes

(* A request finds room in the buffer, or is lost. *)
LEMMA AskAccounted ==
  ASSUME DaemonOwes, NEW d \in Asker, Ask(d)
  PROVE  DaemonOwes'
<1>1. /\ asked' = [asked EXCEPT ![d] = @ + 1]
      /\ receiving' = receiving /\ answered' = answered
      /\ \/ queue' = Append(queue, d) /\ lost' = lost
         \/ lost' = [lost EXCEPT ![d] = @ + 1] /\ queue' = queue
  BY DEF Ask
<1>2. /\ receiving = TRUE /\ queue \in Seq(Asker)
      /\ asked \in [Asker -> Nat] /\ lost \in [Asker -> Nat] /\ answered \in [Asker -> Nat]
      /\ \A c \in Asker : asked[c] = lost[c] + answered[c] + Queued(queue, c)
  BY DEF DaemonOwes
<1>3. /\ asked' \in [Asker -> Nat] /\ lost' \in [Asker -> Nat] /\ queue' \in Seq(Asker)
      /\ asked'[d] = asked[d] + 1
      /\ \A c \in Asker \ {d} : asked'[c] = asked[c] /\ lost'[c] = lost[c]
  <2>1. /\ asked' \in [Asker -> Nat] /\ asked'[d] = asked[d] + 1
        /\ \A c \in Asker \ {d} : asked'[c] = asked[c]
    BY <1>1, <1>2
  <2>2. CASE queue' = Append(queue, d) /\ lost' = lost
    <3>1. Append(queue, d) \in Seq(Asker)
      BY <1>2
    <3>2. QED
      BY <1>2, <2>1, <2>2, <3>1
  <2>3. CASE lost' = [lost EXCEPT ![d] = @ + 1] /\ queue' = queue
    <3>1. lost' \in [Asker -> Nat] /\ \A c \in Asker \ {d} : lost'[c] = lost[c]
      BY <1>2, <2>3
    <3>2. QED
      BY <1>2, <2>1, <2>3, <3>1
  <2>4. QED
    BY <1>1, <2>2, <2>3
<1>4. ASSUME NEW c \in Asker
      PROVE  asked'[c] = lost'[c] + answered[c] + Queued(queue', c)
  <2>1. /\ asked[c] \in Nat /\ lost[c] \in Nat /\ answered[c] \in Nat /\ Queued(queue, c) \in Nat
        /\ asked[c] = lost[c] + answered[c] + Queued(queue, c)
    BY <1>2, QueuedFinite
  <2>2. /\ asked[c] + 1 = lost[c] + 1 + answered[c] + Queued(queue, c)
        /\ asked[c] + 1 = lost[c] + answered[c] + (Queued(queue, c) + 1)
    BY <2>1, Accounts
  <2>3. CASE queue' = Append(queue, d) /\ lost' = lost
    <3>1. Queued(queue', c) = Queued(queue, c) + (IF c = d THEN 1 ELSE 0)
      BY <1>2, <2>3, QueuedAppend
    <3>2. CASE c = d
      <4>1. Queued(queue', c) = Queued(queue, c) + 1 /\ asked'[c] = asked[c] + 1
        BY <3>1, <3>2, <1>3
      <4>2. QED
        BY <4>1, <2>2, <2>3
    <3>3. CASE c # d
      <4>1. Queued(queue', c) = Queued(queue, c) /\ asked'[c] = asked[c]
        BY <3>1, <3>3, <1>3, <2>1
      <4>2. QED
        BY <4>1, <2>1, <2>3
    <3>4. QED
      BY <3>2, <3>3
  <2>4. CASE lost' = [lost EXCEPT ![d] = @ + 1] /\ queue' = queue
    <3>1. CASE c = d
      <4>1. lost'[c] = lost[c] + 1 /\ asked'[c] = asked[c] + 1
        BY <1>2, <1>3, <2>4, <3>1
      <4>2. QED
        BY <4>1, <2>2, <2>4
    <3>2. CASE c # d
      <4>1. lost'[c] = lost[c] /\ asked'[c] = asked[c]
        BY <3>2, <1>3
      <4>2. QED
        BY <4>1, <2>1, <2>4
    <3>3. QED
      BY <3>1, <3>2
  <2>5. QED
    BY <1>1, <2>3, <2>4
<1>5. QED
  BY <1>1, <1>2, <1>3, <1>4 DEF DaemonOwes

(* A handler answers the first in the buffer and receives again. *)
LEMMA AnswerAccounted ==
  ASSUME DaemonOwes, NEW p \in Process, Answer(p)
  PROVE  DaemonOwes'
<1> DEFINE d == Head(queue)
<1>1. /\ queue # << >> /\ queue' = Tail(queue) /\ receiving' = TRUE
      /\ answered' = [answered EXCEPT ![d] = @ + 1]
      /\ asked' = asked /\ lost' = lost
  BY DEF Answer
<1>2. /\ queue \in Seq(Asker)
      /\ asked \in [Asker -> Nat] /\ lost \in [Asker -> Nat] /\ answered \in [Asker -> Nat]
      /\ \A c \in Asker : asked[c] = lost[c] + answered[c] + Queued(queue, c)
  BY DEF DaemonOwes
<1>3. queue' \in Seq(Asker) /\ d \in Asker
  BY <1>1, <1>2
<1>4. ASSUME NEW c \in Asker
      PROVE  asked[c] = lost[c] + answered'[c] + Queued(queue', c)
  <2>1. /\ asked[c] \in Nat /\ lost[c] \in Nat /\ answered[c] \in Nat
        /\ Queued(queue, c) \in Nat /\ Queued(queue', c) \in Nat
        /\ asked[c] = lost[c] + answered[c] + Queued(queue, c)
    BY <1>2, <1>3, QueuedFinite
  <2>2. Queued(queue, c) = Queued(queue', c) + (IF c = d THEN 1 ELSE 0)
    BY <1>1, <1>2, QueuedTail
  <2> HIDE DEF d
  <2>3. CASE c = d
    <3>1. Queued(queue, c) = Queued(queue', c) + 1
      BY <2>2, <2>3
    <3>2. asked[c] = lost[c] + (answered[c] + 1) + Queued(queue', c)
      BY <2>1, <3>1, Accounts
    <3>3. answered'[c] = answered[c] + 1
      BY <1>1, <1>2, <2>3
    <3>4. QED
      BY <3>2, <3>3
  <2>4. CASE c # d
    <3>1. Queued(queue, c) = Queued(queue', c)
      BY <2>1, <2>2, <2>4
    <3>2. answered'[c] = answered[c]
      BY <1>1, <1>2, <1>3, <2>4
    <3>3. QED
      BY <2>1, <3>1, <3>2
  <2>5. QED
    BY <2>3, <2>4
<1>5. answered' \in [Asker -> Nat]
  BY <1>1, <1>2, <1>3
<1>6. QED
  BY <1>1, <1>2, <1>3, <1>4, <1>5 DEF DaemonOwes

LEMMA OwesStep ==
  ASSUME DaemonOwes,
         [DaemonNext \/ \E p \in Process : SignalHandler(p)]_daemonVars
  PROVE  DaemonOwes'
<1>1. ASSUME receiving' = TRUE, UNCHANGED <<queue, asked, lost, answered>>
      PROVE  DaemonOwes'
  BY <1>1 DEF DaemonOwes
<1>2. ASSUME NEW p \in Process, Main(p)
      PROVE  UNCHANGED socketVars /\ UNCHANGED askerVars
  <2>1. CASE Prepare(p) \/ Exit(p) \/ SetSid(p) \/ CloseStreams(p)
    BY <2>1 DEF Prepare, Exit, SetSid, CloseStreams
  <2>2. CASE Fork(p, "fork1", "setsid") \/ Fork(p, "fork2", "close")
    BY <2>2 DEF Fork
  <2>3. CASE OpenNull(p) \/ OpenLog(p) \/ Dup(p)
    BY <2>3 DEF OpenNull, OpenLog, Dup
  <2>4. QED
    BY <1>2, <2>1, <2>2, <2>3 DEF Main
<1>3. ASSUME NEW p \in Process, SystemCallFails(p) \/ Signal(p) \/ SignalHandler(p)
      PROVE  UNCHANGED socketVars /\ UNCHANGED askerVars
  BY <1>3 DEF SystemCallFails, Signal, SignalHandler
<1>4. CASE UNCHANGED socketVars /\ UNCHANGED askerVars
  BY <1>1, <1>4 DEF socketVars, askerVars, DaemonOwes
<1>5. ASSUME NEW p \in Process, ReceiveError(p)
      PROVE  DaemonOwes'
  BY <1>1, <1>5 DEF ReceiveError, askerVars
<1>6. CASE Unreachable
  BY <1>1, <1>6 DEF Unreachable, DaemonOwes
<1>7. UNCHANGED daemonVars => UNCHANGED socketVars /\ UNCHANGED askerVars
  BY DEF daemonVars
<1>8. QED
  BY <1>2, <1>3, <1>4, <1>5, <1>6, <1>7, AskAccounted, AnswerAccounted DEF DaemonNext

(* However the processes, the clients, the errors of the socket and the     *)
(* failures of the system calls interleave, with or without signals: a      *)
(* daemon that has come to rest has ended, or answered every request that   *)
(* the buffer had room for; and no request is answered twice.               *)
THEOREM DaemonForgetsNobody ==
  /\ DaemonSpec => [](AnsweredAtRest /\ AnsweredOnce)
  /\ SpecWithSignals => [](AnsweredAtRest /\ AnsweredOnce)
<1>1. ASSUME DaemonOwes, NEW c \in Asker
      PROVE  /\ answered[c] + lost[c] <= asked[c]
             /\ queue = << >> => asked[c] = lost[c] + answered[c]
  <2>1. /\ asked[c] \in Nat /\ lost[c] \in Nat /\ answered[c] \in Nat
        /\ Queued(queue, c) \in Nat
        /\ asked[c] = lost[c] + answered[c] + Queued(queue, c)
    BY <1>1, QueuedFinite DEF DaemonOwes
  <2>2. queue = << >> => Queued(queue, c) = 0
    BY NoneQueued
  <2>3. QED
    BY <2>1, <2>2, Accounts
<1>2. ASSUME DaemonOwes, DaemonRests, NEW p \in Process, Alive(p)
      PROVE  queue = << >>
  <2>1. pc[p] = "run" /\ receiving
    BY <1>2 DEF DaemonRests, Alive, DaemonOwes
  <2>2. QED
    BY <1>2, <2>1 DEF DaemonRests
<1>3. DaemonOwes => AnsweredAtRest /\ AnsweredOnce
  BY <1>1, <1>2 DEF AnsweredAtRest, AnsweredOnce
<1>4. [DaemonNext]_daemonVars =>
        [DaemonNext \/ \E p \in Process : SignalHandler(p)]_daemonVars
  OBVIOUS
<1>5. QED
  BY OwesAtFirst, OwesStep, <1>3, <1>4, PTL DEF DaemonSpec, SpecWithSignals

=============================================================================
