--------------------------- MODULE SharedBufferProofs ---------------------------
(***************************************************************************)
(* SharedBuffer for any number of clients and parts: a write has its       *)
(* memory, and every step is a step of DaytimeTcp or invisible to it.      *)
(***************************************************************************)
EXTENDS SharedBuffer, TLAPS

Owner == {"local", "op"}
Socket == {"none", "open", "closed"}

(* The server starts with one accept outstanding and neither message nor    *)
(* session made (server::server).                                           *)
THEOREM InitInv == Init => IInv
<1> SUFFICES ASSUME Init PROVE IInv OBVIOUS
<1>1. TypeOK
  <2>1. 0 \in 0 .. Parts BY BufferAssumption
  <2>2. QED BY <2>1 DEF Init, TypeOK
<1>2. Holders BY DEF Init, Holders
<1>3. OneAccept BY DEF Init, OneAccept
<1>4. QED BY <1>1, <1>2, <1>3 DEF IInv

-----------------------------------------------------------------------------
(* Every action preserves IInv and is a step of DaytimeTcp, or none *)

Owners == [c \in Client |-> IF c \in writing \/ "local" \in session[c] THEN {"write"} ELSE {}]

LEMMA OwnersMove ==
  ASSUME NEW c \in Client, NEW v,
         v = (IF c \in writing' \/ "local" \in session'[c] THEN {"write"} ELSE {}),
         \A d \in Client \ {c} : /\ d \in writing' <=> d \in writing
                                 /\ session'[d] = session[d]
  PROVE  Owners' = [Owners EXCEPT ![c] = v]
  BY DEF Owners

LEMMA OwnersStay ==
  ASSUME \A d \in Client : (d \in writing' \/ "local" \in session'[d]) <=> (d \in writing \/ "local" \in session[d])
  PROVE  Owners' = Owners
  BY DEF Owners

LEMMA PeerStep ==
  ASSUME IInv, NEW c \in Client, Connect(c) \/ Reset(c)
  PROVE  IInv' /\ Daytime!Next
<1>1. /\ \/ peer[c] = "absent" /\ peer' = [peer EXCEPT ![c] = "up"]
         \/ peer[c] = "up" /\ peer' = [peer EXCEPT ![c] = "reset"]
      /\ UNCHANGED <<accepting, running, taken, message, session, writing, left, socket>>
  BY DEF Connect, Reset
<1>2. TypeOK' BY <1>1 DEF IInv, TypeOK
<1>3. Holders' /\ OneAccept' BY <1>1 DEF IInv, Holders, OneAccept
<1>4. Daytime!Connect(c) \/ Daytime!Reset(c)
  BY <1>1 DEF Daytime!Connect, Daytime!Reset
<1>5. QED BY <1>2, <1>3, <1>4 DEF IInv, Daytime!Next

LEMMA AcceptHandlerStep ==
  ASSUME IInv, NEW c \in Client, AcceptHandler(c)
  PROVE  IInv' /\ Daytime!Next
<1>1. /\ accepting /\ running = Idle /\ peer[c] # "absent" /\ c \notin taken
      /\ accepting' = FALSE /\ running' = c /\ taken' = taken \cup {c}
      /\ session' = [session EXCEPT ![c] = {"local"}] /\ message' = [message EXCEPT ![c] = {"local"}]
      /\ left' = [left EXCEPT ![c] = Parts] /\ socket' = [socket EXCEPT ![c] = "open"]
      /\ UNCHANGED <<peer, writing>>
  BY DEF AcceptHandler
<1>2. Parts \in 0 .. Parts BY BufferAssumption
<1>3. /\ session' \in [Client -> SUBSET Owner] /\ message' \in [Client -> SUBSET Owner]
      /\ socket' \in [Client -> Socket] /\ left' \in [Client -> 0 .. Parts]
      /\ \A d \in Client : /\ session'[d] = IF d = c THEN {"local"} ELSE session[d]
                           /\ message'[d] = IF d = c THEN {"local"} ELSE message[d]
                           /\ socket'[d] = IF d = c THEN "open" ELSE socket[d]
  BY <1>1, <1>2 DEF IInv, TypeOK, Owner, Socket
<1>4. TypeOK'
  <2>1. accepting' \in BOOLEAN BY <1>1
  <2>2. QED BY <1>1, <1>3, <2>1 DEF IInv, TypeOK, Owner, Socket
<1>5. Holders'
  <2>1. c \notin writing BY <1>1 DEF IInv, TypeOK
  <2>2. \A d \in Client : "local" \notin session[d]
    BY <1>1, BufferAssumption DEF IInv, Holders
  <2>3. QED BY <1>1, <1>3, <2>1, <2>2 DEF IInv, Holders
<1>6. OneAccept' BY <1>1, BufferAssumption DEF OneAccept
<1>7. Owners' = [Owners EXCEPT ![c] = {"write"}]
  BY <1>1, <1>3, OwnersMove
<1>8. Daytime!HandleAccept(c)
  <2>1. (accepting \/ running # Idle) /\ (accepting \/ running # Idle)' = TRUE
    BY <1>1, BufferAssumption
  <2>2. QED BY <1>1, <1>7, <2>1 DEF Daytime!HandleAccept, Daytime!Start, Owners
<1>9. QED BY <1>4, <1>5, <1>6, <1>8 DEF IInv, Daytime!Next, Daytime!Serve

(* Steps of the accept handler that DaytimeTcp does not show. *)
LEMMA Invisible ==
  ASSUME IInv, IInv', UNCHANGED <<peer, taken, left, socket>>, Owners' = Owners
  PROVE  UNCHANGED Daytime!vars
<1>1. (accepting \/ running # Idle)' = (accepting \/ running # Idle)
  <2>1. accepting \/ running # Idle BY DEF IInv, OneAccept
  <2>2. (accepting \/ running # Idle)' BY DEF IInv, OneAccept
  <2>3. QED BY <2>1, <2>2
<1>2. QED BY <1>1 DEF Daytime!vars, Owners

LEMMA StartWriteStep ==
  ASSUME IInv, NEW c \in Client, StartWrite(c)
  PROVE  IInv' /\ UNCHANGED Daytime!vars
<1>1. /\ running = c /\ "local" \in session[c] /\ c \notin writing
      /\ writing' = writing \cup {c}
      /\ message' = [message EXCEPT ![c] = message[c] \cup {"op"}]
      /\ session' = [session EXCEPT ![c] = session[c] \cup {"op"}]
      /\ UNCHANGED <<peer, accepting, running, taken, left, socket>>
  BY DEF StartWrite, IInv, TypeOK
<1>2. /\ session' \in [Client -> SUBSET Owner] /\ message' \in [Client -> SUBSET Owner]
      /\ \A d \in Client : /\ session'[d] = IF d = c THEN session[c] \cup {"op"} ELSE session[d]
                           /\ message'[d] = IF d = c THEN message[c] \cup {"op"} ELSE message[d]
  BY <1>1 DEF IInv, TypeOK, Owner
<1>3. TypeOK'
  <2>1. c \in taken BY <1>1 DEF IInv, Holders
  <2>2. QED BY <1>1, <1>2, <2>1 DEF IInv, TypeOK, Owner
<1>4. Holders' BY <1>1, <1>2 DEF IInv, Holders
<1>5. OneAccept' BY <1>1 DEF IInv, OneAccept
<1>6. Owners' = Owners BY <1>1, <1>2, OwnersStay
<1>7. IInv' BY <1>3, <1>4, <1>5 DEF IInv
<1>8. QED BY <1>1, <1>6, <1>7, Invisible

LEMMA LocalsGoStep ==
  ASSUME IInv, NEW c \in Client, LocalsGo(c)
  PROVE  IInv' /\ UNCHANGED Daytime!vars
<1>1. /\ running = c /\ "local" \in session[c] /\ c \in writing /\ "op" \in session[c]
      /\ message' = [message EXCEPT ![c] = message[c] \ {"local"}]
      /\ session' = [session EXCEPT ![c] = session[c] \ {"local"}]
      /\ socket' = [socket EXCEPT ![c] = IF session'[c] = {} THEN "closed" ELSE socket[c]]
      /\ UNCHANGED <<peer, accepting, running, taken, writing, left>>
  BY DEF LocalsGo, Release, IInv, TypeOK, Holders
<1>2. /\ session' \in [Client -> SUBSET Owner] /\ message' \in [Client -> SUBSET Owner]
      /\ \A d \in Client : /\ session'[d] = IF d = c THEN session[c] \ {"local"} ELSE session[d]
                           /\ message'[d] = IF d = c THEN message[c] \ {"local"} ELSE message[d]
  BY <1>1 DEF IInv, TypeOK, Owner
<1>3. socket' = socket
  <2>1. "op" \in session'[c] BY <1>1, <1>2
  <2>2. session'[c] # {} BY <2>1
  <2>3. QED BY <1>1, <2>2 DEF IInv, TypeOK
<1>4. TypeOK' BY <1>1, <1>2, <1>3 DEF IInv, TypeOK, Owner
<1>5. Holders'
  <2>1. session'[c] # {} /\ session[c] # {} BY <1>1, <1>2
  <2>2. QED BY <1>1, <1>2, <1>3, <2>1 DEF IInv, Holders
<1>6. OneAccept' BY <1>1 DEF IInv, OneAccept
<1>7. Owners' = Owners BY <1>1, <1>2, OwnersStay
<1>8. IInv' BY <1>4, <1>5, <1>6 DEF IInv
<1>9. QED BY <1>1, <1>3, <1>7, <1>8, Invisible

LEMMA AcceptAgainStep ==
  ASSUME IInv, NEW c \in Client, AcceptAgain(c)
  PROVE  IInv' /\ UNCHANGED Daytime!vars
<1>1. /\ running = c /\ "local" \notin session[c] /\ accepting' = TRUE /\ running' = Idle
      /\ UNCHANGED <<peer, taken, message, session, writing, left, socket>>
  BY DEF AcceptAgain
<1>2. TypeOK'
  <2>1. accepting' \in BOOLEAN BY <1>1
  <2>2. QED BY <1>1, <2>1 DEF IInv, TypeOK
<1>3. Holders' BY <1>1 DEF IInv, Holders
<1>4. OneAccept' BY <1>1 DEF OneAccept
<1>5. Owners' = Owners BY <1>1, OwnersStay
<1>6. IInv' BY <1>2, <1>3, <1>4 DEF IInv
<1>7. QED BY <1>1, <1>5, <1>6, Invisible

LEMMA AcceptErrorStep ==
  ASSUME IInv, NEW c \in Client, AcceptError(c)
  PROVE  IInv' /\ Daytime!Next
<1>1. /\ accepting /\ running = Idle /\ peer[c] = "reset" /\ c \notin taken
      /\ taken' = taken \cup {c}
      /\ UNCHANGED <<peer, accepting, running, message, session, writing, left, socket>>
  BY DEF AcceptError
<1>2. TypeOK' BY <1>1 DEF IInv, TypeOK
<1>3. Holders' /\ OneAccept' BY <1>1 DEF IInv, Holders, OneAccept
<1>4. Owners' = Owners BY <1>1, OwnersStay
<1>5. Daytime!HandleAcceptError(c)
  <2>1. (accepting \/ running # Idle) /\ (accepting \/ running # Idle)' = TRUE
    BY <1>1
  <2>2. QED BY <1>1, <1>4, <2>1 DEF Daytime!HandleAcceptError, Owners
<1>6. QED BY <1>2, <1>3, <1>5 DEF IInv, Daytime!Next, Daytime!Serve

LEMMA WritePartStep ==
  ASSUME IInv, NEW c \in Client, WritePart(c)
  PROVE  IInv' /\ Daytime!Next
<1>1. /\ c \in writing /\ left[c] > 0 /\ peer[c] = "up"
      /\ left' = [left EXCEPT ![c] = left[c] - 1]
      /\ UNCHANGED <<peer, accepting, running, taken, message, session, writing, socket>>
  BY DEF WritePart, IInv, TypeOK
<1>2. left[c] - 1 \in 0 .. Parts BY <1>1, BufferAssumption DEF IInv, TypeOK
<1>3. TypeOK' BY <1>1, <1>2 DEF IInv, TypeOK
<1>4. Holders' /\ OneAccept' BY <1>1 DEF IInv, Holders, OneAccept
<1>5. Owners' = Owners /\ "write" \in Owners[c]
  <2>1. Owners' = Owners BY <1>1, OwnersStay
  <2>2. QED BY <1>1, <2>1 DEF Owners
<1>6. Daytime!WritePart(c)
  BY <1>1, <1>5 DEF Daytime!WritePart, Owners
<1>7. QED BY <1>3, <1>4, <1>6 DEF IInv, Daytime!Next, Daytime!Serve

LEMMA WriteEndsStep ==
  ASSUME IInv, NEW c \in Client, WriteEnds(c)
  PROVE  IInv' /\ Daytime!Next
<1>1. /\ running = Idle /\ c \in writing /\ (left[c] = 0 \/ peer[c] = "reset")
      /\ writing' = writing \ {c}
      /\ UNCHANGED <<peer, accepting, running, taken, message, session, left, socket>>
  BY DEF WriteEnds
<1>2. \A d \in Client : "local" \notin session[d]
  BY <1>1, BufferAssumption DEF IInv, Holders
<1>3. TypeOK' BY <1>1 DEF IInv, TypeOK
<1>4. Holders' /\ OneAccept' BY <1>1, <1>2 DEF IInv, Holders, OneAccept
<1>5. Owners' = [Owners EXCEPT ![c] = {}]
  BY <1>1, <1>2, OwnersMove
<1>6. Daytime!HandleWrite(c)
  <2>1. "write" \in Owners[c] BY <1>1 DEF Owners
  <2>2. QED BY <1>1, <1>5, <2>1 DEF Daytime!HandleWrite, Owners
<1>7. QED BY <1>3, <1>4, <1>6 DEF IInv, Daytime!Next, Daytime!Serve

LEMMA OperationGoesStep ==
  ASSUME IInv, NEW c \in Client, OperationGoes(c)
  PROVE  IInv' /\ Daytime!Next
<1>1. /\ c \notin writing /\ "op" \in session[c]
      /\ message' = [message EXCEPT ![c] = message[c] \ {"op"}]
      /\ session' = [session EXCEPT ![c] = session[c] \ {"op"}]
      /\ socket' = [socket EXCEPT ![c] = IF session'[c] = {} THEN "closed" ELSE socket[c]]
      /\ UNCHANGED <<peer, accepting, running, taken, writing, left>>
  BY DEF OperationGoes, Release, IInv, TypeOK, Holders
<1>2. /\ session' \in [Client -> SUBSET Owner] /\ message' \in [Client -> SUBSET Owner]
      /\ \A d \in Client : /\ session'[d] = IF d = c THEN session[c] \ {"op"} ELSE session[d]
                           /\ message'[d] = IF d = c THEN message[c] \ {"op"} ELSE message[d]
  BY <1>1 DEF IInv, TypeOK, Owner
<1>3. "local" \notin session[c] /\ session[c] \in SUBSET Owner
  BY <1>1 DEF IInv, Holders, TypeOK, Owner
<1>4. session'[c] = {} BY <1>2, <1>3 DEF Owner
<1>5. socket' = [socket EXCEPT ![c] = "closed"] /\ socket[c] = "open"
  <2>1. session[c] # {} BY <1>1
  <2>2. QED BY <1>1, <1>4, <2>1 DEF IInv, Holders
<1>6. socket' \in [Client -> Socket] /\ \A d \in Client : socket'[d] = IF d = c THEN "closed" ELSE socket[d]
  BY <1>5 DEF IInv, TypeOK, Socket
<1>7. TypeOK' BY <1>1, <1>2, <1>6 DEF IInv, TypeOK, Owner, Socket
<1>8. Holders' BY <1>1, <1>2, <1>4, <1>6 DEF IInv, Holders
<1>9. OneAccept' BY <1>1 DEF IInv, OneAccept
<1>10. Owners' = Owners
  <2>1. \A d \in Client : "local" \in session'[d] <=> "local" \in session[d] BY <1>2
  <2>2. QED BY <1>1, <2>1, OwnersStay
<1>11. Daytime!Destroy(c)
  <2>1. Owners[c] = {} BY <1>1, <1>3 DEF Owners
  <2>2. QED BY <1>1, <1>5, <1>10, <2>1 DEF Daytime!Destroy, Owners
<1>12. QED BY <1>7, <1>8, <1>9, <1>11 DEF IInv, Daytime!Next, Daytime!Serve

-----------------------------------------------------------------------------

LEMMA StepOfDaytime == IInv /\ [Next]_vars => IInv' /\ [Daytime!Next]_(Daytime!vars)
<1> SUFFICES ASSUME IInv, [Next]_vars PROVE IInv' /\ [Daytime!Next]_(Daytime!vars) OBVIOUS
<1>1. ASSUME NEW c \in Client, Connect(c) \/ Reset(c) \/ Serve(c)
      PROVE  IInv' /\ [Daytime!Next]_(Daytime!vars)
  BY <1>1, PeerStep, AcceptHandlerStep, StartWriteStep, LocalsGoStep, AcceptAgainStep, AcceptErrorStep,
     WritePartStep, WriteEndsStep, OperationGoesStep DEF Serve
<1>2. CASE UNCHANGED vars
  <2>1. UNCHANGED <<peer, accepting, running, taken, message, session, writing, left, socket>>
    BY <1>2 DEF vars
  <2>2. TypeOK' BY <2>1 DEF IInv, TypeOK
  <2>3. Holders' /\ OneAccept' BY <2>1 DEF IInv, Holders, OneAccept
  <2>4. Owners' = Owners BY <2>1 DEF Owners
  <2>5. IInv' BY <2>2, <2>3 DEF IInv
  <2>6. QED BY <2>1, <2>4, <2>5, Invisible
<1>3. QED BY <1>1, <1>2 DEF Next

(* The inductive invariant holds in every reachable state of the server. *)
THEOREM Invariance == Spec => []IInv
<1>1. IInv /\ [Next]_vars => IInv' BY StepOfDaytime
<1>2. QED BY <1>1, InitInv, PTL DEF Spec

(* Message and session are freed after the write only. *)
THEOREM WritesHaveMemory == Spec => []MemoryForTheWrite
<1>1. IInv => MemoryForTheWrite BY DEF IInv, TypeOK, Holders, MemoryForTheWrite
<1>2. QED BY <1>1, Invariance, PTL

(* The server is that of DaytimeTcp, steps and initial states; that it also *)
(* meets the fairness of DaytimeTcp is checked by TLC.                      *)
THEOREM SameService == Spec => Daytime!Init /\ [][Daytime!Next]_(Daytime!vars)
<1>1. Init => Daytime!Init
  <2> SUFFICES ASSUME Init PROVE Daytime!Init OBVIOUS
  <2>1. (accepting \/ running # Idle) = TRUE BY DEF Init
  <2>2. Owners = [c \in Client |-> {}] BY DEF Init, Owners
  <2>3. QED BY <2>1, <2>2 DEF Init, Daytime!Init, Owners
<1>2. IInv /\ [Next]_vars => [Daytime!Next]_(Daytime!vars) BY StepOfDaytime
<1>3. QED BY <1>1, <1>2, Invariance, PTL DEF Spec

-----------------------------------------------------------------------------
(* Served, step by step. *)

(* What concerns the client d does not change. *)
LEMMA ServedSame ==
  ASSUME Served, NEW d \in Client, d \in taken' => d \in taken,
         peer'[d] = peer[d], socket'[d] = socket[d], left'[d] = left[d],
         d \in writing => d \in writing' \/ left[d] = 0 \/ peer[d] = "reset",
         "local" \in session[d] => "local" \in session'[d] \/ d \in writing'
  PROVE  /\ d \in taken' => peer'[d] # "absent"
         /\ d \in taken' /\ peer'[d] = "up" =>
              /\ socket'[d] # "none"
              /\ d \notin writing' /\ "local" \notin session'[d] => left'[d] = 0
BY DEF Served

LEMMA ServedStep == ASSUME IInv, Served, [Next]_vars PROVE Served'
<1>0. /\ peer \in [Client -> {"absent", "up", "reset"}] /\ socket \in [Client -> Socket]
      /\ session \in [Client -> SUBSET Owner] /\ left \in [Client -> 0 .. Parts]
      /\ writing \subseteq taken
  BY DEF IInv, TypeOK, Socket, Owner
<1>1. ASSUME NEW c \in Client, Connect(c) PROVE Served'
  <2>1. /\ peer[c] = "absent" /\ peer' = [peer EXCEPT ![c] = "up"]
        /\ UNCHANGED <<taken, session, writing, left, socket>>
    BY <1>1 DEF Connect
  <2>2. c \notin taken' BY <2>1 DEF Served
  <2>3. \A d \in Client : d # c => peer'[d] = peer[d] BY <1>0, <2>1
  <2>4. QED BY <2>1, <2>2, <2>3 DEF Served
<1>2. ASSUME NEW c \in Client, Reset(c) PROVE Served'
  <2>1. /\ peer' = [peer EXCEPT ![c] = "reset"]
        /\ UNCHANGED <<taken, session, writing, left, socket>>
    BY <1>2 DEF Reset
  <2>2. peer'[c] = "reset" /\ \A d \in Client : d # c => peer'[d] = peer[d] BY <1>0, <2>1
  <2>3. QED BY <2>1, <2>2 DEF Served
<1>3. ASSUME NEW c \in Client, AcceptHandler(c) PROVE Served'
  <2>1. /\ peer[c] # "absent" /\ taken' = taken \cup {c}
        /\ session' = [session EXCEPT ![c] = {"local"}] /\ left' = [left EXCEPT ![c] = Parts]
        /\ socket' = [socket EXCEPT ![c] = "open"]
        /\ UNCHANGED <<peer, writing>>
    BY <1>3 DEF AcceptHandler
  <2>2. "local" \in session'[c] /\ socket'[c] = "open" BY <1>0, <2>1
  <2>3. \A d \in Client : d # c => /\ session'[d] = session[d] /\ left'[d] = left[d]
                                   /\ socket'[d] = socket[d] /\ (d \in taken' => d \in taken)
    BY <1>0, <2>1
  <2>4. ASSUME NEW d \in Client
        PROVE  /\ d \in taken' => peer'[d] # "absent"
               /\ d \in taken' /\ peer'[d] = "up" =>
                    /\ socket'[d] # "none"
                    /\ d \notin writing' /\ "local" \notin session'[d] => left'[d] = 0
    <3>1. CASE d = c BY <2>1, <2>2, <3>1
    <3>2. CASE d # c BY <2>1, <2>3, <3>2, ServedSame
    <3>3. QED BY <3>1, <3>2
  <2>5. QED BY <2>4 DEF Served
<1>4. ASSUME NEW c \in Client, AcceptError(c) PROVE Served'
  <2>1. /\ peer[c] = "reset" /\ taken' = taken \cup {c}
        /\ UNCHANGED <<peer, session, writing, left, socket>>
    BY <1>4 DEF AcceptError
  <2>2. QED BY <2>1 DEF Served
<1>5. ASSUME NEW c \in Client, WritePart(c) PROVE Served'
  <2>1. /\ c \in writing /\ left' = [left EXCEPT ![c] = @ - 1]
        /\ UNCHANGED <<peer, taken, session, writing, socket>>
    BY <1>5 DEF WritePart
  <2>2. \A d \in Client : d # c => left'[d] = left[d] BY <1>0, <2>1
  <2>3. QED BY <2>1, <2>2 DEF Served
<1>6. ASSUME NEW c \in Client, WriteEnds(c) PROVE Served'
  <2>1. /\ left[c] = 0 \/ peer[c] = "reset"
        /\ writing' = writing \ {c}
        /\ UNCHANGED <<peer, taken, session, left, socket>>
    BY <1>6 DEF WriteEnds
  <2>2. QED BY <2>1 DEF Served
<1>7. ASSUME NEW c \in Client, StartWrite(c) \/ LocalsGo(c) \/ AcceptAgain(c) \/ OperationGoes(c)
      PROVE  Served'
  <2>1. /\ UNCHANGED <<peer, taken, left>> /\ writing \subseteq writing'
        /\ \A d \in Client : socket[d] # "none" => socket'[d] # "none"
    <3>1. CASE StartWrite(c) \/ AcceptAgain(c) BY <3>1 DEF StartWrite, AcceptAgain
    <3>2. CASE LocalsGo(c) \/ OperationGoes(c)
      <4>1. UNCHANGED <<peer, taken, left, writing>> BY <3>2 DEF LocalsGo, OperationGoes
      <4>2. socket' = [socket EXCEPT ![c] = IF session'[c] = {} THEN "closed" ELSE @]
        BY <3>2 DEF LocalsGo, OperationGoes, Release
      <4>3. \A d \in Client : socket[d] # "none" => socket'[d] # "none" BY <1>0, <4>2
      <4>4. QED BY <4>1, <4>3
    <3>3. QED BY <1>7, <3>1, <3>2
  <2>2. \A d \in Client : "local" \in session[d] => "local" \in session'[d] \/ d \in writing'
    <3>1. CASE StartWrite(c)
      <4>1. session' = [session EXCEPT ![c] = @ \cup {"op"}] BY <3>1 DEF StartWrite
      <4>2. QED BY <1>0, <4>1
    <3>2. CASE LocalsGo(c)
      <4>1. c \in writing' /\ session' = [session EXCEPT ![c] = @ \ {"local"}]
        BY <3>2 DEF LocalsGo, Release
      <4>2. QED BY <1>0, <4>1
    <3>3. CASE AcceptAgain(c) BY <3>3 DEF AcceptAgain
    <3>4. CASE OperationGoes(c)
      <4>1. session' = [session EXCEPT ![c] = @ \ {"op"}] BY <3>4 DEF OperationGoes, Release
      <4>2. QED BY <1>0, <4>1
    <3>5. QED BY <1>7, <3>1, <3>2, <3>3, <3>4
  <2>3. QED BY <2>1, <2>2 DEF Served
<1>8. CASE UNCHANGED vars BY <1>8 DEF vars, Served
<1>9. QED
  BY <1>1, <1>2, <1>3, <1>4, <1>5, <1>6, <1>7, <1>8 DEF Next, Serve

(* The service never gets stuck and never leaks: when nothing is left to do *)
(* it accepts, every connection was taken, sent its message and closed - or *)
(* was reset by the client -, and no message and no session is kept.        *)
THEOREM ServiceForgetsNobody == Spec => []RestsWhenServed
<1>1. Init => Served BY DEF Init, Served
<1>2. IInv /\ Served /\ [Next]_vars => Served' BY ServedStep
<1>3. IInv /\ Served => RestsWhenServed
  <2> SUFFICES ASSUME IInv, Served, ServiceRests
               PROVE  /\ accepting
                      /\ \A c \in Client :
                           /\ message[c] = {} /\ session[c] = {}
                           /\ peer[c] # "absent" => c \in taken
                           /\ peer[c] = "up" => socket[c] = "closed" /\ left[c] = 0
    BY DEF RestsWhenServed
  <2>1. accepting /\ running = Idle BY DEF ServiceRests, IInv, OneAccept
  <2>2. ASSUME NEW c \in Client
        PROVE  /\ message[c] = {} /\ session[c] = {}
               /\ peer[c] # "absent" => c \in taken
               /\ peer[c] = "up" => socket[c] = "closed" /\ left[c] = 0
    <3>1. peer[c] # "absent" => c \in taken BY <2>1 DEF ServiceRests
    <3>2. /\ peer[c] \in {"absent", "up", "reset"} /\ socket[c] \in Socket
          /\ session[c] \in SUBSET Owner /\ message[c] = session[c]
          /\ writing \subseteq taken
      BY DEF IInv, TypeOK, Holders, Socket, Owner
    <3>3. c \notin writing
      <4>1. SUFFICES ASSUME c \in writing PROVE FALSE OBVIOUS
      <4>2. peer[c] = "absent" BY <3>2, <4>1 DEF ServiceRests
      <4>3. peer[c] # "absent" BY <3>2, <4>1 DEF Served
      <4>4. QED BY <4>2, <4>3
    <3>4. "local" \notin session[c]
      BY <2>1, BufferAssumption DEF IInv, Holders
    <3>5. "op" \notin session[c] BY <3>3 DEF ServiceRests
    <3>6. session[c] = {} BY <3>2, <3>4, <3>5 DEF Owner
    <3>7. socket[c] # "open" BY <3>6 DEF IInv, Holders
    <3>8. ASSUME peer[c] = "up" PROVE socket[c] = "closed" /\ left[c] = 0
      <4>1. c \in taken BY <3>1, <3>8
      <4>2. socket[c] # "none" /\ left[c] = 0 BY <3>3, <3>4, <3>8, <4>1 DEF Served
      <4>3. QED BY <3>2, <3>7, <4>2 DEF Socket
    <3>9. QED BY <3>1, <3>2, <3>6, <3>8
  <2>3. QED BY <2>1, <2>2
<1>4. QED BY Invariance, <1>1, <1>2, <1>3, PTL DEF Spec

=============================================================================
