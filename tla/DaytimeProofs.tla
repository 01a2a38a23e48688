------------------------------ MODULE DaytimeProofs ------------------------------
(***************************************************************************)
(* The safety properties of DaytimeSystem for every set of clients, every  *)
(* size of the message and of the buffer and every number of requests; and *)
(* those of Multicast, for every number of messages and receivers.         *)
(***************************************************************************)
EXTENDS DaytimeSystem, Multicast, Sequences, SequenceTheorems, FiniteSetTheorems, TLAPS

(* Arithmetic of the account: something moves from one place to another. *)
LEMMA Account ==
  ASSUME NEW a \in Nat, NEW l \in Nat, NEW q \in Nat, NEW s \in Nat, NEW d \in Nat, NEW u \in Nat,
         a = l + q + s + d + u
  PROVE  /\ a + 1 = l + (q + 1) + s + d + u
         /\ a + 1 = (l + 1) + q + s + d + u
         /\ \A p \in Nat : q = p + 1 => a = l + p + (s + 1) + d + u
         /\ \A p \in Nat : s = p + 1 => a = l + q + p + (d + 1) + u
         /\ \A p \in Nat : s = p + 1 => a = l + q + p + d + (u + 1)
  OBVIOUS

-----------------------------------------------------------------------------
(* Udp!Count *)

Places(q, c) == {i \in 1 .. Len(q) : q[i] = c}

LEMMA OneUp ==
  ASSUME NEW S, NEW f \in [S -> Nat], NEW c \in S
  PROVE  /\ [f EXCEPT ![c] = @ + 1] \in [S -> Nat]
         /\ \A d \in S : [f EXCEPT ![c] = @ + 1][d] = IF d = c THEN f[d] + 1 ELSE f[d]
  OBVIOUS

LEMMA OneUpBounded ==
  ASSUME NEW S, NEW n \in Nat, NEW f \in [S -> 0 .. n], NEW c \in S, f[c] < n
  PROVE  [f EXCEPT ![c] = @ + 1] \in [S -> 0 .. n]
<1>1. f[c] + 1 \in 0 .. n OBVIOUS
<1>2. QED BY <1>1

LEMMA HeadTail ==
  ASSUME NEW S, NEW q \in Seq(S), q # << >>
  PROVE  Head(q) \in S /\ Tail(q) \in Seq(S) /\ Len(Tail(q)) <= Len(q)
  OBVIOUS

LEMMA OneMore ==
  ASSUME NEW S, NEW q \in Seq(S), NEW d \in S, NEW n \in Nat, Len(q) < n
  PROVE  Append(q, d) \in Seq(S) /\ Len(Append(q, d)) <= n
  OBVIOUS

(* The instance of DaytimeUdp has its own name for it. *)
LEMMA SameCardinality == \A T : Udp!Cardinality(T) = Cardinality(T)
  BY DEF Udp!Cardinality, Cardinality

LEMMA PlacesFinite ==
  ASSUME NEW S, NEW q \in Seq(S), NEW c
  PROVE  IsFiniteSet(Places(q, c)) /\ Udp!Count(q, c) \in Nat /\ Udp!Count(q, c) = Cardinality(Places(q, c))
<1>1. IsFiniteSet(1 .. Len(q)) BY FS_Interval
<1>2. Places(q, c) \in SUBSET (1 .. Len(q)) BY DEF Places
<1>3. IsFiniteSet(Places(q, c)) BY <1>1, <1>2, FS_Subset
<1>4. QED BY <1>3, SameCardinality, FS_CardinalityType DEF Udp!Count, Places

LEMMA CountEmpty == ASSUME NEW c PROVE Udp!Count(<< >>, c) = 0
<1>1. Places(<< >>, c) = {} BY DEF Places
<1>2. QED BY <1>1, SameCardinality, FS_EmptySet DEF Udp!Count, Places

(* What is put into a queue counts once, for itself only. *)
LEMMA CountAppend ==
  ASSUME NEW S, NEW q \in Seq(S), NEW d \in S, NEW c
  PROVE  Udp!Count(Append(q, d), c) = Udp!Count(q, c) + (IF c = d THEN 1 ELSE 0)
<1> DEFINE n == Len(q) + 1
<1>1. Append(q, d) \in Seq(S) /\ Len(Append(q, d)) = n /\ n \notin Places(q, c)
  BY DEF Places
<1>2. \A i \in 1 .. n : Append(q, d)[i] = IF i = n THEN d ELSE q[i]
  OBVIOUS
<1>3. IsFiniteSet(Places(q, c)) /\ Udp!Count(q, c) = Cardinality(Places(q, c)) /\ Udp!Count(q, c) \in Nat
  BY PlacesFinite
<1>4. Udp!Count(Append(q, d), c) = Cardinality(Places(Append(q, d), c))
  BY <1>1, PlacesFinite
<1>5. CASE c = d
  <2>1. Places(Append(q, d), c) = Places(q, c) \cup {n}
    BY <1>1, <1>2, <1>5 DEF Places
  <2>2. Cardinality(Places(q, c) \cup {n}) = Cardinality(Places(q, c)) + 1
    BY <1>1, <1>3, FS_AddElement
  <2>3. QED BY <2>1, <2>2, <1>3, <1>4, <1>5
<1>6. CASE c # d
  <2>1. Places(Append(q, d), c) = Places(q, c)
    BY <1>1, <1>2, <1>6 DEF Places
  <2>2. QED BY <2>1, <1>3, <1>4, <1>6
<1>7. QED BY <1>5, <1>6

(* What is taken from a queue was counted once, for itself only. *)
LEMMA CountTail ==
  ASSUME NEW S, NEW q \in Seq(S), q # << >>, NEW c
  PROVE  /\ Udp!Count(q, c) = Udp!Count(Tail(q), c) + (IF c = Head(q) THEN 1 ELSE 0)
         /\ Udp!Count(Tail(q), c) \in Nat
<1> DEFINE t == Tail(q)
           shift == [i \in Places(t, c) |-> i + 1]
           rest == Places(q, c) \ {1}
<1>1. /\ t \in Seq(S) /\ Len(q) \in Nat /\ Len(q) > 0 /\ Len(t) = Len(q) - 1
      /\ \A i \in 1 .. Len(t) : t[i] = q[i + 1]
      /\ Head(q) = q[1]
  OBVIOUS
<1>2. /\ IsFiniteSet(Places(q, c)) /\ Udp!Count(q, c) = Cardinality(Places(q, c))
      /\ IsFiniteSet(Places(t, c)) /\ Udp!Count(t, c) = Cardinality(Places(t, c))
      /\ Udp!Count(t, c) \in Nat /\ Udp!Count(q, c) \in Nat
  BY <1>1, PlacesFinite
<1>3. Cardinality(rest) = Cardinality(Places(t, c))
  <2>1. \A i \in Places(t, c) : shift[i] \in rest
    BY <1>1 DEF Places
  <2>2. \A i, j \in Places(t, c) : shift[i] = shift[j] => i = j
    BY <1>1 DEF Places
  <2>3. \A k \in rest : \E i \in Places(t, c) : shift[i] = k
    <3>1. TAKE k \in rest
    <3>2. k - 1 \in Places(t, c) /\ k - 1 + 1 = k
      BY <1>1 DEF Places
    <3>3. QED BY <3>2
  <2>4. shift \in [Places(t, c) -> rest]
    BY <2>1
  <2>5. shift \in Injection(Places(t, c), rest)
    <3>1. DOMAIN shift = Places(t, c) OBVIOUS
    <3>2. \A i, j \in DOMAIN shift : shift[i] = shift[j] => i = j BY <2>2, <3>1
    <3> HIDE DEF shift
    <3>4. IsInjective(shift) BY <3>2, Zenon DEF IsInjective
    <3>3. QED BY <2>4, <3>4, Zenon DEF Injection
  <2>6. shift \in Surjection(Places(t, c), rest)
    BY <2>3, <2>4 DEF Surjection
  <2>7. QED BY <2>5, <2>6, <1>2, FS_Bijection DEF ExistsBijection, Bijection
<1>4. CASE c = Head(q)
  <2>1. 1 \in Places(q, c) BY <1>1, <1>4 DEF Places
  <2>2. Cardinality(rest) = Cardinality(Places(q, c)) - 1
    BY <2>1, <1>2, FS_RemoveElement
  <2>3. QED BY <2>2, <1>2, <1>3, <1>4
<1>5. CASE c # Head(q)
  <2>1. rest = Places(q, c) BY <1>1, <1>5 DEF Places
  <2>2. Udp!Count(q, c) = Udp!Count(t, c) BY <2>1, <1>2, <1>3
  <2>3. QED BY <2>2, <1>2, <1>5
<1>6. QED BY <1>2, <1>4, <1>5

-----------------------------------------------------------------------------
(* TCP *)

(* Every step of the TCP server and of its clients. *)
LEMMA TcpStep == ASSUME ConnectionInv, Tcp!Next PROVE ConnectionInv'
<1> USE TwoServerAssumption DEF ConnectionInv, Tcp!TypeOK
<1>1. PICK c \in Client : Tcp!Connect(c) \/ Tcp!Reset(c) \/ Tcp!Serve(c)
  BY DEF Tcp!Next
<1>2. CASE Tcp!Connect(c) BY <1>2 DEF Tcp!Connect
<1>3. CASE Tcp!Reset(c) BY <1>3 DEF Tcp!Reset
<1>4. CASE Tcp!HandleAccept(c) BY <1>4 DEF Tcp!HandleAccept, Tcp!Start
<1>5. CASE Tcp!HandleAcceptError(c) BY <1>5 DEF Tcp!HandleAcceptError
<1>6. CASE Tcp!WritePart(c) BY <1>6 DEF Tcp!WritePart
<1>7. CASE Tcp!HandleWrite(c) BY <1>7 DEF Tcp!HandleWrite
<1>8. CASE Tcp!Destroy(c) BY <1>8 DEF Tcp!Destroy
<1>9. QED BY <1>1, <1>2, <1>3, <1>4, <1>5, <1>6, <1>7, <1>8 DEF Tcp!Serve

(* Nothing else touches the connections. *)
LEMMA TcpStutter == ASSUME ConnectionInv, UNCHANGED tcpVars PROVE ConnectionInv'
  BY DEF ConnectionInv, Tcp!TypeOK, tcpVars

-----------------------------------------------------------------------------
(* UDP *)

Balanced(c) ==
  asked[c] = lost[c] + Udp!Count(queue, c) + Udp!Count(sends, c) + answered[c] + unsent[c]

LEMMA AllBalanced == RepliesGoBack <=> \A c \in Client : Balanced(c)
  BY DEF RepliesGoBack, Udp!RepliesGoBack, Balanced

LEMMA Amounts ==
  ASSUME RequestInv, NEW c \in Client
  PROVE  /\ asked[c] \in Nat /\ lost[c] \in Nat /\ answered[c] \in Nat /\ unsent[c] \in Nat
         /\ Udp!Count(queue, c) \in Nat /\ Udp!Count(sends, c) \in Nat
         /\ Balanced(c)
<1>1. Udp!TypeOK /\ RepliesGoBack BY DEF RequestInv
<1>2. /\ asked[c] \in Nat /\ lost[c] \in Nat /\ answered[c] \in Nat /\ unsent[c] \in Nat
      /\ queue \in Seq(Client) /\ sends \in Seq(Client)
  BY <1>1, TwoServerAssumption DEF Udp!TypeOK
<1>3. Udp!Count(queue, c) \in Nat /\ Udp!Count(sends, c) \in Nat
  BY <1>2, PlacesFinite
<1>4. QED BY <1>1, <1>2, <1>3, AllBalanced

(* A request is in the buffer, or lost. *)
LEMMA RequestStep == ASSUME NEW c \in Client, RequestInv, Udp!Request(c) PROVE RequestInv'
<1>1. Udp!TypeOK /\ queue \in Seq(Client) BY DEF RequestInv, Udp!TypeOK
<1>2. Udp!TypeOK'
  <2>1. asked' \in [Client -> 0 .. MaxRequests]
    <3>1. asked \in [Client -> 0 .. MaxRequests] /\ MaxRequests \in Nat
      BY <1>1, TwoServerAssumption DEF Udp!TypeOK
    <3>2. asked[c] < MaxRequests /\ asked' = [asked EXCEPT ![c] = @ + 1]
      BY DEF Udp!Request
    <3>3. QED BY <3>1, <3>2, OneUpBounded
  <2>2. queue' \in Seq(Client) /\ Len(queue') <= Buffer
    <3>1. CASE Len(queue) < Buffer
      BY <1>1, <3>1, OneMore, TwoServerAssumption DEF Udp!Request
    <3>2. CASE ~(Len(queue) < Buffer)
      BY <1>1, <3>2 DEF Udp!TypeOK, Udp!Request
    <3>3. QED BY <3>1, <3>2
  <2>3. lost' \in [Client -> Nat]
    <3>1. lost' = lost \/ lost' = [lost EXCEPT ![c] = @ + 1]
      BY DEF Udp!Request
    <3>2. lost \in [Client -> Nat] BY <1>1 DEF Udp!TypeOK
    <3>3. QED BY <3>1, <3>2, OneUp
  <2>4. QED BY <1>1, <2>1, <2>2, <2>3 DEF Udp!TypeOK, Udp!Request, Udp!replyVars
<1>3. ASSUME NEW d \in Client PROVE Balanced(d)'
  <2>1. sends' = sends /\ answered' = answered /\ unsent' = unsent
    BY DEF Udp!Request, Udp!replyVars
  <2>2. asked'[d] = IF d = c THEN asked[d] + 1 ELSE asked[d]
    BY <1>1 DEF Udp!Request, Udp!TypeOK
  <2>3. CASE Len(queue) < Buffer
    <3>1. Udp!Count(queue', d) = Udp!Count(queue, d) + (IF d = c THEN 1 ELSE 0)
      <4>1. queue' = Append(queue, c) BY <2>3 DEF Udp!Request
      <4>2. QED BY <1>1, <4>1, CountAppend
    <3>2. lost' = lost BY <2>3 DEF Udp!Request
    <3>3. QED BY <2>1, <2>2, <3>1, <3>2, Amounts, Account DEF Balanced
  <2>4. CASE ~(Len(queue) < Buffer)
    <3>1. queue' = queue /\ lost'[d] = IF d = c THEN lost[d] + 1 ELSE lost[d]
      BY <1>1, <2>4 DEF Udp!Request, Udp!TypeOK
    <3>2. QED BY <2>1, <2>2, <3>1, Amounts, Account DEF Balanced
  <2>5. QED BY <2>3, <2>4
<1>4. QED BY <1>2, <1>3, AllBalanced DEF RequestInv, Balanced, RepliesGoBack, Udp!RepliesGoBack

(* A request received is a reply started. *)
LEMMA ReceiveStep == ASSUME RequestInv, Udp!HandleReceive PROVE RequestInv'
<1>1. /\ Udp!TypeOK /\ queue \in Seq(Client) /\ queue # << >> /\ sends \in Seq(Client)
      /\ Head(queue) \in Client /\ Tail(queue) \in Seq(Client) /\ Len(Tail(queue)) <= Len(queue)
  <2>1. Udp!TypeOK /\ queue # << >> BY DEF RequestInv, Udp!HandleReceive
  <2>2. queue \in Seq(Client) /\ sends \in Seq(Client) BY <2>1 DEF Udp!TypeOK
  <2>3. QED BY <2>1, <2>2, HeadTail
<1>2. queue' = Tail(queue) /\ sends' = Append(sends, Head(queue))
  BY DEF Udp!HandleReceive
<1>3. Udp!TypeOK'
  <2>1. Len(Tail(queue)) <= Buffer /\ Tail(queue) \in Seq(Client)
    BY <1>1, TwoServerAssumption DEF Udp!TypeOK
  <2>2. sends' \in Seq(Client) /\ remote' \in Client /\ receiving' = TRUE
    BY <1>1, <1>2 DEF Udp!HandleReceive
  <2>3. QED BY <1>1, <1>2, <2>1, <2>2 DEF Udp!TypeOK, Udp!HandleReceive, Udp!requestVars
<1>4. ASSUME NEW d \in Client PROVE Balanced(d)'
  <2>1. asked' = asked /\ lost' = lost /\ answered' = answered /\ unsent' = unsent
    BY DEF Udp!HandleReceive, Udp!requestVars
  <2>2. /\ Udp!Count(queue, d) = Udp!Count(queue', d) + (IF d = Head(queue) THEN 1 ELSE 0)
        /\ Udp!Count(queue', d) \in Nat
    BY <1>1, <1>2, CountTail
  <2>3. Udp!Count(sends', d) = Udp!Count(sends, d) + (IF d = Head(queue) THEN 1 ELSE 0)
    BY <1>1, <1>2, CountAppend
  <2>4. CASE d = Head(queue)
    <3>1. Udp!Count(queue, d) = Udp!Count(queue', d) + 1 /\ Udp!Count(sends', d) = Udp!Count(sends, d) + 1
      BY <2>2, <2>3, <2>4
    <3>2. \A p \in Nat : Udp!Count(queue, d) = p + 1 =>
            asked[d] = lost[d] + p + (Udp!Count(sends, d) + 1) + answered[d] + unsent[d]
      <4>1. /\ asked[d] \in Nat /\ lost[d] \in Nat /\ answered[d] \in Nat /\ unsent[d] \in Nat
            /\ Udp!Count(queue, d) \in Nat /\ Udp!Count(sends, d) \in Nat
            /\ asked[d] = lost[d] + Udp!Count(queue, d) + Udp!Count(sends, d) + answered[d] + unsent[d]
        BY Amounts DEF Balanced
      <4>2. QED BY <4>1, Account
    <3>3. QED BY <2>1, <2>2, <3>1, <3>2 DEF Balanced
  <2>5. CASE d # Head(queue)
    <3>1. Udp!Count(queue, d) = Udp!Count(queue', d) /\ Udp!Count(sends', d) = Udp!Count(sends, d)
      BY <2>2, <2>3, <2>5, Amounts
    <3>2. QED BY <2>1, <3>1, Amounts DEF Balanced
  <2>6. QED BY <2>4, <2>5
<1>5. QED BY <1>3, <1>4, AllBalanced DEF RequestInv, Balanced, RepliesGoBack, Udp!RepliesGoBack

(* A reply is sent, to the one it was started for, or fails. *)
LEMMA SendStep == ASSUME RequestInv, Udp!HandleSend PROVE RequestInv'
<1>1. /\ Udp!TypeOK /\ sends \in Seq(Client) /\ sends # << >>
      /\ Head(sends) \in Client /\ Tail(sends) \in Seq(Client)
  <2>1. Udp!TypeOK /\ sends # << >> BY DEF RequestInv, Udp!HandleSend
  <2>2. sends \in Seq(Client) BY <2>1 DEF Udp!TypeOK
  <2>3. QED BY <2>1, <2>2, HeadTail
<1>2. sends' = Tail(sends) BY DEF Udp!HandleSend
<1>3. Udp!TypeOK'
  <2>1. answered \in [Client -> Nat] /\ unsent \in [Client -> Nat]
    BY <1>1 DEF Udp!TypeOK
  <2>2. \/ answered' = [answered EXCEPT ![Head(sends)] = @ + 1] /\ unsent' = unsent
        \/ unsent' = [unsent EXCEPT ![Head(sends)] = @ + 1] /\ answered' = answered
    BY DEF Udp!HandleSend
  <2>3. answered' \in [Client -> Nat] /\ unsent' \in [Client -> Nat]
    BY <1>1, <2>1, <2>2, OneUp
  <2>4. QED BY <1>1, <1>2, <2>3 DEF Udp!TypeOK, Udp!HandleSend, Udp!requestVars
<1>4. ASSUME NEW d \in Client PROVE Balanced(d)'
  <2>1. asked' = asked /\ lost' = lost /\ queue' = queue
    BY DEF Udp!HandleSend, Udp!requestVars
  <2>2. /\ Udp!Count(sends, d) = Udp!Count(sends', d) + (IF d = Head(sends) THEN 1 ELSE 0)
        /\ Udp!Count(sends', d) \in Nat
    BY <1>1, <1>2, CountTail
  <2>3. \/ /\ answered'[d] = (IF d = Head(sends) THEN answered[d] + 1 ELSE answered[d])
           /\ unsent' = unsent
        \/ /\ unsent'[d] = (IF d = Head(sends) THEN unsent[d] + 1 ELSE unsent[d])
           /\ answered' = answered
    BY <1>1 DEF Udp!HandleSend, Udp!TypeOK
  <2>4. QED BY <2>1, <2>2, <2>3, Amounts, Account DEF Balanced
<1>5. QED BY <1>3, <1>4, AllBalanced DEF RequestInv, Balanced, RepliesGoBack, Udp!RepliesGoBack

(* Errors, and everything elsewhere, leave the account alone. *)
LEMMA OtherUdpStep ==
  ASSUME RequestInv, Udp!PortUnreachable \/ Udp!HandleReceiveError \/ UNCHANGED udpVars
  PROVE  RequestInv'
<1>1. /\ queue' = queue /\ sends' = sends /\ remote' = remote /\ asked' = asked
      /\ answered' = answered /\ lost' = lost /\ unsent' = unsent
  BY DEF Udp!PortUnreachable, Udp!HandleReceiveError, Udp!requestVars, Udp!replyVars, udpVars
<1>2. receiving' \in BOOLEAN /\ icmp' \in BOOLEAN
  BY DEF RequestInv, Udp!TypeOK, Udp!PortUnreachable, Udp!HandleReceiveError, udpVars
<1>3. QED BY <1>1, <1>2 DEF RequestInv, Udp!TypeOK, RepliesGoBack, Udp!RepliesGoBack

-----------------------------------------------------------------------------
(* The client with futures *)

(* The main thread starts an operation only after the future of the one     *)
(* before was set, hence after that one had ended.                          *)
LEMMA MainStep == ASSUME FutureInv, Futures!Main PROVE FutureInv'
<1> USE DEF FutureInv, Futures!TypeOK, Futures!Operation
<1>1. CASE Futures!Resolve BY <1>1 DEF Futures!Resolve
<1>2. CASE Futures!OpenSocket BY <1>2 DEF Futures!OpenSocket
<1>3. CASE Futures!GetThenStart("resolve", "endpoints", "send", "send_length")
  BY <1>3 DEF Futures!GetThenStart, Futures!Set
<1>4. CASE Futures!GetThenStart("send", "send_length", "receive", "recv_length")
  BY <1>4 DEF Futures!GetThenStart, Futures!Set
<1>5. CASE Futures!Get("receive", "recv_length", "stop")
  BY <1>5 DEF Futures!Get, Futures!Set
<1>6. CASE Futures!Stop BY <1>6 DEF Futures!Stop
<1>7. CASE Futures!Join BY <1>7 DEF Futures!Join
<1>8. QED BY <1>1, <1>2, <1>3, <1>4, <1>5, <1>6, <1>7 DEF Futures!Main

(* Nothing else starts an operation, or moves the main thread on. *)
LEMMA OtherClientStep ==
  ASSUME FutureInv,
         \/ Futures!Resolved \/ Futures!KernelSends \/ Futures!KernelRefuses
         \/ Futures!Received \/ Futures!ReceiveFails \/ Futures!ReplyArrives \/ Futures!Runner
         \/ UNCHANGED clientVars
  PROVE  FutureInv'
<1> USE DEF FutureInv, Futures!TypeOK, Futures!Operation
<1>1. ASSUME NEW o \in Futures!Operation, NEW r \in {"value", "error"},
             Futures!SystemEnds(o, r), datagrams' \in Nat
      PROVE  FutureInv'
  BY <1>1 DEF Futures!SystemEnds, Futures!mainVars
<1>2. CASE Futures!Resolved BY <1>1, <1>2 DEF Futures!Resolved
<1>3. CASE Futures!KernelSends BY <1>1, <1>3 DEF Futures!KernelSends
<1>4. CASE Futures!KernelRefuses BY <1>1, <1>4 DEF Futures!KernelRefuses
<1>5. CASE Futures!Received \/ Futures!ReceiveFails
  BY <1>1, <1>5 DEF Futures!Received, Futures!ReceiveFails
<1>6. CASE Futures!ReplyArrives BY <1>6 DEF Futures!ReplyArrives, Futures!mainVars
<1>7. CASE Futures!Runner
  BY <1>7 DEF Futures!Runner, Futures!RunReturns, Futures!RunHandler, Futures!mainVars
<1>8. CASE UNCHANGED clientVars BY <1>8 DEF clientVars
<1>9. QED BY <1>2, <1>3, <1>4, <1>5, <1>6, <1>7, <1>8

-----------------------------------------------------------------------------
(* The system *)

LEMMA InitInv == SystemInit => IInv
<1> SUFFICES ASSUME SystemInit PROVE IInv OBVIOUS
<1> USE TwoServerAssumption DEF SystemInit, Init
<1>1. ConnectionInv BY DEF ConnectionInv, Tcp!TypeOK, Tcp!Init
<1>2. Udp!TypeOK
  <2>1. 0 \in 0 .. MaxRequests OBVIOUS
  <2>2. << >> \in Seq(Client) /\ Len(<< >>) <= Buffer OBVIOUS
  <2>3. QED BY <2>1, <2>2 DEF Udp!TypeOK, Udp!Init
<1>3. RepliesGoBack
  <2>1. ASSUME NEW c \in Client PROVE Balanced(c)
    <3>1. Udp!Count(queue, c) = 0 /\ Udp!Count(sends, c) = 0
      BY CountEmpty DEF Udp!Init
    <3>2. asked[c] = 0 /\ lost[c] = 0 /\ answered[c] = 0 /\ unsent[c] = 0
      BY DEF Udp!Init
    <3>3. QED BY <3>1, <3>2 DEF Balanced
  <2>2. QED BY <2>1, AllBalanced
<1>4. FutureInv BY DEF FutureInv, Futures!TypeOK, Futures!Operation, Futures!Init
<1>5. QED BY <1>1, <1>2, <1>3, <1>4 DEF IInv, RequestInv

LEMMA StepInv == ASSUME IInv, [SystemNext]_systemVars PROVE IInv'
<1>1. ConnectionInv /\ RequestInv /\ FutureInv BY DEF IInv
<1>2. CASE Ask
  <2>1. ConnectionInv' BY <1>1, <1>2, TcpStutter DEF Ask
  <2>2. RequestInv'
    BY <1>1, <1>2, RequestStep, OtherUdpStep, SystemAssumption DEF Ask
  <2>3. FutureInv' BY <1>1, <1>2, OtherClientStep DEF Ask
  <2>4. QED BY <2>1, <2>2, <2>3 DEF IInv
<1>3. CASE Reply
  <2>1. ConnectionInv' BY <1>1, <1>3, TcpStutter DEF Reply
  <2>2. RequestInv' BY <1>1, <1>3, SendStep DEF Reply
  <2>3. FutureInv' BY <1>1, <1>3, OtherClientStep DEF Reply, clientVars
  <2>4. QED BY <2>1, <2>2, <2>3 DEF IInv
<1>4. CASE ClientAlone
  <2>1. ConnectionInv' BY <1>1, <1>4, TcpStutter DEF ClientAlone, vars
  <2>2. RequestInv' BY <1>1, <1>4, OtherUdpStep DEF ClientAlone, vars
  <2>3. FutureInv' BY <1>1, <1>4, MainStep, OtherClientStep DEF ClientAlone
  <2>4. QED BY <2>1, <2>2, <2>3 DEF IInv
<1>5. CASE UdpAlone
  <2>1. ConnectionInv' BY <1>1, <1>5, TcpStutter DEF UdpAlone
  <2>2. RequestInv' BY <1>1, <1>5, RequestStep, ReceiveStep, OtherUdpStep DEF UdpAlone
  <2>3. FutureInv' BY <1>1, <1>5, OtherClientStep DEF UdpAlone
  <2>4. QED BY <2>1, <2>2, <2>3 DEF IInv
<1>6. CASE TcpAlone
  <2>1. ConnectionInv' BY <1>1, <1>6, TcpStep DEF TcpAlone
  <2>2. RequestInv' BY <1>1, <1>6, OtherUdpStep DEF TcpAlone
  <2>3. FutureInv' BY <1>1, <1>6, OtherClientStep DEF TcpAlone
  <2>4. QED BY <2>1, <2>2, <2>3 DEF IInv
<1>7. CASE UNCHANGED systemVars
  <2>1. UNCHANGED tcpVars /\ UNCHANGED udpVars /\ UNCHANGED clientVars
    BY <1>7 DEF systemVars, vars
  <2>2. QED BY <1>1, <2>1, TcpStutter, OtherUdpStep, OtherClientStep DEF IInv
<1>8. QED BY <1>2, <1>3, <1>4, <1>5, <1>6, <1>7 DEF SystemNext

(* The inductive invariant holds in every state of the system. *)
THEOREM Invariance == SystemSpec => []IInv
<1>1. IInv /\ [SystemNext]_systemVars => IInv' BY StepInv
<1>2. QED BY InitInv, <1>1, PTL DEF SystemSpec

(* No connection is closed before its message is sent, or its client gone.  *)
THEOREM MessagesAreSent == SystemSpec => []ClosedWhenSent
<1>1. IInv => ClosedWhenSent
  BY DEF IInv, ConnectionInv, ClosedWhenSent, Tcp!ClosedWhenSent, Tcp!TypeOK
<1>2. QED BY Invariance, <1>1, PTL

(* Every request is accounted for: lost, waiting, or replied to once, and   *)
(* to the one who asked.                                                    *)
THEOREM RequestsAreAccountedFor == SystemSpec => []RepliesGoBack
<1>1. IInv => RepliesGoBack BY DEF IInv, RequestInv
<1>2. QED BY Invariance, <1>1, PTL

(* No operation of the client uses a buffer of get_daytime after its end. *)
THEOREM BuffersAreSafe == SystemSpec => []BuffersOutliveOperations
<1>1. IInv => BuffersOutliveOperations
  BY DEF IInv, FutureInv, BuffersOutliveOperations, Futures!BuffersOutliveOperations,
         Futures!InGetDaytime
<1>2. QED BY Invariance, <1>1, PTL

(* With this client and this network, the program is the one that main of   *)
(* two_server.cpp composes: each step of the system is one of TwoServer, or *)
(* leaves both servers alone.                                               *)
THEOREM ServersAsComposed == SystemSpec => Init /\ [][Next]_vars
<1>1. SystemInit => Init BY DEF SystemInit
<1>2. [SystemNext]_systemVars => [Next]_vars
  <2>1. Ask => [Next]_vars BY SystemAssumption DEF Ask, Next, Udp!Next, vars
  <2>2. Reply => [Next]_vars BY DEF Reply, Next, Udp!Next, Udp!Handler
  <2>3. ClientAlone => [Next]_vars BY DEF ClientAlone
  <2>4. UdpAlone => [Next]_vars BY DEF UdpAlone, Next, Udp!Next, Udp!Handler
  <2>5. TcpAlone => [Next]_vars BY DEF TcpAlone, Next
  <2>6. QED BY <2>1, <2>2, <2>3, <2>4, <2>5 DEF SystemNext, systemVars
<1>3. QED BY <1>1, <1>2, PTL DEF SystemSpec

-----------------------------------------------------------------------------
(* The system at rest *)

LEMMA ServedStep == ASSUME ConnectionInv, Tcp!Served, Tcp!Next PROVE Tcp!Served'
<1>0. /\ peer \in [Client -> {"absent", "up", "reset"}] /\ owners \in [Client -> SUBSET {"write"}]
      /\ socket \in [Client -> {"none", "open", "closed"}]
  BY DEF ConnectionInv, Tcp!TypeOK
<1>1. PICK c \in Client : Tcp!Connect(c) \/ Tcp!Reset(c) \/ Tcp!Serve(c)
  BY DEF Tcp!Next
<1>2. CASE Tcp!Connect(c)
  <2>1. /\ peer[c] = "absent" /\ peer' = [peer EXCEPT ![c] = "up"]
        /\ UNCHANGED <<accepting, taken, owners, socket>>
    BY <1>2 DEF Tcp!Connect
  <2>2. c \notin taken BY <2>1 DEF Tcp!Served
  <2>3. QED BY <1>0, <2>1, <2>2 DEF Tcp!Served
<1>3. CASE Tcp!Reset(c)
  <2>1. peer' = [peer EXCEPT ![c] = "reset"] /\ UNCHANGED <<accepting, taken, owners, socket>>
    BY <1>3 DEF Tcp!Reset
  <2>2. QED BY <1>0, <2>1 DEF Tcp!Served
<1>4. CASE Tcp!HandleAccept(c)
  <2>1. /\ peer[c] # "absent" /\ taken' = taken \cup {c} /\ accepting' /\ peer' = peer
        /\ owners' = [owners EXCEPT ![c] = {"write"}] /\ socket' = [socket EXCEPT ![c] = "open"]
    BY <1>4 DEF Tcp!HandleAccept, Tcp!Start
  <2>2. QED BY <1>0, <2>1 DEF Tcp!Served
<1>5. CASE Tcp!HandleAcceptError(c)
  <2>1. /\ peer[c] = "reset" /\ taken' = taken \cup {c} /\ accepting'
        /\ UNCHANGED <<peer, owners, socket>>
    BY <1>5 DEF Tcp!HandleAcceptError
  <2>2. QED BY <2>1 DEF Tcp!Served
<1>6. CASE Tcp!WritePart(c)
  BY <1>6 DEF Tcp!WritePart, Tcp!Served
<1>7. CASE Tcp!HandleWrite(c)
  <2>1. owners' = [owners EXCEPT ![c] = {}] /\ UNCHANGED <<peer, accepting, taken, socket>>
    BY <1>7 DEF Tcp!HandleWrite
  <2>2. QED BY <1>0, <2>1 DEF Tcp!Served
<1>8. CASE Tcp!Destroy(c)
  <2>1. socket' = [socket EXCEPT ![c] = "closed"] /\ UNCHANGED <<peer, accepting, taken, owners>>
    BY <1>8 DEF Tcp!Destroy
  <2>2. QED BY <1>0, <2>1 DEF Tcp!Served
<1>9. QED BY <1>1, <1>2, <1>3, <1>4, <1>5, <1>6, <1>7, <1>8 DEF Tcp!Serve

LEMMA BlocksMain == ASSUME FutureInv, Futures!Blocks, Futures!Main PROVE Futures!Blocks'
<1> USE DEF Futures!Blocks
<1>1. CASE Futures!Resolve BY <1>1 DEF Futures!Resolve
<1>2. CASE Futures!OpenSocket BY <1>2 DEF Futures!OpenSocket
<1>3. CASE Futures!GetThenStart("resolve", "endpoints", "send", "send_length")
  BY <1>3 DEF Futures!GetThenStart
<1>4. CASE Futures!GetThenStart("send", "send_length", "receive", "recv_length")
  BY <1>4 DEF Futures!GetThenStart
<1>5. CASE Futures!Get("receive", "recv_length", "stop")
  BY <1>5 DEF Futures!Get
<1>6. CASE Futures!Stop BY <1>6 DEF Futures!Stop
<1>7. CASE Futures!Join BY <1>7 DEF Futures!Join
<1>8. QED BY <1>1, <1>2, <1>3, <1>4, <1>5, <1>6, <1>7 DEF Futures!Main

(* An operation that is over leaves its result.                             *)
LEMMA BlocksOther ==
  ASSUME FutureInv, Futures!Blocks,
         \/ Futures!Resolved \/ Futures!KernelSends \/ Futures!KernelRefuses
         \/ Futures!Received \/ Futures!ReceiveFails \/ Futures!ReplyArrives \/ Futures!Runner
         \/ UNCHANGED clientVars
  PROVE  Futures!Blocks'
<1>0. result \in [Futures!Operation -> {"none", "value", "error"}]
  BY DEF FutureInv, Futures!TypeOK
<1>1. ASSUME NEW o \in Futures!Operation, NEW r \in {"value", "error"}, Futures!SystemEnds(o, r)
      PROVE  Futures!Blocks'
  <2>1. /\ result[o] = "none" /\ result' = [result EXCEPT ![o] = r]
        /\ UNCHANGED <<main, stopped, ops, runner>>
    BY <1>1 DEF Futures!SystemEnds, Futures!mainVars
  <2>2. \A p \in Futures!Operation : /\ result[p] # "none" => result'[p] = result[p]
    BY <1>0, <2>1
  <2>3. QED BY <2>1, <2>2 DEF Futures!Blocks, Futures!Operation
<1>2. CASE Futures!Resolved BY <1>1, <1>2 DEF Futures!Resolved, Futures!Operation
<1>3. CASE Futures!KernelSends BY <1>1, <1>3 DEF Futures!KernelSends, Futures!Operation
<1>4. CASE Futures!KernelRefuses BY <1>1, <1>4 DEF Futures!KernelRefuses, Futures!Operation
<1>5. CASE Futures!Received \/ Futures!ReceiveFails
  BY <1>1, <1>5 DEF Futures!Received, Futures!ReceiveFails, Futures!Operation
<1>6. CASE Futures!ReplyArrives
  BY <1>6 DEF Futures!ReplyArrives, Futures!mainVars, Futures!Blocks
<1>7. CASE Futures!Runner
  <2>1. CASE Futures!RunReturns
    BY <2>1 DEF Futures!RunReturns, Futures!mainVars, Futures!Blocks
  <2>2. ASSUME NEW o \in Futures!Operation, Futures!RunHandler(o) PROVE Futures!Blocks'
    <3>1. /\ result[o] # "none" /\ ops' = ops \ {o}
          /\ UNCHANGED <<main, stopped, result, runner>>
      BY <2>2 DEF Futures!RunHandler, Futures!mainVars
    <3>2. QED BY <3>1 DEF Futures!Blocks
  <2>3. QED BY <1>7, <2>1, <2>2 DEF Futures!Runner
<1>8. CASE UNCHANGED clientVars BY <1>8 DEF clientVars, Futures!Blocks
<1>9. QED BY <1>2, <1>3, <1>4, <1>5, <1>6, <1>7, <1>8

(* What Delivered depends on: steps that leave it alone. *)
LEMMA DeliveredSame ==
  ASSUME Delivered, dropped' = dropped, asked'[Asker] = asked[Asker],
         answered'[Asker] = answered[Asker], datagrams' = datagrams,
         result'["send"] = "value" => result["send"] = "value",
         result'["receive"] = "value" <=> result["receive"] = "value"
  PROVE  Delivered'
BY DEF Delivered

LEMMA DeliveredClient == ASSUME IInv, Delivered, ClientAlone PROVE Delivered'
<1>0. /\ result \in [Futures!Operation -> {"none", "value", "error"}] /\ datagrams \in Nat
      /\ dropped' = dropped /\ asked' = asked /\ answered' = answered
  BY DEF IInv, FutureInv, Futures!TypeOK, ClientAlone, vars, udpVars
<1>1. CASE Futures!Main
  BY <1>0, <1>1, DeliveredSame DEF Futures!Main, Futures!Resolve, Futures!OpenSocket,
     Futures!GetThenStart, Futures!Get, Futures!Stop, Futures!Join
<1>2. CASE Futures!Runner
  BY <1>0, <1>2, DeliveredSame DEF Futures!Runner, Futures!RunReturns, Futures!RunHandler
<1>3. CASE Futures!Resolved
  <2>1. datagrams' = datagrams /\ \E r : result' = [result EXCEPT !["resolve"] = r]
    BY <1>3 DEF Futures!Resolved, Futures!SystemEnds
  <2>2. result'["send"] = result["send"] /\ result'["receive"] = result["receive"]
    BY <1>0, <2>1 DEF Futures!Operation
  <2>3. QED BY <1>0, <2>1, <2>2, DeliveredSame
<1>4. CASE Futures!KernelRefuses
  <2>1. datagrams' = datagrams /\ result' = [result EXCEPT !["send"] = "error"]
    BY <1>4 DEF Futures!KernelRefuses, Futures!SystemEnds
  <2>2. result'["send"] = "error" /\ result'["receive"] = result["receive"]
    BY <1>0, <2>1 DEF Futures!Operation
  <2>3. QED BY <1>0, <2>1, <2>2, DeliveredSame
<1>5. CASE Futures!Received
  <2>1. /\ datagrams > 0 /\ datagrams' = datagrams - 1 /\ result["receive"] = "none"
        /\ result' = [result EXCEPT !["receive"] = "value"]
    BY <1>5 DEF Futures!Received, Futures!SystemEnds
  <2>2. result'["receive"] = "value" /\ result'["send"] = result["send"]
    BY <1>0, <2>1 DEF Futures!Operation
  <2>3. datagrams = datagrams' + 1 BY <1>0, <2>1
  <2>4. QED BY <1>0, <2>1, <2>2, <2>3 DEF Delivered
<1>6. CASE Futures!ReceiveFails
  <2>1. datagrams' = datagrams /\ result["receive"] = "none"
        /\ result' = [result EXCEPT !["receive"] = "error"]
    BY <1>6 DEF Futures!ReceiveFails, Futures!SystemEnds
  <2>2. result'["send"] = result["send"] /\ result'["receive"] = "error"
    BY <1>0, <2>1 DEF Futures!Operation
  <2>3. QED BY <1>0, <2>1, <2>2, DeliveredSame
<1>7. QED BY <1>1, <1>2, <1>3, <1>4, <1>5, <1>6 DEF ClientAlone

LEMMA DeliveredStep == ASSUME IInv, Delivered, [SystemNext]_systemVars PROVE Delivered'
<1>0. /\ result \in [Futures!Operation -> {"none", "value", "error"}] /\ datagrams \in Nat
      /\ asked \in [Client -> 0 .. MaxRequests] /\ answered \in [Client -> Nat]
      /\ Asker \in Client
  BY SystemAssumption DEF IInv, FutureInv, Futures!TypeOK, RequestInv, Udp!TypeOK
<1>1. CASE Ask
  <2>1. /\ result' = [result EXCEPT !["send"] = "value"] /\ datagrams' = datagrams
        /\ answered' = answered
    BY <1>1 DEF Ask, Futures!KernelSends, Futures!SystemEnds, Udp!Request, Udp!replyVars, udpVars
  <2>2. result'["receive"] = result["receive"]
    BY <1>0, <2>1 DEF Futures!Operation
  <2>3. dropped' = TRUE \/ (dropped' = dropped /\ asked' = [asked EXCEPT ![Asker] = @ + 1])
    BY <1>1 DEF Ask, Udp!Request
  <2>4. CASE dropped' = TRUE BY <2>4 DEF Delivered
  <2>5. CASE dropped' = dropped /\ asked' = [asked EXCEPT ![Asker] = @ + 1]
    <3>1. asked'[Asker] > 0
      <4>1. asked'[Asker] = asked[Asker] + 1 /\ asked[Asker] \in Nat BY <1>0, <2>5
      <4>2. QED BY <4>1
    <3>2. QED BY <2>1, <2>2, <2>5, <3>1 DEF Delivered
  <2>6. QED BY <2>3, <2>4, <2>5
<1>2. CASE Reply
  <2>1. /\ asked' = asked
        /\ \/ answered'[Asker] = answered[Asker]
           \/ answered'[Asker] = answered[Asker] + 1
    <3>1. /\ asked' = asked
          /\ \/ answered' = [answered EXCEPT ![Head(sends)] = @ + 1]
             \/ answered' = answered
      BY <1>2 DEF Reply, Udp!HandleSend, Udp!requestVars
    <3>2. QED BY <1>0, <3>1
  <2>2. CASE answered'[Asker] = answered[Asker]
    <3>1. UNCHANGED clientVars /\ dropped' = dropped BY <1>2, <2>2 DEF Reply
    <3>2. QED BY <2>1, <2>2, <3>1, DeliveredSame DEF clientVars
  <2>3. CASE answered'[Asker] = answered[Asker] + 1
    <3>1. \/ Futures!ReplyArrives /\ dropped' = dropped
          \/ dropped' = TRUE
      <4>1. answered'[Asker] # answered[Asker] BY <1>0, <2>3
      <4>2. QED BY <1>2, <4>1 DEF Reply
    <3>2. CASE Futures!ReplyArrives /\ dropped' = dropped
      <4>1. datagrams' = datagrams + 1 /\ result' = result
        BY <3>2 DEF Futures!ReplyArrives
      <4>2. QED BY <1>0, <2>1, <2>3, <3>2, <4>1 DEF Delivered
    <3>3. CASE dropped' = TRUE BY <3>3 DEF Delivered
    <3>4. QED BY <3>1, <3>2, <3>3
  <2>4. QED BY <2>1, <2>2, <2>3
<1>3. CASE ClientAlone BY <1>3, DeliveredClient
<1>4. CASE UdpAlone
  <2>1. /\ answered' = answered /\ dropped' = dropped /\ UNCHANGED clientVars
        /\ \/ asked' = asked
           \/ \E c \in Client \ {Asker} : asked' = [asked EXCEPT ![c] = @ + 1]
    BY <1>4 DEF UdpAlone, Udp!Request, Udp!PortUnreachable, Udp!HandleReceive, Udp!HandleReceiveError,
                Udp!requestVars, Udp!replyVars
  <2>2. asked'[Asker] = asked[Asker] BY <1>0, <2>1
  <2>3. QED BY <2>1, <2>2, DeliveredSame DEF clientVars
<1>5. CASE TcpAlone \/ UNCHANGED systemVars
  BY <1>5, DeliveredSame DEF TcpAlone, systemVars, vars, udpVars, clientVars
<1>6. QED BY <1>1, <1>2, <1>3, <1>4, <1>5 DEF SystemNext

LEMMA RestInit == SystemInit => Tcp!Served /\ Futures!Blocks /\ Delivered
<1> SUFFICES ASSUME SystemInit PROVE Tcp!Served /\ Futures!Blocks /\ Delivered
  OBVIOUS
<1>1. Tcp!Served BY DEF SystemInit, Init, Tcp!Init, Tcp!Served
<1>2. Futures!Blocks BY DEF SystemInit, Futures!Init, Futures!Blocks
<1>3. Delivered
  <2>1. /\ datagrams = 0 /\ result["send"] = "none" /\ result["receive"] = "none"
    BY DEF SystemInit, Futures!Init, Futures!Operation
  <2>2. answered[Asker] = 0 BY SystemAssumption DEF SystemInit, Init, Udp!Init
  <2>3. QED BY <2>1, <2>2 DEF Delivered
<1>4. QED BY <1>1, <1>2, <1>3

LEMMA RestStep ==
  ASSUME IInv, Tcp!Served, Futures!Blocks, Delivered, [SystemNext]_systemVars
  PROVE  Tcp!Served' /\ Futures!Blocks' /\ Delivered'
<1>0. ConnectionInv /\ FutureInv BY DEF IInv
<1>1. Tcp!Served'
  <2>1. TcpAlone \/ UNCHANGED tcpVars
    BY DEF SystemNext, Ask, Reply, ClientAlone, UdpAlone, systemVars, vars
  <2>2. CASE TcpAlone BY <1>0, <2>2, ServedStep DEF TcpAlone
  <2>3. CASE UNCHANGED tcpVars BY <2>3 DEF tcpVars, Tcp!Served
  <2>4. QED BY <2>1, <2>2, <2>3
<1>2. Futures!Blocks'
  <2>1. \/ Futures!Main
        \/ Futures!Resolved \/ Futures!KernelSends \/ Futures!KernelRefuses
        \/ Futures!Received \/ Futures!ReceiveFails \/ Futures!ReplyArrives \/ Futures!Runner
        \/ UNCHANGED clientVars
    BY DEF SystemNext, Ask, Reply, ClientAlone, UdpAlone, TcpAlone, systemVars
  <2>2. QED BY <1>0, <2>1, BlocksMain, BlocksOther
<1>3. QED BY <1>1, <1>2, DeliveredStep

(* main at rest: it has exited, or waits for a datagram that did not come.  *)
LEMMA MainAtRest ==
  ASSUME FutureInv, Futures!Blocks, Futures!Rests, "send" \in ops => result["send"] # "none"
  PROVE  \/ main = "exited"
         \/ /\ main = "recv_length" /\ result["send"] = "value"
            /\ result["receive"] = "none" /\ datagrams = 0
<1>0. /\ main \in {"resolve", "open", "endpoints", "send_length", "recv_length",
                   "stop", "join", "exited"}
      /\ runner \in {"run", "returned"}
  BY DEF FutureInv, Futures!TypeOK
<1>1. main \notin {"resolve", "open", "stop"} BY DEF Futures!Rests
<1>2. main # "join"
  <2>1. SUFFICES ASSUME main = "join" PROVE FALSE OBVIOUS
  <2>2. stopped /\ runner # "returned" BY <2>1 DEF Futures!Blocks, Futures!Rests
  <2>3. runner = "run" BY <1>0, <2>2
  <2>4. QED BY <2>2, <2>3 DEF Futures!Rests
<1>3. ASSUME main \in {"endpoints", "send_length", "recv_length"}
      PROVE  \A o \in ops : result[o] = "none"
  <2>1. ~ stopped BY <1>3 DEF Futures!Blocks
  <2>2. runner = "run" BY <1>0, <2>1 DEF Futures!Blocks
  <2>3. QED BY <2>2 DEF Futures!Rests
<1>4. main # "endpoints"
  <2>1. SUFFICES ASSUME main = "endpoints" PROVE FALSE OBVIOUS
  <2>2. \A o \in ops : result[o] = "none" BY <1>3, <2>1
  <2>3. "resolve" \in ops \/ result["resolve"] # "none" BY <2>1 DEF Futures!Blocks
  <2>4. QED BY <2>1, <2>2, <2>3 DEF Futures!Rests, Futures!Set
<1>5. main # "send_length"
  <2>1. SUFFICES ASSUME main = "send_length" PROVE FALSE OBVIOUS
  <2>2. \A o \in ops : result[o] = "none" BY <1>3, <2>1
  <2>3. "send" \in ops \/ result["send"] # "none" BY <2>1 DEF Futures!Blocks
  <2>4. QED BY <2>1, <2>2, <2>3 DEF Futures!Rests, Futures!Set
<1>6. ASSUME main = "recv_length"
      PROVE  result["send"] = "value" /\ result["receive"] = "none" /\ datagrams = 0
  <2>1. \A o \in ops : result[o] = "none" BY <1>3, <1>6
  <2>2. result["send"] = "value" /\ ("receive" \in ops \/ result["receive"] # "none")
    BY <1>6 DEF Futures!Blocks
  <2>3. "receive" \in ops BY <1>6, <2>2 DEF Futures!Rests, Futures!Set
  <2>4. QED BY <2>1, <2>2, <2>3 DEF Futures!Rests
<1>7. QED BY <1>0, <1>1, <1>2, <1>4, <1>5, <1>6

(* The account of a client when the service rests.                          *)
LEMMA RestAccount ==
  ASSUME RequestInv, Udp!ServiceRests, receiving, NEW c \in Client
  PROVE  asked[c] = lost[c] + answered[c] + unsent[c]
<1>1. queue = << >> /\ sends = << >> BY DEF Udp!ServiceRests
<1>2. Udp!Count(queue, c) = 0 /\ Udp!Count(sends, c) = 0 BY <1>1, CountEmpty
<1>3. /\ asked[c] = lost[c] + 0 + 0 + answered[c] + unsent[c]
      /\ lost[c] \in Nat /\ answered[c] \in Nat /\ unsent[c] \in Nat
  BY <1>2, Amounts DEF Balanced
<1>4. QED BY <1>3

(* The client's two threads lose no wake-up: when everything rests, it has  *)
(* exited, or it waits for a reply because its request or the reply was     *)
(* dropped, or the service had ended with an error.                         *)
THEOREM ClientWaitsForCause == SystemSpec => []RestsOrSilent
<1>1. IInv /\ Tcp!Served /\ Futures!Blocks /\ Delivered /\ [SystemNext]_systemVars
        => Tcp!Served' /\ Futures!Blocks' /\ Delivered'
  BY RestStep
<1>2. IInv /\ Futures!Blocks /\ Delivered => RestsOrSilent
  <2> SUFFICES ASSUME IInv, Futures!Blocks, Delivered, SystemRests, main # "exited"
               PROVE  main = "recv_length" /\ Silence
    BY DEF RestsOrSilent
  <2>1. /\ main = "recv_length" /\ result["send"] = "value"
        /\ result["receive"] = "none" /\ datagrams = 0
    BY MainAtRest DEF SystemRests, IInv
  <2>2. Silence
    <3>1. SUFFICES ASSUME ~ dropped, receiving, ~ (lost[Asker] > 0), ~ (unsent[Asker] > 0)
                   PROVE  FALSE
      BY DEF Silence
    <3>2. asked[Asker] > 0 /\ answered[Asker] = 0
      BY <2>1, <3>1 DEF Delivered
    <3>3. asked[Asker] = lost[Asker] + answered[Asker] + unsent[Asker]
      BY <3>1, RestAccount, SystemAssumption DEF SystemRests, IInv
    <3>4. lost[Asker] \in Nat /\ unsent[Asker] \in Nat
      BY Amounts, SystemAssumption DEF IInv
    <3>5. QED BY <3>1, <3>2, <3>3, <3>4
  <2>3. QED BY <2>1, <2>2
<1>3. QED BY RestInit, Invariance, <1>1, <1>2, PTL DEF SystemSpec

(* Neither server forgets anybody: when it rests, every TCP connection was  *)
(* taken, sent its message and closed - or was reset -, and every UDP       *)
(* request, unless an error has ended the service, was lost to the buffer   *)
(* or replied to.                                                           *)
THEOREM ServersForgetNobody == SystemSpec => []ServicesRest
<1>1. IInv /\ Tcp!Served /\ Futures!Blocks /\ Delivered /\ [SystemNext]_systemVars
        => Tcp!Served' /\ Futures!Blocks' /\ Delivered'
  BY RestStep
<1>2. IInv /\ Tcp!Served => Tcp!RestsWhenServed
  <2> SUFFICES ASSUME IInv, Tcp!Served, Tcp!ServiceRests, NEW c \in Client
               PROVE  /\ accepting /\ owners[c] = {}
                      /\ peer[c] # "absent" => c \in taken
                      /\ peer[c] = "up" => socket[c] = "closed" /\ left[c] = 0
    BY DEF Tcp!RestsWhenServed, Tcp!Served
  <2>1. /\ peer[c] \in {"absent", "up", "reset"} /\ owners[c] \in SUBSET {"write"}
        /\ socket[c] \in {"none", "open", "closed"}
    BY DEF IInv, ConnectionInv, Tcp!TypeOK
  <2>2. accepting /\ (peer[c] # "absent" => c \in taken)
    BY DEF Tcp!Served, Tcp!ServiceRests
  <2>3. "write" \notin owners[c]
    <3>1. SUFFICES ASSUME "write" \in owners[c] PROVE FALSE OBVIOUS
    <3>2. peer[c] = "absent" BY <2>1, <3>1 DEF Tcp!ServiceRests
    <3>3. QED BY <3>1, <3>2 DEF Tcp!Served
  <2>4. owners[c] = {} BY <2>1, <2>3
  <2>5. socket[c] # "open" BY <2>4 DEF Tcp!ServiceRests
  <2>6. ASSUME peer[c] = "up" PROVE socket[c] = "closed" /\ left[c] = 0
    <3>1. socket[c] # "none" BY <2>2, <2>6 DEF Tcp!Served
    <3>2. QED BY <2>1, <2>3, <2>5, <2>6, <3>1 DEF IInv, ConnectionInv
  <2>7. QED BY <2>2, <2>4, <2>6
<1>3. IInv => Udp!RestsWhenAnswered
  BY RestAccount DEF IInv, Udp!RestsWhenAnswered
<1>4. IInv /\ Tcp!Served => ServicesRest
  BY <1>2, <1>3 DEF ServicesRest
<1>5. QED BY RestInit, Invariance, <1>1, <1>4, PTL DEF SystemSpec

-----------------------------------------------------------------------------
(* Datagrams to a group *)

(* A datagram that is numbered with the length of the wire keeps it in      *)
(* order.                                                                   *)
LEMMA NumberedOneMore ==
  ASSUME NEW q \in Seq(Nat), q = [i \in 1 .. Len(q) |-> i - 1]
  PROVE  LET s == Append(q, Len(q))
         IN  s \in Seq(Nat) /\ Len(s) = Len(q) + 1 /\ s = [i \in 1 .. Len(s) |-> i - 1]
<1> DEFINE s == Append(q, Len(q))
<1>1. Len(q) \in Nat /\ \A i \in 1 .. Len(q) : q[i] = i - 1
  OBVIOUS
<1>2. s \in Seq(Nat) /\ Len(s) = Len(q) + 1
  BY <1>1
<1>3. \A i \in 1 .. Len(s) : s[i] = IF i = Len(q) + 1 THEN Len(q) ELSE q[i]
  BY <1>1, <1>2
<1>4. \A i \in 1 .. Len(s) : s[i] = i - 1
  BY <1>1, <1>2, <1>3
<1>5. s = [i \in 1 .. Len(s) |-> i - 1]
  <2> DEFINE t == [i \in 1 .. Len(q) + 1 |-> i - 1]
  <2>1. t \in Seq(Nat) /\ Len(t) = Len(q) + 1
    BY <1>1
  <2>2. \A i \in 1 .. Len(q) + 1 : t[i] = i - 1
    OBVIOUS
  <2> HIDE DEF s, t
  <2>3. s = t
    BY <1>1, <1>2, <1>4, <2>1, <2>2, SeqEqual
  <2>4. QED
    BY <1>2, <2>3 DEF t
<1>6. QED
  BY <1>2, <1>5

(* The constructor sends message 0. *)
LEMMA SenderInit == ASSUME MulticastInit PROVE SenderInv
<1>1. << >> \in Seq(Nat) /\ Len(<< >>) = 0 /\ << >> = [i \in 1 .. Len(<< >>) |-> i - 1]
  OBVIOUS
<1>2. NumberedInOrder
  <2>1. wire = << >>
    BY DEF MulticastInit
  <2>2. QED
    BY <1>1, <2>1 DEF NumberedInOrder
<1>3. /\ message = 0 /\ count = 1 /\ sending = "pending" /\ timer = "idle"
      /\ wire \in Seq(Nat) /\ Len(wire) = 0 /\ count <= MaxMessages
  BY <1>1, MulticastAssumption DEF MulticastInit
<1>4. QED
  BY <1>2, <1>3 DEF SenderInv, SenderTypeOK, OneAtATime, EndsWithTheLast, SenderDone

(* The timer runs after a send is over, and a send starts when it expires. *)
LEMMA SenderStep ==
  ASSUME SenderInv, [MulticastNext]_multicastVars
  PROVE  SenderInv'
<1> USE MulticastAssumption DEF SenderInv
<1> DEFINE TypeOK == SenderTypeOK
           Rest == OneAtATime /\ EndsWithTheLast
<1>1. CASE Timeout
  <2>1. wire' = wire /\ NumberedInOrder'
    BY <1>1 DEF Timeout, NumberedInOrder
  <2>2. TypeOK'
    BY <1>1, <2>1 DEF Timeout, SenderTypeOK, OneAtATime
  <2>3. Rest'
    BY <1>1, <2>1 DEF Timeout, SenderTypeOK, OneAtATime, EndsWithTheLast, SenderDone
  <2>4. QED
    BY <2>1, <2>2, <2>3
<1>2. CASE KernelSends
  <2>1. /\ sending = "pending" /\ timer = "idle" /\ message = Len(wire)
        /\ UNCHANGED <<count, message, timer>>
    BY <1>2 DEF KernelSends, SenderTypeOK, OneAtATime
  <2>2. CASE sending' = "sent" /\ wire' = Append(wire, message)
    <3>1. NumberedInOrder' /\ wire' \in Seq(Nat) /\ Len(wire') = Len(wire) + 1
      BY <2>1, <2>2, NumberedOneMore DEF SenderTypeOK, NumberedInOrder
    <3>2. QED
      BY <2>1, <2>2, <3>1 DEF SenderTypeOK, OneAtATime, EndsWithTheLast, SenderDone
  <2>3. CASE sending' = "failed" /\ wire' = wire
    BY <2>1, <2>3 DEF SenderTypeOK, OneAtATime, EndsWithTheLast, SenderDone,
      NumberedInOrder
  <2>4. QED
    BY <1>2, <2>2, <2>3 DEF KernelSends
<1>3. CASE SendHandler
  <2>1. /\ wire' = wire /\ count' = count /\ message' = message /\ sending' = "none"
        /\ timer = "idle"
        /\ NumberedInOrder'
    BY <1>3 DEF SendHandler, SenderTypeOK, OneAtATime, NumberedInOrder
  <2>2. CASE sending = "sent" /\ count < MaxMessages
    BY <1>3, <2>1, <2>2 DEF SendHandler, SenderTypeOK, OneAtATime, EndsWithTheLast,
      SenderDone
  <2>3. CASE ~ (sending = "sent" /\ count < MaxMessages)
    BY <1>3, <2>1, <2>3 DEF SendHandler, SenderTypeOK, OneAtATime, EndsWithTheLast,
      SenderDone
  <2>4. QED
    BY <2>2, <2>3
<1>4. CASE UNCHANGED senderVars
  BY <1>4 DEF senderVars, SenderTypeOK, OneAtATime, EndsWithTheLast, SenderDone,
    NumberedInOrder
<1>5. QED
  <2>1. ASSUME NEW r \in Receiver, \/ Join(r) \/ Receive(r) \/ ReceiveError(r)
                                   \/ \E n \in Range(wire) : Arrive(r, n)
        PROVE  UNCHANGED senderVars
    BY <2>1 DEF Join, Receive, ReceiveError, Arrive
  <2>2. UNCHANGED multicastVars => UNCHANGED senderVars
    BY DEF multicastVars
  <2>3. QED
    BY <1>1, <1>2, <1>3, <1>4, <2>1, <2>2 DEF MulticastNext, Sender

(* The group is sent messages 0, 1, 2, ... without a gap or a repetition:   *)
(* nothing overwrites _message while the kernel has still to take it,       *)
(* for any number of messages and receivers.                                *)
THEOREM DatagramsInOrder == MulticastSpec => []NumberedInOrder
<1>1. SenderInv => NumberedInOrder
  BY DEF SenderInv
<1>2. QED
  BY SenderInit, SenderStep, <1>1, PTL DEF MulticastSpec

(* A sender that is out of work has sent max_message_count messages, or its *)
(* last send failed: do_timeout is never forgotten, and never called once   *)
(* too often.                                                               *)
THEOREM AllOrStopped == MulticastSpec => []EndsWithTheLast
<1>1. SenderInv => EndsWithTheLast
  BY DEF SenderInv
<1>2. QED
  BY SenderInit, SenderStep, <1>1, PTL DEF MulticastSpec
-----------------------------------------------------------------------------
(* The receivers of the multicast group.                                    *)

(* What is in the output and in the receive buffer was sent, however the    *)
(* network repeats and reorders it: the sender only adds to its datagrams.  *)
LEMMA WireGrows ==
  ASSUME SenderInv, Sender
  PROVE  Len(wire) \in Nat /\ Len(wire') \in Nat /\ Len(wire) <= Len(wire')
<1>1. wire \in Seq(Nat) /\ message \in Nat
  BY DEF SenderInv, SenderTypeOK
<1>2. CASE wire' = wire
  BY <1>1, <1>2
<1>3. CASE wire' = Append(wire, message)
  BY <1>1, <1>3
<1>4. QED
  BY <1>2, <1>3 DEF Sender, Timeout, KernelSends, SendHandler

(* A datagram moves from the network to the buffer, and on to the output. *)
LEMMA OneMoreIn ==
  ASSUME NEW n \in Nat, NEW p \in Nat, NEW b \in Nat, n = p + b
  PROVE  n + 1 = p + (b + 1) /\ n = (p + 1) + (b - 1)
OBVIOUS

LEMMA NoneOver ==
  ASSUME NEW n \in Nat, NEW p \in Nat, NEW b \in Nat, n = p + b
  PROVE  (n = 0 => p = n) /\ (b = 0 => p = n)
OBVIOUS

(* A bound of the elements may grow. *)
LEMMA BoundGrows ==
  ASSUME NEW s \in Seq(Nat), NEW l \in Nat, NEW m \in Nat, l <= m,
         \A k \in 1 .. Len(s) : s[k] < l
  PROVE  \A k \in 1 .. Len(s) : s[k] < m
<1>1. \A k \in 1 .. Len(s) : s[k] \in Nat
  OBVIOUS
<1>2. ASSUME NEW k \in 1 .. Len(s)
      PROVE  s[k] < m
  <2>1. s[k] \in Nat /\ s[k] < l
    BY <1>1
  <2>2. QED
    BY <2>1
<1>3. QED
  BY <1>2

(* Datagrams added at the end were sent, if all are. *)
LEMMA AppendBounded ==
  ASSUME NEW s \in Seq(Nat), NEW n \in Nat, NEW b \in Nat, n < b,
         \A k \in 1 .. Len(s) : s[k] < b
  PROVE  /\ Append(s, n) \in Seq(Nat)
         /\ Len(Append(s, n)) = Len(s) + 1
         /\ \A k \in 1 .. Len(Append(s, n)) : Append(s, n)[k] < b
<1>1. Append(s, n) \in Seq(Nat) /\ Len(Append(s, n)) = Len(s) + 1
  OBVIOUS
<1>2. ASSUME NEW k \in 1 .. Len(s) + 1
      PROVE  Append(s, n)[k] < b
  <2>1. CASE k = Len(s) + 1
    BY <2>1
  <2>2. CASE k # Len(s) + 1
    <3>1. k \in 1 .. Len(s) /\ Append(s, n)[k] = s[k]
      BY <1>2, <2>2
    <3>2. QED
      BY <3>1
  <2>3. QED
    BY <2>1, <2>2
<1>3. QED
  BY <1>1, <1>2

(* Those that are left when the first is taken were sent too. *)
LEMMA TailBounded ==
  ASSUME NEW s \in Seq(Nat), s # << >>, NEW b \in Nat,
         \A k \in 1 .. Len(s) : s[k] < b
  PROVE  /\ Head(s) \in Nat /\ Head(s) < b
         /\ Tail(s) \in Seq(Nat)
         /\ Len(Tail(s)) = Len(s) - 1
         /\ \A k \in 1 .. Len(Tail(s)) : Tail(s)[k] < b
<1>1. Len(s) \in Nat /\ Len(s) >= 1
  OBVIOUS
<1>2. Head(s) = s[1] /\ 1 \in 1 .. Len(s) /\ s[1] \in Nat
  BY <1>1
<1>3. Tail(s) \in Seq(Nat) /\ Len(Tail(s)) = Len(s) - 1
  OBVIOUS
<1>4. ASSUME NEW k \in 1 .. Len(s) - 1
      PROVE  Tail(s)[k] < b
  <2>1. k + 1 \in 1 .. Len(s) /\ Tail(s)[k] = s[k + 1]
    BY <1>1, <1>4
  <2>2. QED
    BY <2>1
<1>5. QED
  BY <1>2, <1>3, <1>4

LEMMA ArrivalsInit == ASSUME MulticastInit PROVE AllArrivals
<1>1. << >> \in Seq(Nat) /\ Len(<< >>) = 0
  OBVIOUS
<1>2. /\ receiver = [r \in Receiver |-> "absent"]
      /\ buffer = [r \in Receiver |-> << >>]
      /\ arrived = [r \in Receiver |-> 0]
      /\ printed = [r \in Receiver |-> << >>]
  BY DEF MulticastInit
<1>3. QED
  BY <1>1, <1>2 DEF AllArrivals

(* A datagram that arrives waits in the buffer until its receiver prints it.*)
LEMMA ArrivalsStep ==
  ASSUME SenderInv, AllArrivals, [MulticastNext]_multicastVars
  PROVE  AllArrivals'
<1> DEFINE Mine(n, b, p, l) ==
             /\ n = Len(p) + Len(b)
             /\ \A k \in 1 .. Len(b) : b[k] < l
             /\ \A k \in 1 .. Len(p) : p[k] < l
<1>1. /\ receiver \in [Receiver -> {"absent", "open", "over"}]
      /\ arrived \in [Receiver -> Nat]
      /\ buffer \in [Receiver -> Seq(Nat)] /\ printed \in [Receiver -> Seq(Nat)]
  BY DEF AllArrivals
<1>2. /\ \A r \in Receiver : Mine(arrived[r], buffer[r], printed[r], Len(wire))
      /\ \A r \in Receiver : receiver[r] = "absent" => arrived[r] = 0
  BY DEF AllArrivals
<1>3. wire \in Seq(Nat) /\ Len(wire) \in Nat
  BY DEF SenderInv, SenderTypeOK
<1>4. CASE Sender
  <2>1. UNCHANGED receiverVars
    BY <1>4 DEF Sender, Timeout, KernelSends, SendHandler
  <2>2. Len(wire') \in Nat /\ Len(wire) <= Len(wire')
    BY <1>4, WireGrows
  <2>3. ASSUME NEW r \in Receiver
        PROVE  Mine(arrived[r], buffer[r], printed[r], Len(wire'))
    <3>1. /\ buffer[r] \in Seq(Nat) /\ printed[r] \in Seq(Nat)
          /\ arrived[r] = Len(printed[r]) + Len(buffer[r])
          /\ \A k \in 1 .. Len(buffer[r]) : buffer[r][k] < Len(wire)
          /\ \A k \in 1 .. Len(printed[r]) : printed[r][k] < Len(wire)
      BY <1>1, <1>2
    <3>2. \A k \in 1 .. Len(buffer[r]) : buffer[r][k] < Len(wire')
      BY <1>3, <2>2, <3>1, BoundGrows
    <3>3. \A k \in 1 .. Len(printed[r]) : printed[r][k] < Len(wire')
      BY <1>3, <2>2, <3>1, BoundGrows
    <3>4. QED
      BY <3>1, <3>2, <3>3
  <2>4. QED
    BY <1>1, <1>2, <2>1, <2>3 DEF AllArrivals, receiverVars
<1>5. ASSUME NEW r \in Receiver, Join(r) \/ ReceiveError(r)
      PROVE  AllArrivals'
  <2>1. /\ UNCHANGED <<wire, buffer, arrived, printed>>
        /\ \E x \in {"open", "over"} : receiver' = [receiver EXCEPT ![r] = x]
    BY <1>5 DEF Join, ReceiveError, senderVars
  <2>2. /\ receiver' \in [Receiver -> {"absent", "open", "over"}]
        /\ \A q \in Receiver : receiver'[q] = "absent" => receiver[q] = "absent"
    BY <1>1, <2>1
  <2>3. QED
    BY <1>1, <1>2, <2>1, <2>2 DEF AllArrivals
<1>6. ASSUME NEW r \in Receiver, NEW n \in Range(wire), Arrive(r, n)
      PROVE  AllArrivals'
  <2>1. /\ UNCHANGED <<wire, receiver, printed>> /\ receiver[r] = "open"
        /\ buffer' = [buffer EXCEPT ![r] = Append(@, n)]
        /\ arrived' = [arrived EXCEPT ![r] = @ + 1]
    BY <1>6 DEF Arrive, senderVars
  <2>2. n \in Nat /\ n < Len(wire)
    <3>1. PICK i \in 1 .. Len(wire) : n = wire[i]
      BY <1>3, <1>6 DEF Range
    <3>2. wire[i] = i - 1
      BY <3>1 DEF SenderInv, NumberedInOrder
    <3>3. QED
      BY <1>3, <3>1, <3>2
  <2>3. /\ Append(buffer[r], n) \in Seq(Nat)
        /\ Len(Append(buffer[r], n)) = Len(buffer[r]) + 1
        /\ \A k \in 1 .. Len(Append(buffer[r], n)) : Append(buffer[r], n)[k] < Len(wire)
    BY <1>1, <1>2, <1>3, <2>2, AppendBounded
  <2>4. /\ buffer' \in [Receiver -> Seq(Nat)] /\ arrived' \in [Receiver -> Nat]
        /\ buffer'[r] = Append(buffer[r], n) /\ arrived'[r] = arrived[r] + 1
        /\ \A q \in Receiver \ {r} : buffer'[q] = buffer[q] /\ arrived'[q] = arrived[q]
    BY <1>1, <2>1, <2>3
  <2>5. Mine(arrived'[r], buffer'[r], printed[r], Len(wire))
    <3>1. arrived[r] + 1 = Len(printed[r]) + Len(buffer'[r])
      <4>1. /\ Len(printed[r]) \in Nat /\ Len(buffer[r]) \in Nat /\ arrived[r] \in Nat
            /\ arrived[r] = Len(printed[r]) + Len(buffer[r])
        BY <1>1, <1>2
      <4>2. arrived[r] + 1 = Len(printed[r]) + (Len(buffer[r]) + 1)
        BY <4>1, OneMoreIn
      <4>3. Len(buffer'[r]) = Len(buffer[r]) + 1
        BY <2>3, <2>4
      <4>4. QED
        BY <4>2, <4>3
    <3>2. QED
      BY <1>2, <2>3, <2>4, <3>1
  <2>6. QED
    <3>1. \A q \in Receiver : Mine(arrived'[q], buffer'[q], printed[q], Len(wire))
      BY <1>2, <2>4, <2>5
    <3>2. \A q \in Receiver : receiver[q] = "absent" => arrived'[q] = 0
      BY <1>2, <2>1, <2>4
    <3>3. QED
      BY <1>1, <2>1, <2>4, <3>1, <3>2 DEF AllArrivals
<1>7. ASSUME NEW r \in Receiver, Receive(r)
      PROVE  AllArrivals'
  <2>1. /\ UNCHANGED <<wire, receiver, arrived>> /\ buffer[r] # << >>
        /\ buffer' = [buffer EXCEPT ![r] = Tail(@)]
        /\ printed' = [printed EXCEPT ![r] = Append(@, Head(buffer[r]))]
    BY <1>7 DEF Receive, senderVars
  <2>2. /\ Head(buffer[r]) \in Nat /\ Head(buffer[r]) < Len(wire)
        /\ Tail(buffer[r]) \in Seq(Nat)
        /\ Len(Tail(buffer[r])) = Len(buffer[r]) - 1
        /\ \A k \in 1 .. Len(Tail(buffer[r])) : Tail(buffer[r])[k] < Len(wire)
    BY <1>1, <1>2, <1>3, <2>1, TailBounded
  <2> DEFINE p == Append(printed[r], Head(buffer[r]))
  <2>3. /\ p \in Seq(Nat) /\ Len(p) = Len(printed[r]) + 1
        /\ \A k \in 1 .. Len(p) : p[k] < Len(wire)
    BY <1>1, <1>2, <1>3, <2>2, AppendBounded
  <2>4. /\ buffer' \in [Receiver -> Seq(Nat)] /\ printed' \in [Receiver -> Seq(Nat)]
        /\ buffer'[r] = Tail(buffer[r]) /\ printed'[r] = p
        /\ \A q \in Receiver \ {r} : buffer'[q] = buffer[q] /\ printed'[q] = printed[q]
    BY <1>1, <2>1, <2>2, <2>3
  <2> HIDE DEF p
  <2>5. Mine(arrived[r], buffer'[r], printed'[r], Len(wire))
    <3>1. arrived[r] = Len(printed'[r]) + Len(buffer'[r])
      <4>1. /\ Len(printed[r]) \in Nat /\ Len(buffer[r]) \in Nat /\ arrived[r] \in Nat
            /\ arrived[r] = Len(printed[r]) + Len(buffer[r])
        BY <1>1, <1>2
      <4>2. arrived[r] = (Len(printed[r]) + 1) + (Len(buffer[r]) - 1)
        BY <4>1, OneMoreIn
      <4>3. Len(buffer'[r]) = Len(buffer[r]) - 1 /\ Len(printed'[r]) = Len(printed[r]) + 1
        BY <2>2, <2>3, <2>4
      <4>4. QED
        BY <4>2, <4>3
    <3>2. QED
      BY <2>2, <2>3, <2>4, <3>1
  <2>6. QED
    <3>1. \A q \in Receiver : Mine(arrived[q], buffer'[q], printed'[q], Len(wire))
      BY <1>2, <2>4, <2>5
    <3>2. QED
      BY <1>1, <1>2, <2>1, <2>4, <3>1 DEF AllArrivals
<1>8. CASE UNCHANGED multicastVars
  BY <1>1, <1>2, <1>8 DEF AllArrivals, multicastVars, senderVars, receiverVars
<1>9. QED
  BY <1>4, <1>5, <1>6, <1>7, <1>8 DEF MulticastNext

(* A receiver with no handler to run has printed everything that reached    *)
(* its socket, unless an error ended its loop: the receive is issued anew   *)
(* after every datagram.                                                    *)
THEOREM EverythingPrintedAtRest == MulticastSpec => []RestsWhenPrinted
<1>1. ASSUME AllArrivals PROVE RestsWhenPrinted
  <2>1. SUFFICES ASSUME ReceiversRest, NEW r \in Receiver, receiver[r] # "over"
                 PROVE  Len(printed[r]) = arrived[r]
    BY DEF RestsWhenPrinted
  <2>2. /\ printed[r] \in Seq(Nat) /\ buffer[r] \in Seq(Nat)
        /\ arrived[r] = Len(printed[r]) + Len(buffer[r])
        /\ receiver[r] \in {"absent", "open", "over"} /\ arrived[r] \in Nat
    BY <1>1 DEF AllArrivals
  <2>3. /\ arrived[r] = 0 => Len(printed[r]) = arrived[r]
        /\ Len(buffer[r]) = 0 => Len(printed[r]) = arrived[r]
    <3>1. Len(printed[r]) \in Nat /\ Len(buffer[r]) \in Nat
      BY <2>2
    <3>2. QED
      BY <2>2, <3>1, NoneOver
  <2>4. CASE receiver[r] = "open"
    <3>1. Len(buffer[r]) = 0
      BY <2>1, <2>4 DEF ReceiversRest
    <3>2. QED
      BY <2>3, <3>1
  <2>5. CASE receiver[r] = "absent"
    <3>1. arrived[r] = 0
      BY <1>1, <2>5 DEF AllArrivals
    <3>2. QED
      BY <2>3, <3>1
  <2>6. QED
    BY <2>1, <2>2, <2>4, <2>5
<1>2. QED
  BY SenderInit, SenderStep, ArrivalsInit, ArrivalsStep, <1>1, PTL DEF MulticastSpec

(* However the network loses, repeats and reorders the datagrams, and       *)
(* although the sender reuses one buffer for all of them, a receiver prints *)
(* only messages that were sent.                                            *)
THEOREM NothingInvented == MulticastSpec => []PrintsWhatWasSent
<1>1. ASSUME SenderInv, AllArrivals PROVE PrintsWhatWasSent
  <2>1. SUFFICES ASSUME NEW r \in Receiver, NEW k \in 1 .. Len(printed[r])
                 PROVE  printed[r][k] \in 0 .. Len(wire) - 1
    BY DEF PrintsWhatWasSent
  <2>2. printed[r] \in Seq(Nat) /\ printed[r][k] < Len(wire)
    BY <1>1 DEF AllArrivals
  <2>3. printed[r][k] \in Nat /\ Len(wire) \in Nat
    BY <1>1, <2>2 DEF SenderInv, SenderTypeOK
  <2>4. QED
    BY <2>2, <2>3
<1>2. QED
  BY SenderInit, SenderStep, ArrivalsInit, ArrivalsStep, <1>1, PTL DEF MulticastSpec

=============================================================================
