------------------------------ MODULE ChatProofs ------------------------------
(***************************************************************************)
(* Proofs about the wire format; about the chat server, for any number of  *)
(* connections, messages, history length and bound on the frames; and      *)
(* about the chat system, the server with one of its clients.  Each part   *)
(* uses only what its module assumes of its constants (MessageAssumption,  *)
(* ServerAssumption, SystemAssumption).                                    *)
(***************************************************************************)
EXTENDS ChatMessage, ChatSystem, SequenceTheorems, TLAPS

-----------------------------------------------------------------------------
(* The wire format *)

(* The digits are ten different characters. *)
LEMMA DigitsDiffer ==
  ASSUME NEW d \in 0 .. 9
  PROVE  /\ IsDigit(Digits[d + 1])
         /\ ValueOf(Digits[d + 1]) = d
         /\ Digits[d + 1] \notin {Blank, Plus, Minus}
<1> DEFINE D == Digits
<1>1. \A e \in 0 .. 9 : D[d + 1] = D[e + 1] => d = e
  BY DEF Digits
<1>2. D[d + 1] \notin {Blank, Plus, Minus}
  BY DEF Digits, Blank, Plus, Minus
<1>3. IsDigit(D[d + 1])
  BY DEF IsDigit
<1>4. ValueOf(D[d + 1]) \in 0 .. 9 /\ D[d + 1] = D[ValueOf(D[d + 1]) + 1]
  BY <1>3, Zenon DEF IsDigit, ValueOf
<1>5. QED
  BY <1>1, <1>2, <1>3, <1>4

(* A step of atoi, whatever the character. *)
LEMMA StepType ==
  ASSUME NEW a \in [at : {"lead", "number", "stop"}, negative : BOOLEAN, value : Nat], NEW c
  PROVE  AtoiStep(a, c) \in [at : {"lead", "number", "stop"}, negative : BOOLEAN, value : Nat]
<1> DEFINE T == [at : {"lead", "number", "stop"}, negative : BOOLEAN, value : Nat]
<1>1. CASE IsDigit(c)
  <2>1. ValueOf(c) \in 0 .. 9
    BY <1>1 DEF IsDigit, ValueOf
  <2>2. 10 * a.value + ValueOf(c) \in Nat
    BY <2>1
  <2> DEFINE v == 10 * a.value + ValueOf(c)
  <2> HIDE DEF v
  <2>3. AtoiStep(a, c) \in
          {a, [at |-> "number", negative |-> (c = Minus), value |-> a.value],
           [at |-> "number", negative |-> a.negative, value |-> v],
           [at |-> "stop", negative |-> a.negative, value |-> a.value]}
    BY DEF AtoiStep, v
  <2>4. v \in Nat
    BY <2>2 DEF v
  <2>5. a.at \in {"lead", "number", "stop"} /\ a.negative \in BOOLEAN /\ a.value \in Nat
    OBVIOUS
  <2>6. (c = Minus) \in BOOLEAN
    OBVIOUS
  <2>7. /\ [at |-> "number", negative |-> (c = Minus), value |-> a.value] \in T
        /\ [at |-> "number", negative |-> a.negative, value |-> v] \in T
        /\ [at |-> "stop", negative |-> a.negative, value |-> a.value] \in T
    BY <2>4, <2>5, <2>6, Zenon
  <2>8. QED
    BY <2>3, <2>7, Zenon
<1>2. CASE ~ IsDigit(c)
  BY <1>2 DEF AtoiStep
<1>3. QED
  BY <1>1, <1>2

(* Whatever the peer sends, atoi returns some int: no character sequence    *)
(* makes the scan leave its states.                                         *)
LEMMA AtoiType == ASSUME NEW h PROVE Atoi(h) \in Int
<1> DEFINE T == [at : {"lead", "number", "stop"}, negative : BOOLEAN, value : Nat]
           a1 == AtoiStep(AtoiStart, h[1])
           a2 == AtoiStep(a1, h[2])
           a3 == AtoiStep(a2, h[3])
           a4 == AtoiStep(a3, h[4])
<1>1. AtoiStart \in T
  BY DEF AtoiStart
<1>2. a1 \in T
  BY <1>1, StepType
<1> HIDE DEF a1
<1>3. a2 \in T
  BY <1>2, StepType
<1> HIDE DEF a2
<1>4. a3 \in T
  BY <1>3, StepType
<1> HIDE DEF a3
<1>5. a4 \in T
  BY <1>4, StepType
<1> HIDE DEF a4
<1>6. Atoi(h) = IF a4.negative THEN -a4.value ELSE a4.value
  BY DEF Atoi, a1, a2, a3, a4
<1>7. QED
  BY <1>5, <1>6

(* Leading blanks are skipped. *)
LEMMA StepBlank == AtoiStep(AtoiStart, Blank) = AtoiStart
<1>1. AtoiStart.at = "lead"
  BY DEF AtoiStart
<1>2. Blank \notin {Plus, Minus}
  BY DEF Blank, Plus, Minus
<1>3. ~ IsDigit(Blank)
  BY DigitsDiffer DEF IsDigit
<1>4. QED
  BY <1>1, <1>2, <1>3 DEF AtoiStep

Digit(d) == Digits[d + 1]
Number(v) == [at |-> "number", negative |-> FALSE, value |-> v]

(* A digit starts the number, or extends it. *)
LEMMA StepDigit ==
  ASSUME NEW d \in 0 .. 9
  PROVE  /\ AtoiStep(AtoiStart, Digit(d)) = Number(d)
         /\ \A v \in Nat : AtoiStep(Number(v), Digit(d)) = Number(10 * v + d)
<1> DEFINE c == Digit(d)
<1>1. IsDigit(c) /\ ValueOf(c) = d
      /\ c # Blank /\ c \notin {Plus, Minus}
  BY DigitsDiffer DEF Digit
<1> HIDE DEF c
<1>2. AtoiStep(AtoiStart, c) = Number(d)
  <2>1. /\ AtoiStart.at = "lead" /\ AtoiStart.negative = FALSE
        /\ 10 * AtoiStart.value + d = d
    BY DEF AtoiStart
  <2>2. QED
    BY <1>1, <2>1 DEF AtoiStep, Number
<1>3. ASSUME NEW v \in Nat PROVE AtoiStep(Number(v), c) = Number(10 * v + d)
  <2>1. Number(v).at = "number" /\ Number(v).negative = FALSE /\ Number(v).value = v
    BY DEF Number
  <2>2. QED
    BY <1>1, <2>1 DEF AtoiStep, Number
<1>4. QED
  BY <1>2, <1>3 DEF c

(* The state of atoi after the places that say v: blanks if v is 0. *)
Scan(v) == IF v = 0 THEN AtoiStart ELSE Number(v)

(* The next digit, after blanks and digits. *)
LEMMA StepScan ==
  ASSUME NEW v \in Nat, NEW d \in 0 .. 9
  PROVE  AtoiStep(Scan(v), Digit(d)) = Number(10 * v + d)
<1>1. CASE v = 0
  <2>1. 10 * v + d = d
    BY <1>1
  <2>2. QED
    BY <1>1, <2>1, StepDigit DEF Scan
<1>2. CASE v # 0
  BY <1>2, StepDigit DEF Scan
<1>3. QED
  BY <1>1, <1>2

(* The next place, a blank or a digit, after blanks and digits. *)
LEMMA StepPlace ==
  ASSUME NEW v \in Nat, NEW d \in 0 .. 9, NEW w, w = 10 * v + d
  PROVE  AtoiStep(Scan(v), IF w = 0 THEN Blank ELSE Digit(d)) = Scan(w)
<1>1. CASE w = 0
  <2>1. v = 0
    BY <1>1
  <2>2. QED
    BY <1>1, <2>1, StepBlank DEF Scan
<1>2. CASE w # 0
  <2>1. AtoiStep(Scan(v), Digit(d)) = Number(w)
    BY StepScan
  <2>2. QED
    BY <1>2, <2>1 DEF Scan
<1>3. QED
  BY <1>1, <1>2

(* The digits of a number are what the divisions by 10 leave. *)
LEMMA DivideByTen ==
  ASSUME NEW m \in Nat, NEW q \in Nat, 10 * q <= m, m < 10 * q + 10
  PROVE  m = 10 * q + (m % 10)
OBVIOUS

(* The quotients that sprintf takes the digits from. *)
LEMMA Places ==
  ASSUME NEW n \in Nat, n < 10000
  PROVE  /\ n = 10 * (n \div 10) + (n % 10)
         /\ n \div 10 = 10 * (n \div 100) + ((n \div 10) % 10)
         /\ n \div 100 = 10 * (n \div 1000) + ((n \div 100) % 10)
         /\ n \div 1000 = (n \div 1000) % 10
<1>1. n = 10 * (n \div 10) + (n % 10)
  OBVIOUS
<1>2. n \div 10 = 10 * (n \div 100) + ((n \div 10) % 10)
  <2>1. /\ n \div 10 \in Nat /\ n \div 100 \in Nat
        /\ 10 * (n \div 100) <= n \div 10 /\ n \div 10 < 10 * (n \div 100) + 10
    OBVIOUS
  <2>2. QED
    BY <2>1, DivideByTen
<1>3. n \div 100 = 10 * (n \div 1000) + ((n \div 100) % 10)
  <2>1. /\ n \div 100 \in Nat /\ n \div 1000 \in Nat
        /\ 10 * (n \div 1000) <= n \div 100 /\ n \div 100 < 10 * (n \div 1000) + 10
    OBVIOUS
  <2>2. QED
    BY <2>1, DivideByTen
<1>4. n \div 1000 = (n \div 1000) % 10
  <2>1. n \div 1000 \in Nat /\ n \div 1000 < 10
    OBVIOUS
  <2>2. QED
    BY <2>1
<1>5. QED
  BY <1>1, <1>2, <1>3, <1>4

(* What sprintf("%4d") writes, atoi reads: a length of at most four digits  *)
(* survives the header.                                                     *)
LEMMA RoundTrip ==
  \A n \in Nat : n < 10000 => Atoi(Format(n)) = n
<1>0. SUFFICES ASSUME NEW n \in Nat, n < 10000
               PROVE  Atoi(Format(n)) = n
  OBVIOUS
<1> DEFINE h == Format(n)
           q1 == n \div 1000
           q2 == n \div 100
           q3 == n \div 10
<1>1. /\ q1 \in Nat /\ q2 \in Nat /\ q3 \in Nat
      /\ n < 1000 <=> q1 = 0
      /\ n < 100 <=> q2 = 0
      /\ n < 10 <=> q3 = 0
  OBVIOUS
<1>2. /\ q1 % 10 \in 0 .. 9 /\ q2 % 10 \in 0 .. 9 /\ q3 % 10 \in 0 .. 9 /\ n % 10 \in 0 .. 9
  BY <1>1
<1>3. /\ q1 = 10 * 0 + (q1 % 10) /\ q2 = 10 * q1 + (q2 % 10)
      /\ q3 = 10 * q2 + (q3 % 10) /\ n = 10 * q3 + (n % 10)
  BY <1>0, <1>2, Places
<1>4. /\ h[1] = IF q1 = 0 THEN Blank ELSE Digit(q1 % 10)
      /\ h[2] = IF q2 = 0 THEN Blank ELSE Digit(q2 % 10)
      /\ h[3] = IF q3 = 0 THEN Blank ELSE Digit(q3 % 10)
      /\ h[4] = Digit(n % 10)
  <2>1. \A i \in 1 .. 4 :
          h[i] = IF n < Unit[i] /\ i < 4 THEN Blank
                 ELSE Digits[((n \div Unit[i]) % 10) + 1]
    BY DEF Format, HeaderLength
  <2>2. /\ Unit[1] = 1000 /\ Unit[2] = 100
        /\ Unit[3] = 10 /\ Unit[4] = 1
    BY DEF Unit
  <2>3. n \div 1 = n
    OBVIOUS
  <2> HIDE DEF h
  <2>4. h[1] = IF n < 1000 THEN Blank ELSE Digit(q1 % 10)
    BY <2>1, <2>2 DEF Digit
  <2>5. h[2] = IF n < 100 THEN Blank ELSE Digit(q2 % 10)
    BY <2>1, <2>2 DEF Digit
  <2>6. h[3] = IF n < 10 THEN Blank ELSE Digit(q3 % 10)
    BY <2>1, <2>2 DEF Digit
  <2>7. h[4] = Digit(n % 10)
    BY <2>1, <2>2, <2>3 DEF Digit
  <2>8. QED
    BY <1>1, <2>4, <2>5, <2>6, <2>7
<1>5. Atoi(h) =
        LET a == AtoiStep(AtoiStep(AtoiStep(
                   AtoiStep(AtoiStart, h[1]), h[2]), h[3]), h[4])
        IN  IF a.negative THEN -a.value ELSE a.value
  BY DEF Atoi
<1> DEFINE r1 == q1 % 10
           r2 == q2 % 10
           r3 == q3 % 10
           r4 == n % 10
<1>6. q1 \in Nat /\ q2 \in Nat /\ q3 \in Nat
  BY <1>1
<1>7. /\ r1 \in 0 .. 9 /\ r2 \in 0 .. 9 /\ r3 \in 0 .. 9 /\ r4 \in 0 .. 9
  BY <1>2
<1>8. q1 = 10 * 0 + r1 /\ q2 = 10 * q1 + r2 /\ q3 = 10 * q2 + r3 /\ n = 10 * q3 + r4
  BY <1>3
<1>9. /\ h[1] = IF q1 = 0 THEN Blank ELSE Digit(r1)
      /\ h[2] = IF q2 = 0 THEN Blank ELSE Digit(r2)
      /\ h[3] = IF q3 = 0 THEN Blank ELSE Digit(r3)
      /\ h[4] = Digit(r4)
  BY <1>4
<1> HIDE DEF h, q1, q2, q3, r1, r2, r3, r4
<1>10. AtoiStep(Scan(0), h[1]) = Scan(q1)
  <2>1. AtoiStep(Scan(0), IF q1 = 0 THEN Blank ELSE Digit(r1)) = Scan(q1)
    BY <1>7, <1>8, StepPlace
  <2>2. QED
    BY <1>9, <2>1
<1>11. AtoiStep(Scan(q1), h[2]) = Scan(q2)
  <2>1. AtoiStep(Scan(q1), IF q2 = 0 THEN Blank ELSE Digit(r2)) = Scan(q2)
    BY <1>6, <1>7, <1>8, StepPlace
  <2>2. QED
    BY <1>9, <2>1
<1>12. AtoiStep(Scan(q2), h[3]) = Scan(q3)
  <2>1. AtoiStep(Scan(q2), IF q3 = 0 THEN Blank ELSE Digit(r3)) = Scan(q3)
    BY <1>6, <1>7, <1>8, StepPlace
  <2>2. QED
    BY <1>9, <2>1
<1>13. AtoiStep(Scan(q3), h[4]) = Number(n)
  <2>1. AtoiStep(Scan(q3), Digit(r4)) = Number(10 * q3 + r4)
    BY <1>6, <1>7, StepScan
  <2>2. QED
    BY <1>8, <1>9, <2>1
<1>14. Scan(0) = AtoiStart
  BY DEF Scan
<1>15. Atoi(h) = IF Number(n).negative THEN -Number(n).value ELSE Number(n).value
  BY <1>5, <1>10, <1>11, <1>12, <1>13, <1>14
<1>16. QED
  BY <1>15 DEF Number, h

(* Both properties of the wire format hold together: a decoded length is    *)
(* checked before it is kept, and an encoded one has at most four digits,   *)
(* which is what MessageAssumption says of max_body_length.                 *)
Framed == BodyFits /\ FramingAgrees

(* The std::size_t a length becomes; one that fits is not changed. *)
LEMMA SizeType ==
  ASSUME NEW n \in Int, SizeModulus \in Nat, SizeModulus > 0
  PROVE  ToSizeT(n) \in Nat /\ (n \in 0 .. SizeModulus - 1 => ToSizeT(n) = n)
BY DEF ToSizeT

(* No operation of chat_message breaks them. *)
LEMMA FramedStep ==
  ASSUME Framed, [MessageNext]_messageVars
  PROVE  Framed'
<1> USE DEF BodyFits
<1>0. bodyLength \in 0 .. MaxBodyLength /\ SizeModulus > 0
      /\ MaxBodyLength \in Nat /\ SizeModulus \in Nat /\ MaxBodyLength < SizeModulus
  BY MessageAssumption DEF Framed
<1>1. ASSUME NEW n \in 0 .. MaxBodyLength, SetBodyLength(n) PROVE Framed'
  BY <1>0, <1>1 DEF SetBodyLength, Framed, FramingAgrees
<1>2. CASE EncodeHeader
  <2>1. bodyLength' = bodyLength /\ header' = Format(bodyLength)
    BY <1>2 DEF EncodeHeader
  <2>2. Atoi(header') = bodyLength
    <3>1. bodyLength \in Nat /\ bodyLength < 10000
      BY <1>0, MessageAssumption
    <3>2. QED
      BY <2>1, <3>1, RoundTrip
  <2>3. ToSizeT(bodyLength) = bodyLength
    BY <1>0, SizeType
  <2>4. DecodedLength(header)' = bodyLength'
    BY <2>1, <2>2, <2>3 DEF DecodedLength, Atoi, ToSizeT
  <2>5. QED
    BY <1>0, <2>1, <2>4 DEF Framed, FramingAgrees
<1>3. ASSUME NEW h \in Header, ReadHeader(h) PROVE Framed'
  BY <1>0, <1>3 DEF ReadHeader, Framed, FramingAgrees
<1>4. CASE DecodeHeader
  <2>1. DecodedLength(header) \in Nat
    BY <1>0, AtoiType, SizeType DEF DecodedLength
  <2>2. header' = header /\ DecodedLength(header)' = DecodedLength(header)
    BY <1>4 DEF DecodeHeader, DecodedLength, Atoi, ToSizeT
  <2>3. \/ stage' = "rejected" /\ bodyLength' = 0
        \/ bodyLength' = DecodedLength(header) /\ bodyLength' <= MaxBodyLength
    BY <1>4 DEF DecodeHeader
  <2>4. QED
    BY <1>0, <2>1, <2>2, <2>3 DEF Framed, FramingAgrees
<1>5. CASE NewMessage
  BY <1>0, <1>5 DEF NewMessage, Framed, FramingAgrees
<1>6. CASE UNCHANGED messageVars
  <2>1. header' = header /\ bodyLength' = bodyLength /\ stage' = stage
    BY <1>6 DEF messageVars
  <2>2. DecodedLength(header)' = DecodedLength(header)
    BY <2>1 DEF DecodedLength, Atoi, ToSizeT
  <2>3. QED
    BY <1>0, <2>1, <2>2 DEF Framed, FramingAgrees
<1>7. QED
  BY <1>1, <1>2, <1>3, <1>4, <1>5, <1>6 DEF MessageNext

LEMMA FramedAlways == MessageSpec => []Framed
<1>1. MessageInit => Framed
  BY MessageAssumption DEF MessageInit, Framed, BodyFits, FramingAgrees
<1>2. QED
  BY <1>1, FramedStep, PTL DEF MessageSpec

(* Whatever characters a peer puts into a header - signs, blanks, letters,  *)
(* numbers above the limit - the body stays inside _data: for every         *)
(* max_body_length of at most four digits, and every width of std::size_t   *)
(* that can hold it.                                                        *)
THEOREM BodyStaysInside == MessageSpec => []BodyFits
<1>1. Framed => BodyFits
  BY DEF Framed
<1>2. QED
  BY <1>1, FramedAlways, PTL

(* A header that is sent by a client, or accepted and forwarded by the      *)
(* server, says how many characters follow it.                              *)
THEOREM FramingIsKept == MessageSpec => []FramingAgrees
<1>1. Framed => FramingAgrees
  BY DEF Framed
<1>2. QED
  BY <1>1, FramedAlways, PTL

-----------------------------------------------------------------------------
(* The chat server *)

(* Positions in the conversation: where a message is counted from.          *)
LEMMA OneMore == \A a, b \in Nat : a + b + 1 = a + (b + 1)
  OBVIOUS

LEMMA OneOn == \A a, b, c \in Nat : a + b + (c + 1) = a + (b + 1) + c
  OBVIOUS

LEMMA OneMoved == \A a, b, c \in Nat : a + (b + 1) + (c - 1) = a + b + c
  OBVIOUS

USE ServerAssumption DEF ServerAssumption

(* What the sequence operators do, in the form the steps below use.         *)
LEMMA AppendFacts ==
  ASSUME NEW S, NEW q \in Seq(S), NEW e \in S
  PROVE  /\ Append(q, e) \in Seq(S)
         /\ Len(Append(q, e)) = Len(q) + 1
         /\ Append(q, e) # << >>
         /\ \A i \in 1 .. Len(q) + 1 :
              Append(q, e)[i] = IF i = Len(q) + 1 THEN e ELSE q[i]
<1>1. Len(q) \in Nat
  BY LenProperties
<1>2. QED
  BY <1>1, AppendProperties

LEMMA TailFacts ==
  ASSUME NEW S, NEW q \in Seq(S), q # << >>
  PROVE  /\ Head(q) \in S
         /\ Head(q) = q[1]
         /\ Tail(q) \in Seq(S)
         /\ Len(q) \in Nat \ {0}
         /\ Len(Tail(q)) = Len(q) - 1
         /\ \A i \in 1 .. Len(q) - 1 : Tail(q)[i] = q[i + 1]
         /\ Tail(q) = << >> <=> Len(q) = 1
<1>1. Len(q) \in Nat \ {0} /\ Head(q) = q[1]
  BY EmptySeq
<1>2. /\ Head(q) \in S /\ Tail(q) \in Seq(S) /\ Len(Tail(q)) = Len(q) - 1
      /\ \A i \in 1 .. Len(Tail(q)) : Tail(q)[i] = q[i + 1]
  BY HeadTailProperties
<1>3. Tail(q) = << >> <=> Len(Tail(q)) = 0
  BY <1>2, EmptySeq
<1>4. QED
  BY <1>1, <1>2, <1>3

LEMMA EmptyFacts ==
  ASSUME NEW S, NEW q \in Seq(S)
  PROVE  /\ << >> \in Seq(S) /\ Len(<< >>) = 0
         /\ Len(q) \in Nat
         /\ q = << >> <=> Len(q) = 0
  BY EmptySeq, LenProperties

(* chat_room::deliver keeps _recent_msgs the end of the conversation. *)
LEMMA RememberFacts ==
  ASSUME TypeOK, HistoryIsTail, NEW m \in Msg, log' = Append(log, m)
  PROVE  /\ Remember(m) \in Seq(Msg)
         /\ Len(Remember(m)) = IF Len(log') < MaxRecent THEN Len(log') ELSE MaxRecent
         /\ \A i \in 1 .. Len(Remember(m)) :
              Remember(m)[i] = log'[Len(log') - Len(Remember(m)) + i]
<1> DEFINE q == Append(recent, m)
           k == Len(q) - MaxRecent + 1
<1>1. /\ recent \in Seq(Msg) /\ log \in Seq(Msg)
      /\ Len(recent) \in Nat /\ Len(log) \in Nat
  BY EmptyFacts DEF TypeOK
<1>2. /\ q \in Seq(Msg) /\ Len(q) = Len(recent) + 1
      /\ \A i \in 1 .. Len(q) : q[i] = IF i = Len(q) THEN m ELSE recent[i]
  BY <1>1, AppendFacts
<1>3. /\ Len(log') = Len(log) + 1
      /\ \A i \in 1 .. Len(log') : log'[i] = IF i = Len(log') THEN m ELSE log[i]
  BY <1>1, AppendFacts
<1>4. \A i \in 1 .. Len(q) : q[i] = log'[Len(log') - Len(q) + i]
  <2> HIDE DEF q
  <2>1. TAKE i \in 1 .. Len(q)
  <2>2. Len(recent) <= Len(log)
    BY <1>1 DEF HistoryIsTail
  <2>3. i \in 1 .. Len(recent) => recent[i] = log[Len(log) - Len(recent) + i]
    BY <1>1 DEF HistoryIsTail
  <2>4. i \in 1 .. Len(recent) => Len(log) - Len(recent) + i \in 1 .. Len(log)
    BY <1>1, <2>2
  <2>5. Len(log') - Len(q) + i = Len(log) - Len(recent) + i
    BY <1>1, <1>2, <1>3
  <2>6. CASE i = Len(q)
    BY <1>1, <1>2, <1>3, <2>2, <2>5, <2>6
  <2>7. CASE i \in 1 .. Len(recent)
    BY <1>1, <1>2, <1>3, <2>3, <2>4, <2>5, <2>7
  <2>8. i = Len(q) \/ i \in 1 .. Len(recent)
    BY <1>1, <1>2
  <2>9. QED
    BY <2>6, <2>7, <2>8
<1>5. CASE Len(q) > MaxRecent
  <2>1. Remember(m) = SubSeq(q, k, Len(q))
    BY <1>5 DEF Remember
  <2>2. k \in Int /\ Len(q) \in Int /\ k >= 1 /\ k <= Len(q)
    BY <1>1, <1>2, <1>5
  <2>3. \A i \in k .. Len(q) : q[i] \in Msg
    BY <1>2, <2>2, ElementOfSeq
  <2>4. /\ SubSeq(q, k, Len(q)) \in Seq(Msg)
        /\ Len(SubSeq(q, k, Len(q))) = MaxRecent
        /\ \A i \in 1 .. MaxRecent : SubSeq(q, k, Len(q))[i] = q[k + i - 1]
    <3> HIDE DEF q
    <3>1. /\ SubSeq(q, k, Len(q)) \in Seq(Msg)
          /\ Len(SubSeq(q, k, Len(q))) = IF k <= Len(q) THEN Len(q) - k + 1 ELSE 0
          /\ \A i \in 1 .. Len(q) - k + 1 : SubSeq(q, k, Len(q))[i] = q[k + i - 1]
      BY <2>2, <2>3, SubSeqProperties
    <3>2. QED
      BY <2>2, <3>1
  <2>5. \A i \in 1 .. MaxRecent : q[k + i - 1] = log'[Len(log') - MaxRecent + i]
    <3> HIDE DEF q
    <3>1. TAKE i \in 1 .. MaxRecent
    <3>2. k + i - 1 \in 1 .. Len(q)
      BY <2>2
    <3>3. q[k + i - 1] = log'[Len(log') - Len(q) + (k + i - 1)]
      BY <1>4, <3>2
    <3>4. Len(log') - Len(q) + (k + i - 1) = Len(log') - MaxRecent + i
      BY <1>1, <1>3, <2>2
    <3>5. QED
      BY <3>3, <3>4
  <2>6. Len(log') >= MaxRecent
    BY <1>1, <1>2, <1>3, <1>5 DEF HistoryIsTail
  <2>7. QED
    <3> HIDE DEF q, k
    <3>1. Len(log') \in Nat /\ MaxRecent \in Nat
      BY <1>1, <1>3
    <3>2. Len(Remember(m)) = MaxRecent
      BY <2>1, <2>4
    <3>3. Remember(m) \in Seq(Msg)
      BY <2>1, <2>4
    <3>4. ~ (Len(log') < MaxRecent)
      BY <2>6, <3>1
    <3>5. ASSUME NEW i \in 1 .. MaxRecent
          PROVE  Remember(m)[i] = log'[Len(log') - MaxRecent + i]
      BY <2>1, <2>4, <2>5
    <3>6. QED
      BY <3>2, <3>3, <3>4, <3>5
<1>6. CASE ~ (Len(q) > MaxRecent)
  <2>1. Remember(m) = q
    BY <1>6 DEF Remember
  <2>2. Len(q) = IF Len(log') < MaxRecent THEN Len(log') ELSE MaxRecent
    BY <1>1, <1>2, <1>3, <1>6 DEF HistoryIsTail
  <2>3. QED
    BY <1>2, <1>4, <2>1, <2>2
<1>7. QED
  BY <1>5, <1>6

-----------------------------------------------------------------------------
(* The inductive invariant. *)

(* A step that leaves the view of t as it was, or takes t out of the room.  *)
LEMMA ViewFrame ==
  ASSUME NEW t \in Session, ViewIsSegment(t),
         log' = log, base'[t] = base[t], wire'[t] = wire[t],
         writeMsgs'[t] = writeMsgs[t],
         writing'[t] = "done" <=> writing[t] = "done",
         t \in participants' => t \in participants
  PROVE  ViewIsSegment(t)'
  BY DEF ViewIsSegment, Upto, Popped

LEMMA InitInv == Init => IInv
<1> SUFFICES ASSUME Init PROVE IInv
  OBVIOUS
<1>1. /\ << >> \in Seq(Frame) /\ << >> \in Seq(Msg) /\ Len(<< >>) = 0
  BY EmptySeq
<1>2. TypeOK
  BY <1>1 DEF Init, TypeOK
<1>3. SessionShape /\ WriteLoop /\ WritesCounted
  BY DEF Init, SessionShape, ShapeOK, WriteLoop, WritesCounted
<1>4. HistoryIsTail
  BY <1>1 DEF Init, HistoryIsTail
<1>5. ASSUME NEW s \in Session PROVE ViewIsSegment(s)
  <2>1. /\ Len(log) = 0 /\ Len(wire[s]) = 0 /\ Len(writeMsgs[s]) = 0
        /\ base[s] = 0 /\ Popped(s) = 0
    BY <1>1 DEF Init, Popped
  <2>2. QED
    BY <2>1 DEF ViewIsSegment, Upto
<1>6. QED
  BY <1>2, <1>3, <1>4, <1>5 DEF IInv, ContiguousView

(* What each handler does to the count of outstanding writes: the state of  *)
(* the write loop still stands for all of them.                             *)
LEMMA CountStep ==
  ASSUME IInv, NEW s \in Session, Peer(s) \/ Server(s)
  PROVE  writes' \in [Session -> Nat] /\ WritesCounted'
<1>0. /\ writing \in [Session -> {"idle", "pending", "done", "failed"}]
      /\ writes = [t \in Session |-> IF writing[t] = "idle" THEN 0 ELSE 1]
  BY DEF IInv, TypeOK, WritesCounted
<1>1. SUFFICES writes' = [t \in Session |-> IF writing'[t] = "idle" THEN 0 ELSE 1]
  BY DEF WritesCounted
<1>2. CASE Peer(s) \/ AcceptFailed(s) \/ HeaderRead(s) \/ HeaderFailed(s) \/ BodyFailed(s)
  <2>1. writes' = writes /\ writing' = writing
    BY <1>2 DEF Peer, PeerConnect, PeerShutdown, PeerReset, PeerSend, AcceptFailed,
                HeaderRead, HeaderFailed, BodyFailed, writeVars
  <2>2. QED
    BY <1>0, <2>1
<1>3. CASE WireWrite(s) \/ WireError(s)
  <2>1. /\ writes' = writes /\ writing[s] = "pending"
        /\ \E w \in {"done", "failed"} : writing' = [writing EXCEPT ![s] = w]
    BY <1>3 DEF WireWrite, WireError
  <2>2. \A t \in Session : writing'[t] = "idle" <=> writing[t] = "idle"
    BY <1>0, <2>1
  <2>3. QED
    BY <1>0, <2>1, <2>2
<1>4. CASE Accept(s)
  <2>1. writing[s] = "idle"
    BY <1>4 DEF Accept, IInv, SessionShape, ShapeOK
  <2>2. QED
    BY <1>0, <1>4, <2>1 DEF Accept
<1>5. CASE Written(s)
  BY <1>0, <1>5 DEF Written
<1>6. CASE WriteFailed(s)
  BY <1>0, <1>6 DEF WriteFailed
<1>7. CASE BodyRead(s)
  <2>1. \A t \in Session : Starts(t) => writing[t] = "idle"
    BY DEF Starts, IInv, WriteLoop
  <2>2. /\ writing' = [t \in Session |-> IF Starts(t) THEN "pending" ELSE writing[t]]
        /\ writes' = [t \in Session |-> IF Starts(t) THEN writes[t] + 1 ELSE writes[t]]
    BY <1>7 DEF BodyRead, Deliver
  <2>3. QED
    BY <1>0, <2>1, <2>2
<1>8. QED
  BY <1>2, <1>3, <1>4, <1>5, <1>6, <1>7 DEF Server, ReadStep

(* The steps of the peers change none of the server's state. *)
LEMMA PeerInv ==
  ASSUME IInv, NEW s \in Session, Peer(s)
  PROVE  IInv'
<1>1. /\ UNCHANGED <<accepting, roomVars, reading, writeVars, base, wire>>
      /\ conn' \in [Session -> {"absent", "up", "half", "reset"}]
      /\ inbox' \in [Session -> Seq(Frame)]
      /\ frames' \in Nat
  <2>1. CASE PeerConnect(s) \/ PeerShutdown(s) \/ PeerReset(s)
    BY <2>1 DEF IInv, TypeOK, PeerConnect, PeerShutdown, PeerReset
  <2>2. CASE \E f \in Frame : PeerSend(s, f)
    <3>1. PICK f \in Frame : PeerSend(s, f)
      BY <2>2
    <3>2. Append(inbox[s], f) \in Seq(Frame)
      BY AppendFacts DEF IInv, TypeOK
    <3>3. QED
      BY <3>1, <3>2 DEF IInv, TypeOK, PeerSend
  <2>3. QED
    BY <2>1, <2>2 DEF Peer
<1>2. TypeOK'
  BY <1>1 DEF IInv, TypeOK, roomVars, writeVars
<1>3. SessionShape' /\ WriteLoop' /\ WritesCounted' /\ HistoryIsTail'
  BY <1>1 DEF IInv, SessionShape, ShapeOK, WriteLoop, WritesCounted, HistoryIsTail,
              roomVars, writeVars
<1>4. ContiguousView'
  BY <1>1 DEF IInv, ContiguousView, ViewIsSegment, Upto, Popped, roomVars, writeVars
<1>5. QED
  BY <1>2, <1>3, <1>4 DEF IInv

(* A newcomer is shown the recent messages: the end of the log. *)
LEMMA AcceptInv ==
  ASSUME IInv, NEW s \in Session, Accept(s)
  PROVE  IInv'
<1>0. writes' \in [Session -> Nat] /\ WritesCounted'
  BY CountStep DEF Server
<1> USE DEF Accept, peerVars
<1>1. /\ Len(recent) \in Nat /\ Len(log) \in Nat /\ Len(recent) <= Len(log)
      /\ recent = << >> <=> Len(recent) = 0
  <2>1. /\ Len(recent) \in Nat /\ Len(log) \in Nat
        /\ recent = << >> <=> Len(recent) = 0
    BY EmptyFacts DEF IInv, TypeOK
  <2>2. Len(recent) <= Len(log)
    BY <2>1 DEF IInv, HistoryIsTail
  <2>3. QED
    BY <2>1, <2>2
<1>2. TypeOK'
  BY <1>0, <1>1 DEF IInv, TypeOK
<1>3. SessionShape'
  BY DEF IInv, TypeOK, SessionShape, ShapeOK
<1>4. WriteLoop'
  BY DEF IInv, TypeOK, WriteLoop
<1>5. HistoryIsTail'
  BY DEF IInv, HistoryIsTail
<1>6. ASSUME NEW t \in Session PROVE ViewIsSegment(t)'
  <2>1. CASE t # s
    <3>1. /\ log' = log /\ base'[t] = base[t] /\ wire'[t] = wire[t]
          /\ writeMsgs'[t] = writeMsgs[t] /\ writing'[t] = writing[t]
          /\ t \in participants' => t \in participants
      BY <2>1 DEF IInv, TypeOK
    <3>2. QED
      BY <3>1, ViewFrame DEF IInv, ContiguousView
  <2>2. CASE t = s
    <3>1. /\ log' = log /\ base'[s] = Len(log) - Len(recent)
          /\ wire'[s] = << >> /\ writeMsgs'[s] = recent
          /\ writing'[s] # "done"
      BY DEF IInv, TypeOK, SessionShape, ShapeOK
    <3>2. Len(wire'[s]) = 0 /\ Popped(s)' = 0
      BY <3>1, EmptySeq DEF Popped
    <3>3. \A i \in 1 .. Len(recent) : recent[i] = log[Len(log) - Len(recent) + i]
      BY DEF IInv, HistoryIsTail
    <3>4. base'[s] + Popped(s)' = Len(log) - Len(recent)
      BY <1>1, <3>1, <3>2
    <3>5. /\ base'[s] + Popped(s)' + Len(writeMsgs'[s]) = Len(log')
          /\ \A i \in 1 .. Len(wire'[s]) : wire'[s][i] = log'[base'[s] + i]
      BY <1>1, <3>1, <3>2, <3>4
    <3>6. \A i \in 1 .. Len(writeMsgs'[s]) :
            writeMsgs'[s][i] = log'[base'[s] + Popped(s)' + i]
      BY <3>1, <3>3, <3>4
    <3>7. Len(log') \in Nat
      BY <1>1, <3>1
    <3>8. QED
      BY <2>2, <3>5, <3>6, <3>7 DEF ViewIsSegment, Upto
  <2>3. QED
    BY <2>1, <2>2
<1>7. QED
  BY <1>0, <1>2, <1>3, <1>4, <1>5, <1>6 DEF IInv, ContiguousView

(* Steps that at most take s out of the room and end a read or a write:     *)
(* nothing that s has been sent, or still has queued, changes.              *)
LEMMA LeaveInv ==
  ASSUME IInv, NEW s \in Session,
         \/ AcceptFailed(s) \/ HeaderRead(s) \/ HeaderFailed(s) \/ BodyFailed(s)
         \/ WireError(s) \/ WriteFailed(s)
  PROVE  IInv'
<1>0. writes' \in [Session -> Nat] /\ WritesCounted'
  BY CountStep DEF Server, ReadStep
<1> USE DEF AcceptFailed, HeaderRead, HeaderFailed, BodyFailed, WireError,
            WriteFailed, Leave, peerVars, roomVars, writeVars
<1>1. /\ UNCHANGED <<peerVars, recent, log, writeMsgs, base, wire>>
      /\ participants' \in {participants, participants \ {s}}
      /\ accepting' \in BOOLEAN
      /\ reading' \in [Session -> {"none", "header", "body", "over"}]
      /\ writing' \in [Session -> {"idle", "pending", "done", "failed"}]
  BY DEF IInv, TypeOK
<1>2. TypeOK'
  BY <1>0, <1>1 DEF IInv, TypeOK
<1>3. \A t \in Session :
        /\ reading'[t] = "none" => reading[t] = "none"
        /\ writing'[t] = "done" <=> writing[t] = "done"
        /\ writing'[t] # "idle" => writing[t] # "idle"
        /\ t \in participants' =>
             t \in participants /\ (writing'[t] = "idle" <=> writing[t] = "idle")
  BY DEF IInv, TypeOK
<1>4. SessionShape' /\ WriteLoop'
  <2>1. ASSUME NEW t \in Session PROVE ShapeOK(t)'
    BY <1>1, <1>3 DEF IInv, TypeOK, SessionShape, ShapeOK
  <2>2. ASSUME NEW t \in participants'
        PROVE  writing'[t] = "idle" <=> writeMsgs'[t] = << >>
    BY <1>1, <1>3 DEF IInv, TypeOK, WriteLoop
  <2>3. QED
    BY <2>1, <2>2 DEF SessionShape, WriteLoop
<1>5. HistoryIsTail'
  BY <1>1 DEF IInv, HistoryIsTail
<1>6. ContiguousView'
  BY <1>1, <1>3, ViewFrame DEF IInv, ContiguousView
<1>7. QED
  BY <1>0, <1>2, <1>4, <1>5, <1>6 DEF IInv

(* Positions in the part of the log that a queue or a wire stands for.      *)
LEMMA Offsets ==
  ASSUME NEW b \in Nat, NEW n \in Nat, NEW m \in Nat, b + n <= m
  PROVE  /\ \A i \in 1 .. n : i \in Nat /\ b + i \in Nat /\ b + i \in 1 .. m
         /\ \A i, j \in 1 .. n : i < j => b + i < b + j
OBVIOUS

\* A place of the log between two delivered ones was delivered between them.
LEMMA Between ==
  \A b, n \in Nat : \A i, j \in 1 .. n : \A k \in Nat : b + i < k /\ k < b + j =>
    k - b \in i .. j /\ k - b \in 1 .. n /\ b + (k - b) = k
OBVIOUS

(* The numbers that the view of a session is made of. *)
LEMMA ViewNumbers ==
  ASSUME IInv, NEW t \in Session
  PROVE  /\ base[t] \in Nat /\ Popped(t) \in Nat
         /\ Len(log) \in Nat /\ Len(wire[t]) \in Nat /\ Len(writeMsgs[t]) \in Nat
         /\ Len(wire[t]) <= Popped(t) + Len(writeMsgs[t])
         /\ writing[t] = "done" => Len(wire[t]) = Popped(t) + 1
         /\ writing[t] # "done" => Len(wire[t]) = Popped(t)
<1>1. /\ wire[t] \in Seq(Msg) /\ writeMsgs[t] \in Seq(Msg) /\ log \in Seq(Msg)
      /\ base[t] \in Nat
  BY DEF IInv, TypeOK
<1>2. Len(log) \in Nat /\ Len(wire[t]) \in Nat /\ Len(writeMsgs[t]) \in Nat
  BY <1>1, EmptyFacts
<1>3. writing[t] = "done" => Len(wire[t]) # 0 /\ Len(writeMsgs[t]) # 0
  BY <1>1, EmptyFacts DEF IInv, SessionShape, ShapeOK
<1>4. CASE writing[t] = "done"
  <2>1. Popped(t) = Len(wire[t]) - 1
    BY <1>4 DEF Popped
  <2>2. QED
    BY <1>1, <1>2, <1>3, <1>4, <2>1
<1>5. CASE writing[t] # "done"
  <2>1. Popped(t) = Len(wire[t])
    BY <1>5 DEF Popped
  <2>2. \A a, b \in Nat : a <= a + b
    OBVIOUS
  <2>3. Popped(t) \in Nat /\ Len(wire[t]) <= Popped(t) + Len(writeMsgs[t])
    BY <1>2, <2>1, <2>2, Zenon
  <2>4. QED
    BY <1>1, <1>2, <1>5, <2>1, <2>3
<1>6. QED
  BY <1>4, <1>5

(* A message is delivered to the room: the log grows by it, and so does the *)
(* queue of every participant.                                              *)
LEMMA BodyReadInv ==
  ASSUME IInv, NEW s \in Session, BodyRead(s)
  PROVE  IInv'
<1>0. writes' \in [Session -> Nat] /\ WritesCounted'
  BY CountStep DEF Server, ReadStep
<1> DEFINE m == Head(inbox[s])
<1> USE DEF BodyRead, Deliver, Starts
<1>1. /\ m \in Msg /\ inbox[s] \in Seq(Frame) /\ Tail(inbox[s]) \in Seq(Frame)
  BY TailFacts DEF IInv, TypeOK
<1>2. /\ log' = Append(log, m) /\ recent' = Remember(m)
      /\ participants' = participants /\ base' = base /\ wire' = wire
  OBVIOUS
<1>3. /\ Len(log) \in Nat /\ log' \in Seq(Msg) /\ Len(log') = Len(log) + 1
      /\ \A i \in 1 .. Len(log) + 1 : log'[i] = IF i = Len(log) + 1 THEN m ELSE log[i]
  <2> HIDE DEF m
  <2>1. log \in Seq(Msg)
    BY DEF IInv, TypeOK
  <2>2. Len(log) \in Nat
    BY <2>1, EmptyFacts
  <2>3. QED
    BY <1>1, <1>2, <2>1, <2>2, AppendFacts
<1>4. /\ recent' \in Seq(Msg)
      /\ HistoryIsTail'
  <2> HIDE DEF m
  <2>1. TypeOK /\ HistoryIsTail /\ m \in Msg /\ log' = Append(log, m)
    BY <1>1, <1>2 DEF IInv
  <2> HIDE DEF BodyRead, Deliver, Starts
  <2>2. /\ Remember(m) \in Seq(Msg)
        /\ Len(Remember(m)) = IF Len(log') < MaxRecent THEN Len(log') ELSE MaxRecent
        /\ \A i \in 1 .. Len(Remember(m)) :
             Remember(m)[i] = log'[Len(log') - Len(Remember(m)) + i]
    BY ONLY <2>1, RememberFacts
  <2>3. QED
    BY ONLY <1>2, <2>2 DEF HistoryIsTail
<1>5. ASSUME NEW t \in Session
      PROVE  /\ writeMsgs[t] \in Seq(Msg) /\ Len(writeMsgs[t]) \in Nat
             /\ Append(writeMsgs[t], m) \in Seq(Msg)
             /\ Append(writeMsgs[t], m) # << >>
             /\ Len(Append(writeMsgs[t], m)) = Len(writeMsgs[t]) + 1
             /\ \A i \in 1 .. Len(writeMsgs[t]) + 1 : Append(writeMsgs[t], m)[i] =
                   IF i = Len(writeMsgs[t]) + 1 THEN m ELSE writeMsgs[t][i]
  <2> HIDE DEF m
  <2>1. writeMsgs[t] \in Seq(Msg)
    BY DEF IInv, TypeOK
  <2>2. Len(writeMsgs[t]) \in Nat
    BY <2>1, EmptyFacts
  <2>3. QED
    BY ONLY <1>1, <2>1, <2>2, AppendFacts
<1>6. TypeOK'
  <2>1. inbox' \in [Session -> Seq(Frame)]
    BY <1>1 DEF IInv, TypeOK
  <2>2. writeMsgs' \in [Session -> Seq(Msg)]
    BY <1>5 DEF IInv, TypeOK
  <2>3. writing' \in [Session -> {"idle", "pending", "done", "failed"}]
    BY DEF IInv, TypeOK
  <2>4. reading' \in [Session -> {"none", "header", "body", "over"}]
    BY DEF IInv, TypeOK
  <2>5. QED
    BY <1>0, <1>2, <1>3, <1>4, <2>1, <2>2, <2>3, <2>4 DEF IInv, TypeOK
<1>7. ASSUME NEW t \in Session
      PROVE  /\ writeMsgs'[t] = IF t \in participants THEN Append(writeMsgs[t], m)
                                                        ELSE writeMsgs[t]
             /\ writing'[t] = IF t \in participants /\ writeMsgs[t] = << >>
                              THEN "pending" ELSE writing[t]
             /\ reading'[t] = "none" => reading[t] = "none"
             /\ writing'[t] = "done" <=> writing[t] = "done"
  <2>1. t \in participants /\ writeMsgs[t] = << >> => writing[t] = "idle"
    BY DEF IInv, WriteLoop
  <2>2. QED
    BY <2>1 DEF IInv, TypeOK
<1>8. SessionShape'
  <2>1. ASSUME NEW t \in Session PROVE ShapeOK(t)'
    BY <1>2, <1>5, <1>7 DEF IInv, SessionShape, ShapeOK
  <2>2. QED
    BY <2>1 DEF SessionShape
<1>9. WriteLoop'
  <2>1. ASSUME NEW t \in participants
        PROVE  writing'[t] # "idle" /\ writeMsgs'[t] # << >>
    <3>1. t \in Session
      BY DEF IInv, TypeOK
    <3>2. writeMsgs'[t] # << >>
      BY <1>5, <1>7, <3>1
    <3>3. writing'[t] # "idle"
      BY <1>7, <3>1 DEF IInv, WriteLoop
    <3>4. QED
      BY <3>2, <3>3
  <2>2. QED
    BY <1>2, <2>1 DEF WriteLoop
<1>10. ASSUME NEW t \in Session PROVE ViewIsSegment(t)'
  <2> DEFINE n == base[t] + Popped(t)
  <2>1. /\ base[t] \in Nat /\ Popped(t) \in Nat /\ n \in Nat
        /\ Len(wire[t]) \in Nat /\ Len(writeMsgs[t]) \in Nat
        /\ base[t] + Len(wire[t]) <= n + Len(writeMsgs[t])
    <3>1. \A a, b, c, d \in Nat : a <= b + c => d + a <= d + b + c
      OBVIOUS
    <3>2. \A a, b \in Nat : a + b \in Nat
      OBVIOUS
    <3>3. QED
      BY <3>1, <3>2, ViewNumbers, Zenon
  <2>2. /\ Popped(t)' = Popped(t) /\ base'[t] = base[t] /\ wire'[t] = wire[t]
        /\ base'[t] + Popped(t)' = n
    BY <1>2, <1>7 DEF Popped
  <2> HIDE DEF m, n, BodyRead, Deliver, Starts
  <2>3. /\ n + Len(writeMsgs[t]) <= Len(log)
        /\ t \in participants => n + Len(writeMsgs[t]) = Len(log)
        /\ \A i \in 1 .. Len(wire[t]) : wire[t][i] = log[base[t] + i]
        /\ \A i \in 1 .. Len(writeMsgs[t]) : writeMsgs[t][i] = log[n + i]
    BY DEF IInv, ContiguousView, ViewIsSegment, Upto, n
  <2>4. \A i \in 1 .. Len(log) : log'[i] = log[i]
    BY <1>3
  <2>5. \A i \in 1 .. Len(wire'[t]) : wire'[t][i] = log'[base'[t] + i]
    <3>1. base[t] + Len(wire[t]) <= Len(log)
      BY <1>3, <2>1, <2>3
    <3>2. TAKE i \in 1 .. Len(wire'[t])
    <3>3. i \in 1 .. Len(wire[t]) /\ base[t] + i \in 1 .. Len(log)
      <4>1. i \in 1 .. Len(wire[t])
        BY <2>2
      <4>2. Len(log) \in Nat /\ base[t] \in Nat /\ Len(wire[t]) \in Nat
        BY <2>1, ViewNumbers
      <4>3. QED
        BY <3>1, <4>1, <4>2, Offsets
    <3>4. wire[t][i] = log[base[t] + i] /\ log'[base[t] + i] = log[base[t] + i]
      BY <2>3, <2>4, <3>3
    <3>5. QED
      BY <2>2, <3>4
  <2>6. \A i \in 1 .. Len(writeMsgs[t]) : writeMsgs[t][i] = log'[n + i]
    <3>1. TAKE i \in 1 .. Len(writeMsgs[t])
    <3>2. n + i \in 1 .. Len(log)
      BY <1>3, <2>1, <2>3
    <3>3. QED
      BY <2>3, <2>4, <3>2
  <2>7. CASE t \in participants
    <3>1. writeMsgs'[t] = Append(writeMsgs[t], m)
      BY <1>7, <2>7
    <3>2. Len(writeMsgs'[t]) = Len(writeMsgs[t]) + 1
      BY <1>5, <3>1
    <3>3. n + Len(writeMsgs'[t]) = Len(log')
      <4>1. n + Len(writeMsgs[t]) = Len(log) /\ Len(log') = Len(log) + 1
        BY <1>3, <2>3, <2>7, Zenon
      <4>2. n + Len(writeMsgs[t]) + 1 = n + (Len(writeMsgs[t]) + 1)
        BY <2>1, OneMore, Zenon
      <4>3. QED
        BY <3>2, <4>1, <4>2, Zenon
    <3>4. \A i \in 1 .. Len(writeMsgs'[t]) : writeMsgs'[t][i] = log'[n + i]
      <4>1. TAKE i \in 1 .. Len(writeMsgs'[t])
      <4>2. CASE i = Len(writeMsgs[t]) + 1
        <5>1. n + i = Len(log) + 1
          <6>1. n + Len(writeMsgs[t]) = Len(log)
            BY <2>3, <2>7
          <6>2. Len(log) \in Nat
            BY <1>3
          <6>3. QED
            BY <2>1, <4>2, <6>1, <6>2
        <5>2. log'[n + i] = m
          BY <1>3, <5>1
        <5>3. writeMsgs'[t][i] = m
          BY <1>5, <2>1, <3>1, <4>2
        <5>4. QED
          BY <5>2, <5>3
      <4>3. CASE i \in 1 .. Len(writeMsgs[t])
        <5>1. i \in 1 .. Len(writeMsgs[t]) + 1 /\ i # Len(writeMsgs[t]) + 1
          BY <2>1, <4>3
        <5>2. writeMsgs'[t][i] = writeMsgs[t][i]
          BY <1>5, <3>1, <5>1
        <5>3. QED
          BY <2>6, <4>3, <5>2
      <4>4. i = Len(writeMsgs[t]) + 1 \/ i \in 1 .. Len(writeMsgs[t])
        BY <2>1, <3>2
      <4>5. QED
        BY <4>2, <4>3, <4>4
    <3>5. Len(log') \in Nat
      BY <1>3
    <3>6. QED
      BY <2>2, <2>5, <3>3, <3>4, <3>5 DEF ViewIsSegment, Upto
  <2>8. CASE t \notin participants
    <3>1. writeMsgs'[t] = writeMsgs[t] /\ t \notin participants'
      BY <1>2, <1>7, <2>8
    <3>2. n + Len(writeMsgs'[t]) <= Len(log')
      BY <1>3, <2>1, <2>3, <3>1
    <3>3. QED
      BY <2>2, <2>5, <2>6, <3>1, <3>2 DEF ViewIsSegment, Upto
  <2>9. QED
    BY <2>7, <2>8
<1>11. QED
  BY <1>0, <1>4, <1>6, <1>8, <1>9, <1>10 DEF IInv, ContiguousView

(* The kernel takes the front of the queue: the peer has one message more,  *)
(* the queue still holds it.                                                *)
LEMMA WireWriteInv ==
  ASSUME IInv, NEW s \in Session, WireWrite(s)
  PROVE  IInv'
<1>0. writes' \in [Session -> Nat] /\ WritesCounted'
  BY CountStep DEF Server
<1> DEFINE m == Head(writeMsgs[s])
<1> USE DEF WireWrite, peerVars, roomVars
<1>1. /\ UNCHANGED <<peerVars, accepting, roomVars, reading, writeMsgs, base>>
      /\ wire' = [wire EXCEPT ![s] = Append(@, m)]
      /\ writing[s] = "pending" /\ writing' = [writing EXCEPT ![s] = "done"]
  OBVIOUS
<1>2. /\ writeMsgs[s] \in Seq(Msg) /\ writeMsgs[s] # << >> /\ wire[s] \in Seq(Msg)
      /\ reading[s] # "none"
  BY <1>1 DEF IInv, TypeOK, SessionShape, ShapeOK
<1>3. m \in Msg /\ m = writeMsgs[s][1] /\ Len(writeMsgs[s]) \in Nat \ {0}
  BY <1>2, TailFacts
<1>4. /\ Append(wire[s], m) \in Seq(Msg) /\ Append(wire[s], m) # << >>
      /\ Len(Append(wire[s], m)) = Len(wire[s]) + 1
      /\ \A i \in 1 .. Len(wire[s]) + 1 :
           Append(wire[s], m)[i] = IF i = Len(wire[s]) + 1 THEN m ELSE wire[s][i]
  BY <1>2, <1>3, AppendFacts
<1> HIDE DEF m, WireWrite
<1>5. TypeOK'
  BY <1>0, <1>1, <1>4 DEF IInv, TypeOK
<1>6. SessionShape'
  <2>1. ASSUME NEW t \in Session PROVE ShapeOK(t)'
    BY <1>1, <1>2, <1>4 DEF IInv, TypeOK, SessionShape, ShapeOK
  <2>2. QED
    BY <2>1 DEF SessionShape
<1>7. WriteLoop' /\ HistoryIsTail'
  BY <1>1, <1>2 DEF IInv, TypeOK, WriteLoop, HistoryIsTail
<1>8. ASSUME NEW t \in Session PROVE ViewIsSegment(t)'
  <2>1. CASE t # s
    <3>1. /\ log' = log /\ base'[t] = base[t] /\ wire'[t] = wire[t]
          /\ writeMsgs'[t] = writeMsgs[t] /\ writing'[t] = writing[t]
          /\ t \in participants' => t \in participants
      BY <1>1, <2>1 DEF IInv, TypeOK
    <3>2. QED
      BY <3>1, ViewFrame DEF IInv, ContiguousView
  <2>2. CASE t = s
    <3>1. /\ log' = log /\ base'[s] = base[s] /\ writeMsgs'[s] = writeMsgs[s]
          /\ wire'[s] = Append(wire[s], m) /\ writing'[s] = "done"
          /\ participants' = participants
      BY <1>1 DEF IInv, TypeOK
    <3>2. /\ Popped(s) \in Nat /\ Len(wire[s]) \in Nat /\ Popped(s) = Len(wire[s])
      BY <1>1, ViewNumbers
    <3>3. Popped(s)' = Popped(s)
      <4>1. Popped(s)' = (Len(wire[s]) + 1) - 1
        BY <1>4, <3>1 DEF Popped
      <4>2. QED
        BY <3>2, <4>1
    <3>4. ViewIsSegment(s)
      BY DEF IInv, ContiguousView
    <3>5. \A i \in 1 .. Len(wire'[s]) : wire'[s][i] = log'[base'[s] + i]
      <4>1. TAKE i \in 1 .. Len(wire'[s])
      <4>2. i \in 1 .. Len(wire[s]) + 1
        BY <1>4, <3>1
      <4>3. CASE i = Len(wire[s]) + 1
        <5>1. wire'[s][i] = writeMsgs[s][1]
          BY <1>3, <1>4, <3>1, <4>2, <4>3
        <5>2. writeMsgs[s][1] = log[base[s] + Popped(s) + 1]
          <6>1. 1 \in 1 .. Len(writeMsgs[s])
            BY <1>3
          <6>2. QED
            BY <3>4, <6>1 DEF ViewIsSegment, Upto
        <5>3. base[s] + Popped(s) + 1 = base[s] + i
          <6>1. base[s] \in Nat
            BY ViewNumbers
          <6>2. i = Popped(s) + 1
            BY <3>2, <4>3, Zenon
          <6>3. QED
            BY <3>2, <6>1, <6>2, OneMore, Zenon
        <5>4. QED
          BY <3>1, <5>1, <5>2, <5>3
      <4>4. CASE i # Len(wire[s]) + 1
        <5>1. i \in 1 .. Len(wire[s])
          BY <3>2, <4>2, <4>4
        <5>2. wire'[s][i] = wire[s][i]
          BY <1>4, <3>1, <4>2, <4>4
        <5>3. QED
          BY <3>1, <3>4, <5>1, <5>2 DEF ViewIsSegment, Upto
      <4>5. QED
        BY <4>3, <4>4
    <3>6. QED
      BY <2>2, <3>1, <3>3, <3>4, <3>5 DEF ViewIsSegment, Upto
  <2>3. QED
    BY <2>1, <2>2
<1>9. QED
  BY <1>0, <1>5, <1>6, <1>7, <1>8 DEF IInv, ContiguousView

(* The write handler pops what the peer already has, and starts the next    *)
(* write exactly when something is left.                                    *)
LEMMA WrittenInv ==
  ASSUME IInv, NEW s \in Session, Written(s)
  PROVE  IInv'
<1>0. writes' \in [Session -> Nat] /\ WritesCounted'
  BY CountStep DEF Server
<1> DEFINE q == Tail(writeMsgs[s])
<1> USE DEF Written, peerVars, roomVars
<1>1. /\ UNCHANGED <<peerVars, accepting, roomVars, reading, base, wire>>
      /\ writeMsgs' = [writeMsgs EXCEPT ![s] = q]
      /\ writing[s] = "done"
      /\ writing' = [writing EXCEPT ![s] = IF q = << >> THEN "idle" ELSE "pending"]
  OBVIOUS
<1>2. /\ writeMsgs[s] \in Seq(Msg) /\ writeMsgs[s] # << >> /\ wire[s] \in Seq(Msg)
      /\ reading[s] # "none"
  BY <1>1 DEF IInv, TypeOK, SessionShape, ShapeOK
<1>3. /\ q \in Seq(Msg) /\ Len(writeMsgs[s]) \in Nat \ {0}
      /\ Len(q) = Len(writeMsgs[s]) - 1
      /\ \A i \in 1 .. Len(writeMsgs[s]) - 1 : q[i] = writeMsgs[s][i + 1]
  BY <1>2, TailFacts
<1> HIDE DEF q, Written
<1>4. TypeOK'
  BY <1>0, <1>1, <1>3 DEF IInv, TypeOK
<1>5. SessionShape'
  <2>1. ASSUME NEW t \in Session PROVE ShapeOK(t)'
    BY <1>1, <1>2 DEF IInv, TypeOK, SessionShape, ShapeOK
  <2>2. QED
    BY <2>1 DEF SessionShape
<1>6. WriteLoop' /\ HistoryIsTail'
  BY <1>1 DEF IInv, TypeOK, WriteLoop, HistoryIsTail
<1>7. ASSUME NEW t \in Session PROVE ViewIsSegment(t)'
  <2>1. CASE t # s
    <3>1. /\ log' = log /\ base'[t] = base[t] /\ wire'[t] = wire[t]
          /\ writeMsgs'[t] = writeMsgs[t] /\ writing'[t] = writing[t]
          /\ t \in participants' => t \in participants
      BY <1>1, <2>1 DEF IInv, TypeOK
    <3>2. QED
      BY <3>1, ViewFrame DEF IInv, ContiguousView
  <2>2. CASE t = s
    <3>1. /\ log' = log /\ base'[s] = base[s] /\ wire'[s] = wire[s]
          /\ writeMsgs'[s] = q /\ writing'[s] # "done"
          /\ participants' = participants
      BY <1>1 DEF IInv, TypeOK
    <3>2. /\ Popped(s) \in Nat /\ base[s] \in Nat /\ Len(wire[s]) = Popped(s) + 1
          /\ Len(log) \in Nat
      BY <1>1, ViewNumbers
    <3>3. Popped(s)' = Popped(s) + 1
      BY <3>1, <3>2 DEF Popped
    <3>4. base[s] + (Popped(s) + 1) + Len(q) = base[s] + Popped(s) + Len(writeMsgs[s])
      <4>1. Len(writeMsgs[s]) \in Nat
        BY <1>3
      <4>2. base[s] \in Nat /\ Popped(s) \in Nat
        BY <3>2
      <4>3. base[s] + (Popped(s) + 1) + (Len(writeMsgs[s]) - 1)
              = base[s] + Popped(s) + Len(writeMsgs[s])
        BY <4>1, <4>2, OneMoved
      <4>4. QED
        BY <1>3, <4>3, Zenon
    <3>5. ViewIsSegment(s)
      BY DEF IInv, ContiguousView
    <3>6. \A i \in 1 .. Len(q) : q[i] = log[base[s] + (Popped(s) + 1) + i]
      <4>1. TAKE i \in 1 .. Len(q)
      <4>2. i \in 1 .. Len(writeMsgs[s]) - 1 /\ i + 1 \in 1 .. Len(writeMsgs[s])
        BY <1>3
      <4>3. writeMsgs[s][i + 1] = log[base[s] + Popped(s) + (i + 1)]
        BY <3>5, <4>2 DEF ViewIsSegment, Upto
      <4>4. base[s] + Popped(s) + (i + 1) = base[s] + (Popped(s) + 1) + i
        <5>1. i \in Nat
          BY <1>3, <4>2
        <5>2. base[s] \in Nat /\ Popped(s) \in Nat
          BY <3>2
        <5>3. QED
          BY <5>1, <5>2, OneOn
      <4>5. QED
        BY <1>3, <4>2, <4>3, <4>4
    <3>7. /\ base'[s] + Popped(s)' + Len(writeMsgs'[s])
                = base[s] + Popped(s) + Len(writeMsgs[s])
          /\ \A i \in 1 .. Len(writeMsgs'[s]) :
               writeMsgs'[s][i] = log'[base'[s] + Popped(s)' + i]
      BY <3>1, <3>3, <3>4, <3>6
    <3>8. QED
      BY <2>2, <3>1, <3>5, <3>7 DEF ViewIsSegment, Upto
  <2>3. QED
    BY <2>1, <2>2
<1>8. QED
  BY <1>0, <1>4, <1>5, <1>6, <1>7 DEF IInv, ContiguousView

-----------------------------------------------------------------------------
(* The inductive step, and what follows from it. *)

LEMMA NextInv == IInv /\ [Next]_vars => IInv'
<1> SUFFICES ASSUME IInv, [Next]_vars PROVE IInv'
  OBVIOUS
<1>1. ASSUME NEW s \in Session, Peer(s) PROVE IInv'
  BY <1>1, PeerInv
<1>2. ASSUME NEW s \in Session, Server(s) PROVE IInv'
  <2>1. CASE Accept(s)
    BY <2>1, AcceptInv
  <2>2. CASE \/ AcceptFailed(s) \/ HeaderRead(s) \/ HeaderFailed(s) \/ BodyFailed(s)
             \/ WireError(s) \/ WriteFailed(s)
    BY <2>2, LeaveInv
  <2>3. CASE BodyRead(s)
    BY <2>3, BodyReadInv
  <2>4. CASE WireWrite(s)
    BY <2>4, WireWriteInv
  <2>5. CASE Written(s)
    BY <2>5, WrittenInv
  <2>6. QED
    BY <1>2, <2>1, <2>2, <2>3, <2>4, <2>5 DEF Server, ReadStep
<1>3. CASE UNCHANGED vars
  <2>1. UNCHANGED <<conn, inbox, frames, accepting, participants, recent, log, reading,
                    writeMsgs, writing, writes, base, wire>>
    BY <1>3 DEF vars, peerVars, roomVars, writeVars
  <2>2. TypeOK' /\ SessionShape' /\ WriteLoop' /\ WritesCounted' /\ HistoryIsTail'
    BY <2>1 DEF IInv, TypeOK, SessionShape, ShapeOK, WriteLoop, WritesCounted, HistoryIsTail
  <2>3. ContiguousView'
    BY <2>1 DEF IInv, ContiguousView, ViewIsSegment, Upto, Popped
  <2>4. QED
    BY <2>2, <2>3 DEF IInv
<1>4. QED
  BY <1>1, <1>2, <1>3 DEF Next

(* The inductive invariant holds in every reachable state of the server. *)
THEOREM Invariance == Spec => []IInv
<1>1. QED
  BY InitInv, NextInv, PTL DEF Spec

(* chat_server.cpp keeps its state well-typed, whatever the peers send and  *)
(* however many they are.                                                   *)
THEOREM TypeCorrect == Spec => []TypeOK
<1>1. IInv => TypeOK
  BY DEF IInv
<1>2. QED
  BY <1>1, Invariance, PTL

(* deliver() and the write handler of chat_session together never have two  *)
(* async_writes under way on one socket, and have one whenever a session in *)
(* the room has something to send, for every interleaving of any number of  *)
(* sessions.                                                                *)
THEOREM OneWriteAtATime == Spec => []WriteDiscipline
<1>1. IInv => WriteDiscipline
  <2> SUFFICES ASSUME IInv, NEW s \in Session
               PROVE  /\ writes[s] <= 1
                      /\ s \in participants => (writes[s] = 1 <=> writeMsgs[s] # << >>)
    BY DEF WriteDiscipline
  <2>1. writes[s] = IF writing[s] = "idle" THEN 0 ELSE 1
    BY DEF IInv, WritesCounted
  <2>2. s \in participants => (writing[s] = "idle" <=> writeMsgs[s] = << >>)
    BY DEF IInv, WriteLoop
  <2>3. QED
    BY <2>1, <2>2
<1>2. QED
  BY <1>1, Invariance, PTL

(* What join() shows to a newcomer is the end of the conversation, for      *)
(* every value of max_recent_msgs.                                          *)
THEOREM RecentIsTheTail == Spec => []HistoryIsTail
<1>1. IInv => HistoryIsTail
  BY DEF IInv
<1>2. QED
  BY <1>1, Invariance, PTL

(* Everybody in the room reads one conversation: no gap, no duplicate and   *)
(* no reordering in what deliver() and the write handler send to a peer.    *)
THEOREM OneConversation == Spec => []ContiguousView
<1>1. IInv => ContiguousView
  BY DEF IInv
<1>2. QED
  BY <1>1, Invariance, PTL

-----------------------------------------------------------------------------
(* What holds when the server rests *)

(* A session whose read and membership a step leaves alone. *)
LEMMA ReadsOnKept ==
  ASSUME NEW t \in Session, ReadsOn(t),
         inbox'[t] = inbox[t], reading'[t] = reading[t],
         t \in participants' <=> t \in participants,
         conn[t] = "reset" => conn'[t] = "reset",
         writing'[t] = "failed" => writing[t] = "failed"
  PROVE  ReadsOn(t)'
BY DEF ReadsOn

(* A frame arrives behind those that are there. *)
LEMMA PeerSendOwes ==
  ASSUME IInv, NEW s \in Session, NEW f \in Frame, ReadsOn(s), PeerSend(s, f)
  PROVE  ReadsOn(s)'
<1> DEFINE q == inbox[s]
           r == Append(q, f)
<1>1. /\ inbox'[s] = r /\ UNCHANGED <<conn, reading, participants, writing>>
      /\ \A i \in 1 .. Len(q) : q[i] # ShortBody
  BY DEF PeerSend, IInv, TypeOK, roomVars, writeVars
<1>2. /\ r \in Seq(Frame) /\ r # << >> /\ Len(r) = Len(q) + 1 /\ Len(q) \in Nat
      /\ \A i \in 1 .. Len(q) + 1 : r[i] = IF i = Len(q) + 1 THEN f ELSE q[i]
  <2>1. q \in Seq(Frame)
    BY DEF IInv, TypeOK
  <2>2. Len(q) \in Nat
    BY <2>1, EmptyFacts
  <2>3. QED
    BY <2>1, <2>2, AppendFacts
<1>3. reading[s] = "body" => r # << >> /\ Head(r) # BadHeader
  <2>1. SUFFICES ASSUME reading[s] = "body" PROVE Head(r) # BadHeader
    BY <1>2
  <2>2. q \in Seq(Frame) /\ q # << >> /\ Head(q) # BadHeader
    BY <2>1 DEF ReadsOn, IInv, TypeOK
  <2>3. Head(q) = q[1] /\ Len(q) # 0 /\ Head(r) = r[1]
    BY <1>2, <2>2, TailFacts
  <2>4. r[1] = q[1]
    BY <1>2, <2>3
  <2>5. QED
    BY <2>2, <2>3, <2>4
<1>4. \A i \in 1 .. Len(r) - 1 : r[i] # ShortBody
  BY <1>1, <1>2
<1> HIDE DEF q, r
<1>5. QED
  BY <1>1, <1>3, <1>4 DEF ReadsOn

(* The message delivered leaves the front of the inbox. *)
LEMMA BodyReadOwes ==
  ASSUME IInv, NEW s \in Session, ReadsOn(s), BodyRead(s)
  PROVE  ReadsOn(s)'
<1> DEFINE q == inbox[s]
<1>1. /\ inbox'[s] = Tail(q) /\ reading'[s] = "header" /\ participants' = participants
      /\ q \in Seq(Frame) /\ q # << >> /\ conn' = conn
      /\ writing'[s] = "failed" => writing[s] = "failed"
  BY DEF BodyRead, Deliver, IInv, TypeOK
<1>0. /\ s \in participants \/ conn[s] = "reset"
      /\ writing[s] = "failed" => conn[s] = "reset"
  BY DEF BodyRead, ReadsOn
<1>2. /\ Len(q) \in Nat \ {0} /\ Len(Tail(q)) = Len(q) - 1
      /\ \A i \in 1 .. Len(q) - 1 : Tail(q)[i] = q[i + 1]
  BY <1>1, TailFacts
<1>3. \A i \in 1 .. Len(q) - 1 : q[i] # ShortBody
  BY DEF ReadsOn
<1> HIDE DEF q
<1>4. \A i \in 1 .. Len(Tail(q)) - 1 : i \in 1 .. Len(q) - 1 /\ i + 1 \in 1 .. Len(q) - 1
  BY <1>2
<1>5. \A i \in 1 .. Len(Tail(q)) - 1 : Tail(q)[i] # ShortBody
  BY <1>2, <1>3, <1>4
<1>6. QED
  BY <1>0, <1>1, <1>5 DEF ReadsOn

LEMMA OwesInit == Init => ServerOwes
<1> SUFFICES ASSUME Init PROVE ServerOwes
  OBVIOUS
<1>1. /\ accepting /\ participants = {}
      /\ \A s \in Session : reading[s] = "none" /\ inbox[s] = << >> /\ writing[s] = "idle"
  BY DEF Init
<1>2. \A i \in 1 .. Len(<< >>) - 1 : FALSE
  BY EmptySeq
<1>3. QED
  BY <1>1, <1>2 DEF ServerOwes, ReadsOn

LEMMA ServerOwesStep == ASSUME IInv, ServerOwes, [Next]_vars PROVE ServerOwes'
<1>0. /\ accepting /\ \A t \in Session : ReadsOn(t)
      /\ conn \in [Session -> {"absent", "up", "half", "reset"}]
      /\ inbox \in [Session -> Seq(Frame)]
      /\ reading \in [Session -> {"none", "header", "body", "over"}]
      /\ writing \in [Session -> {"idle", "pending", "done", "failed"}]
  BY DEF ServerOwes, IInv, TypeOK
<1>1. ASSUME NEW s \in Session, PeerConnect(s) \/ PeerShutdown(s) \/ PeerReset(s)
      PROVE  ServerOwes'
  <2>1. /\ UNCHANGED <<inbox, accepting, reading, participants, writing>>
        /\ \A t \in Session : conn[t] = "reset" => conn'[t] = "reset"
    BY <1>0, <1>1 DEF PeerConnect, PeerShutdown, PeerReset, roomVars, writeVars
  <2>2. ASSUME NEW t \in Session PROVE ReadsOn(t)'
    BY <1>0, <2>1, ReadsOnKept
  <2>3. QED
    BY <1>0, <2>1, <2>2 DEF ServerOwes
<1>2. ASSUME NEW s \in Session, NEW f \in Frame, PeerSend(s, f) PROVE ServerOwes'
  <2>1. /\ UNCHANGED <<conn, accepting, reading, participants, writing>>
        /\ \A t \in Session : t # s => inbox'[t] = inbox[t]
    BY <1>0, <1>2 DEF PeerSend, roomVars, writeVars
  <2>2. ReadsOn(s)'
    BY <1>0, <1>2, PeerSendOwes
  <2>3. ASSUME NEW t \in Session, t # s PROVE ReadsOn(t)'
    BY <1>0, <2>1, <2>3, ReadsOnKept
  <2>4. QED
    BY <1>0, <2>1, <2>2, <2>3 DEF ServerOwes
<1>3. ASSUME NEW s \in Session,
             \/ Accept(s) \/ AcceptFailed(s) \/ HeaderRead(s) \/ HeaderFailed(s) \/ BodyFailed(s)
             \/ WireWrite(s) \/ WireError(s) \/ Written(s) \/ WriteFailed(s)
      PROVE  ServerOwes'
  <2>1. accepting' /\ UNCHANGED <<conn, inbox>>
    BY <1>0, <1>3 DEF Accept, AcceptFailed, HeaderRead, HeaderFailed, BodyFailed,
                      WireWrite, WireError, Written, WriteFailed, peerVars
  <2>2. \A t \in Session : t # s => /\ reading'[t] = reading[t] /\ writing'[t] = writing[t]
                                    /\ t \in participants' <=> t \in participants
    <3>0. CASE Accept(s)
      <4>1. /\ participants' = participants \cup {s}
            /\ reading' = [reading EXCEPT ![s] = "header"]
            /\ \E w : writing' = [writing EXCEPT ![s] = w]
        BY <3>0 DEF Accept
      <4>2. QED BY <1>0, <4>1
    <3>1. CASE AcceptFailed(s) \/ HeaderRead(s)
      BY <1>0, <3>1 DEF AcceptFailed, HeaderRead, roomVars, writeVars
    <3>2. CASE HeaderFailed(s) \/ BodyFailed(s)
      BY <1>0, <3>2 DEF HeaderFailed, BodyFailed, Leave, writeVars
    <3>3. CASE WireWrite(s) \/ WireError(s) \/ Written(s)
      BY <1>0, <3>3 DEF WireWrite, WireError, Written, roomVars
    <3>4. CASE WriteFailed(s)
      BY <1>0, <3>4 DEF WriteFailed, Leave
    <3>5. QED
      BY <1>3, <3>0, <3>1, <3>2, <3>3, <3>4
  <2>3. ReadsOn(s)'
    <3>0. ReadsOn(s) BY <1>0
    <3>1. CASE Accept(s)
      BY <1>0, <2>1, <3>0, <3>1 DEF Accept, ReadsOn
    <3>2. CASE AcceptFailed(s)
      BY <1>0, <2>1, <3>0, <3>2 DEF AcceptFailed, roomVars, writeVars, ReadsOn
    <3>3. CASE HeaderRead(s)
      BY <1>0, <2>1, <3>0, <3>3 DEF HeaderRead, roomVars, writeVars, ReadsOn
    <3>4. CASE HeaderFailed(s) \/ BodyFailed(s)
      BY <1>0, <2>1, <3>0, <3>4 DEF HeaderFailed, BodyFailed, Leave, writeVars, ReadsOn
    <3>5. CASE WireWrite(s) \/ Written(s)
      BY <1>0, <2>1, <3>0, <3>5 DEF WireWrite, Written, roomVars, ReadsOn
    <3>6. CASE WireError(s)
      BY <1>0, <2>1, <3>0, <3>6 DEF WireError, roomVars, ReadsOn
    <3>7. CASE WriteFailed(s)
      BY <1>0, <2>1, <3>0, <3>7 DEF WriteFailed, Leave, ReadsOn
    <3>8. QED
      BY <1>3, <3>1, <3>2, <3>3, <3>4, <3>5, <3>6, <3>7
  <2>4. ASSUME NEW t \in Session, t # s PROVE ReadsOn(t)'
    BY <1>0, <2>1, <2>2, <2>4, ReadsOnKept
  <2>5. QED
    BY <2>1, <2>3, <2>4 DEF ServerOwes
<1>4. ASSUME NEW s \in Session, BodyRead(s) PROVE ServerOwes'
  <2>1. /\ UNCHANGED <<conn, accepting, participants>>
        /\ \A t \in Session : t # s => inbox'[t] = inbox[t] /\ reading'[t] = reading[t]
        /\ \A t \in Session : writing'[t] = "failed" => writing[t] = "failed"
    BY <1>0, <1>4 DEF BodyRead, Deliver
  <2>2. ReadsOn(s)'
    BY <1>0, <1>4, BodyReadOwes
  <2>3. ASSUME NEW t \in Session, t # s PROVE ReadsOn(t)'
    BY <1>0, <2>1, <2>3, ReadsOnKept
  <2>4. QED
    BY <1>0, <2>1, <2>2, <2>3 DEF ServerOwes
<1>5. CASE UNCHANGED vars
  <2>1. UNCHANGED <<conn, inbox, accepting, reading, participants, writing>>
    BY <1>5 DEF vars, peerVars, roomVars, writeVars
  <2>2. ASSUME NEW t \in Session PROVE ReadsOn(t)'
    BY <1>0, <2>1, ReadsOnKept
  <2>3. QED
    BY <1>0, <2>1, <2>2 DEF ServerOwes
<1>6. QED
  BY <1>1, <1>2, <1>3, <1>4, <1>5 DEF Next, Peer, Server, ReadStep

(* What the sessions owe, and that nothing of it is ready: it was done.     *)
LEMMA RestIsDone == ASSUME IInv, ServerOwes, ServerRests PROVE RestsWhenDone
<1> SUFFICES ASSUME NEW s \in Session
    PROVE  /\ conn[s] # "absent" => reading[s] # "none"
           /\ reading[s] \in {"header", "body"} =>
                /\ s \in participants
                /\ \A i \in 1 .. Len(inbox[s]) : inbox[s][i] \notin Msg
                /\ s \in Responsive =>
                     writeMsgs[s] = << >> /\ base[s] + Len(wire[s]) = Len(log)
           /\ conn[s] = "reset" \/ (conn[s] = "half" /\ s \in Responsive) =>
                reading[s] = "over" /\ ~Alive(s)
  BY DEF RestsWhenDone
<1>0. /\ inbox[s] \in Seq(Frame) /\ Len(inbox[s]) \in Nat
      /\ reading[s] \in {"none", "header", "body", "over"}
      /\ writing[s] \in {"idle", "pending", "done", "failed"}
  BY EmptyFacts DEF IInv, TypeOK
<1>1. conn[s] # "absent" => reading[s] # "none"
  BY DEF ServerOwes, ServerRests
<1>2. reading[s] = "header" => inbox[s] = << >> /\ conn[s] \notin {"half", "reset"}
  BY DEF ServerRests
<1>3. reading[s] = "body" =>
        /\ conn[s] \notin {"half", "reset"}
        /\ inbox[s] # << >> /\ Head(inbox[s]) = ShortBody
  <2> SUFFICES ASSUME reading[s] = "body"
               PROVE  /\ conn[s] \notin {"half", "reset"}
                      /\ inbox[s] # << >> /\ Head(inbox[s]) = ShortBody
    OBVIOUS
  <2>1. inbox[s] # << >> /\ Head(inbox[s]) # BadHeader
    BY DEF ServerOwes, ReadsOn
  <2>2. Head(inbox[s]) \in Frame /\ Head(inbox[s]) \notin Msg
    BY <1>0, <2>1, TailFacts DEF ServerRests
  <2>3. Head(inbox[s]) = ShortBody
    BY <2>1, <2>2 DEF Frame
  <2>4. QED
    BY <2>1, <2>3 DEF ServerRests
<1>4. reading[s] \in {"header", "body"} =>
        \A i \in 1 .. Len(inbox[s]) : inbox[s][i] \notin Msg
  <2>1. CASE reading[s] = "header"
    <3>1. Len(inbox[s]) = 0
      BY <1>0, <1>2, <2>1, EmptyFacts
    <3>2. QED
      BY <3>1
  <2>2. CASE reading[s] = "body"
    <3>1. inbox[s][1] = ShortBody
      BY <1>0, <1>3, <2>2, TailFacts
    <3>2. \A i \in 1 .. Len(inbox[s]) - 1 : inbox[s][i] # ShortBody
      BY DEF ServerOwes, ReadsOn
    <3>3. \A i \in 1 .. Len(inbox[s]) : i = 1
      BY <1>0, <3>1, <3>2
    <3>4. QED
      BY <3>1, <3>3
  <2>3. QED
    BY <2>1, <2>2
<1>5. reading[s] \in {"header", "body"} => s \in participants
  <2>1. reading[s] \in {"header", "body"} => s \in participants \/ conn[s] = "reset"
    BY DEF ServerOwes, ReadsOn
  <2>2. QED
    BY <1>2, <1>3, <2>1
<1>6. s \in participants /\ s \in Responsive =>
        writeMsgs[s] = << >> /\ base[s] + Len(wire[s]) = Len(log)
  <2> SUFFICES ASSUME s \in participants, s \in Responsive
               PROVE  writeMsgs[s] = << >> /\ base[s] + Len(wire[s]) = Len(log)
    OBVIOUS
  <2>1. writing[s] = "idle"
    BY <1>0 DEF ServerRests
  <2>2. writeMsgs[s] = << >> /\ Len(writeMsgs[s]) = 0
    BY <2>1, EmptyFacts DEF IInv, WriteLoop
  <2>3. base[s] + Popped(s) + Len(writeMsgs[s]) = Len(log) /\ Popped(s) = Len(wire[s])
    BY <2>1 DEF IInv, ContiguousView, ViewIsSegment, Upto, Popped
  <2>4. base[s] \in Nat /\ Len(wire[s]) \in Nat
    BY EmptyFacts DEF IInv, TypeOK
  <2>5. QED
    BY <2>2, <2>3, <2>4
<1>7. conn[s] = "reset" \/ (conn[s] = "half" /\ s \in Responsive) =>
        reading[s] = "over" /\ ~Alive(s)
  <2> SUFFICES ASSUME conn[s] = "reset" \/ (conn[s] = "half" /\ s \in Responsive)
               PROVE  reading[s] = "over" /\ ~Alive(s)
    OBVIOUS
  <2>1. reading[s] = "over"
    BY <1>0, <1>1, <1>2, <1>3
  <2>2. s \notin participants
    BY <2>1 DEF ServerOwes, ReadsOn
  <2>3. writing[s] = "idle"
    BY <1>0 DEF ServerRests
  <2>4. QED
    BY <2>1, <2>2, <2>3 DEF Alive
<1>8. QED
  BY <1>1, <1>4, <1>5, <1>6, <1>7

(* The server cannot get stuck: when no handler is ready, every connection  *)
(* was looked at, every whole message delivered, every session that reads   *)
(* is in the room and its peer, if it reads too, has all that was said      *)
(* since it joined; and what has ended is released.                         *)
THEOREM ServerForgetsNothing == Spec => []RestsWhenDone
<1>1. Init => ServerOwes
  BY OwesInit
<1>2. IInv /\ ServerOwes /\ [Next]_vars => ServerOwes'
  BY ServerOwesStep
<1>3. IInv /\ ServerOwes => RestsWhenDone
  BY RestIsDone DEF RestsWhenDone
<1>4. QED
  BY Invariance, <1>1, <1>2, <1>3, PTL DEF Spec

-----------------------------------------------------------------------------
(* The chat server implements the abstract room: every step of the code is  *)
(* a step of ChatRoom or invisible to it.                                   *)

(* Three ways in which a step of the server looks to the room. *)
LEMMA Unseen ==
  ASSUME UNCHANGED <<log, base, wire>>,
         \A t \in Session : RoomStatus(t)' = RoomStatus(t) /\ Upto(t)' = Upto(t)
  PROVE  UNCHANGED Room!roomVars
<1>1. [t \in Session |-> RoomStatus(t)]' = [t \in Session |-> RoomStatus(t)]
  OBVIOUS
<1>2. [t \in Session |-> Upto(t)]' = [t \in Session |-> Upto(t)]
  OBVIOUS
<1>3. QED
  BY <1>1, <1>2 DEF Room!roomVars

LEMMA StatusMoves ==
  ASSUME NEW s \in Session, NEW v, RoomStatus(s)' = v,
         \A t \in Session \ {s} : RoomStatus(t)' = RoomStatus(t)
  PROVE  [t \in Session |-> RoomStatus(t)]' =
           [[t \in Session |-> RoomStatus(t)] EXCEPT ![s] = v]
  OBVIOUS

LEMMA InitRoom == Init => Room!Init
<1> SUFFICES ASSUME Init PROVE Room!Init
  OBVIOUS
<1>1. Len(<< >>) = 0
  BY EmptySeq
<1>2. ASSUME NEW s \in Session PROVE RoomStatus(s) = "new" /\ Upto(s) = 0
  BY <1>1 DEF Init, RoomStatus, Upto, Popped
<1>3. QED
  BY <1>2 DEF Init, Room!Init

LEMMA PeerRoom ==
  ASSUME NEW s \in Session, Peer(s)
  PROVE  UNCHANGED Room!roomVars
<1>1. UNCHANGED <<roomVars, reading, writeVars, base, wire>>
  BY DEF Peer, PeerConnect, PeerSend, PeerShutdown, PeerReset
<1>2. QED
  BY <1>1, Unseen DEF RoomStatus, Upto, Popped, roomVars, writeVars

LEMMA AcceptRoom ==
  ASSUME IInv, NEW s \in Session, Accept(s)
  PROVE  Room!Join(s)
<1> USE DEF Accept, peerVars
<1>1. /\ s \notin participants /\ wire[s] = << >>
      /\ recent \in Seq(Msg) /\ log \in Seq(Msg)
  BY DEF IInv, TypeOK, SessionShape, ShapeOK
<1>2. /\ Len(recent) = Room!HistoryLength /\ Len(recent) \in Nat
      /\ Len(log) \in Nat /\ Len(<< >>) = 0
  BY <1>1, EmptyFacts DEF IInv, HistoryIsTail, Room!HistoryLength
<1>3. RoomStatus(s) = "new" /\ RoomStatus(s)' = "in"
  BY <1>1 DEF RoomStatus
<1>4. ASSUME NEW t \in Session \ {s}
      PROVE  RoomStatus(t)' = RoomStatus(t) /\ Upto(t)' = Upto(t)
  BY DEF IInv, TypeOK, RoomStatus, Upto, Popped
<1>5. Upto(s)' = Len(log)
  <2>1. /\ base'[s] = Len(log) - Len(recent) /\ writeMsgs'[s] = recent
        /\ writing'[s] # "done" /\ wire'[s] = << >>
    BY <1>1 DEF IInv, TypeOK
  <2>2. QED
    BY <1>2, <2>1 DEF Upto, Popped
<1>6. [t \in Session |-> RoomStatus(t)]' =
        [[t \in Session |-> RoomStatus(t)] EXCEPT ![s] = "in"]
  BY <1>3, <1>4, StatusMoves
<1>7. [t \in Session |-> Upto(t)]' =
        [[t \in Session |-> Upto(t)] EXCEPT ![s] = Len(log)]
  BY <1>4, <1>5
<1>8. QED
  BY <1>2, <1>3, <1>6, <1>7 DEF Room!Join

LEMMA AcceptFailedRoom ==
  ASSUME IInv, NEW s \in Session, AcceptFailed(s)
  PROVE  Room!Turnaway(s)
<1> USE DEF AcceptFailed, peerVars, roomVars, writeVars
<1>1. s \notin participants
  BY DEF IInv, SessionShape, ShapeOK
<1>2. RoomStatus(s) = "new" /\ RoomStatus(s)' = "out"
  BY <1>1 DEF IInv, TypeOK, RoomStatus
<1>3. ASSUME NEW t \in Session
      PROVE  /\ t # s => RoomStatus(t)' = RoomStatus(t)
             /\ Upto(t)' = Upto(t)
  BY DEF IInv, TypeOK, RoomStatus, Upto, Popped
<1>4. [t \in Session |-> RoomStatus(t)]' =
        [[t \in Session |-> RoomStatus(t)] EXCEPT ![s] = "out"]
  BY <1>2, <1>3, StatusMoves
<1>5. [t \in Session |-> Upto(t)]' = [t \in Session |-> Upto(t)]
  BY <1>3
<1>6. QED
  BY <1>2, <1>4, <1>5 DEF Room!Turnaway

(* Whatever ends a session is a Leave, the first time. *)
LEMMA LeaveRoom ==
  ASSUME IInv, NEW s \in Session,
         HeaderFailed(s) \/ BodyFailed(s) \/ WriteFailed(s)
  PROVE  Room!Leave(s) \/ UNCHANGED Room!roomVars
<1> USE DEF HeaderFailed, BodyFailed, WriteFailed, Leave, peerVars, writeVars
<1>1. /\ UNCHANGED <<log, base, wire, writeMsgs>>
      /\ participants' = participants \ {s}
      /\ \A t \in Session : /\ reading'[t] = "none" <=> reading[t] = "none"
                            /\ writing'[t] = "done" <=> writing[t] = "done"
  BY DEF IInv, TypeOK
<1>2. ASSUME NEW t \in Session
      PROVE  /\ t # s => RoomStatus(t)' = RoomStatus(t)
             /\ Upto(t)' = Upto(t)
  BY <1>1 DEF RoomStatus, Upto, Popped
<1>3. [t \in Session |-> Upto(t)]' = [t \in Session |-> Upto(t)]
  BY <1>2
<1>4. CASE s \in participants
  <2>1. reading[s] # "none"
    BY <1>4 DEF IInv, SessionShape, ShapeOK
  <2>2. RoomStatus(s) = "in" /\ RoomStatus(s)' = "out"
    BY <1>1, <1>4, <2>1 DEF RoomStatus
  <2>3. [t \in Session |-> RoomStatus(t)]' =
          [[t \in Session |-> RoomStatus(t)] EXCEPT ![s] = "out"]
    BY <1>2, <2>2, StatusMoves
  <2>4. QED
    BY <1>1, <1>3, <2>2, <2>3 DEF Room!Leave
<1>5. CASE s \notin participants
  <2>1. RoomStatus(s)' = RoomStatus(s)
    BY <1>1, <1>5 DEF RoomStatus
  <2>2. QED
    BY <1>1, <1>2, <2>1, Unseen
<1>6. QED
  BY <1>4, <1>5

LEMMA BodyReadRoom ==
  ASSUME IInv, NEW s \in Session, BodyRead(s)
  PROVE  \E m \in Msg : Room!Publish(m)
<1> DEFINE m == Head(inbox[s])
<1> USE DEF BodyRead, Deliver, Starts
<1>1. /\ m \in Msg /\ log' = Append(log, m)
      /\ UNCHANGED <<participants, base, wire>>
  OBVIOUS
<1>2. ASSUME NEW t \in Session
      PROVE  /\ reading'[t] = "none" <=> reading[t] = "none"
             /\ writing'[t] = "done" <=> writing[t] = "done"
             /\ writeMsgs'[t] = IF t \in participants THEN Append(writeMsgs[t], m)
                                                       ELSE writeMsgs[t]
  <2>1. t \in participants /\ writeMsgs[t] = << >> => writing[t] = "idle"
    BY DEF IInv, WriteLoop
  <2>2. QED
    BY <2>1 DEF IInv, TypeOK
<1> HIDE DEF m, BodyRead, Deliver, Starts
<1>3. ASSUME NEW t \in Session PROVE RoomStatus(t)' = RoomStatus(t)
  BY <1>1, <1>2 DEF RoomStatus
<1>4. ASSUME NEW t \in Session
      PROVE  Upto(t)' = IF RoomStatus(t) = "in" THEN Len(log) + 1 ELSE Upto(t)
  <2>1. Popped(t)' = Popped(t) /\ base'[t] = base[t]
    BY <1>1, <1>2 DEF Popped
  <2>2. CASE t \in participants
    <3>1. Len(Append(writeMsgs[t], m)) = Len(writeMsgs[t]) + 1
      BY <1>1, AppendFacts DEF IInv, TypeOK
    <3>2. base[t] + Popped(t) + Len(writeMsgs[t]) = Len(log)
      BY <2>2 DEF IInv, ContiguousView, ViewIsSegment, Upto
    <3>4. base[t] + Popped(t) + (Len(writeMsgs[t]) + 1) = Len(log) + 1
      <4>1. base[t] \in Nat /\ Popped(t) \in Nat /\ Len(writeMsgs[t]) \in Nat
        BY ViewNumbers
      <4>2. base[t] + Popped(t) + (Len(writeMsgs[t]) + 1)
              = (base[t] + Popped(t) + Len(writeMsgs[t])) + 1
        <5> DEFINE a == base[t]
                   b == Popped(t)
                   c == Len(writeMsgs[t])
        <5>1. a \in Nat /\ b \in Nat /\ c \in Nat BY <4>1
        <5> HIDE DEF a, b, c
        <5>2. a + b + (c + 1) = (a + b + c) + 1 BY <5>1
        <5>3. QED BY <5>2, Zenon DEF a, b, c
      <4>3. QED
        BY <3>2, <4>2, Zenon
    <3>5. Upto(t)' = Len(log) + 1
      <4>1. Len(writeMsgs'[t]) = Len(writeMsgs[t]) + 1
        BY <1>2, <2>2, <3>1
      <4>2. Upto(t)' = base[t] + Popped(t) + (Len(writeMsgs[t]) + 1)
        BY <2>1, <4>1, Zenon DEF Upto
      <4>3. QED
        BY <3>4, <4>2
    <3>6. QED
      BY <2>2, <3>5 DEF RoomStatus
  <2>3. CASE t \notin participants
    BY <1>2, <2>1, <2>3 DEF Upto, RoomStatus
  <2>4. QED
    BY <2>2, <2>3
<1>5. Room!Publish(m)
  <2>1. [t \in Session |-> RoomStatus(t)]' = [t \in Session |-> RoomStatus(t)]
    BY <1>3
  <2>2. [t \in Session |-> Upto(t)]' =
          [t \in Session |-> IF [u \in Session |-> RoomStatus(u)][t] = "in"
                            THEN Len(log) + 1 ELSE [u \in Session |-> Upto(u)][t]]
    BY <1>4
  <2>3. QED
    BY <1>1, <2>1, <2>2 DEF Room!Publish
<1>6. QED
  BY <1>1, <1>5

LEMMA WireWriteRoom ==
  ASSUME IInv, NEW s \in Session, WireWrite(s)
  PROVE  Room!Receive(s)
<1> USE DEF WireWrite, peerVars, roomVars
<1>1. /\ writing[s] = "pending" /\ writeMsgs[s] # << >> /\ writeMsgs[s] \in Seq(Msg)
      /\ wire[s] \in Seq(Msg)
  BY DEF IInv, TypeOK, SessionShape, ShapeOK
<1>2. /\ Popped(s) = Len(wire[s]) /\ base[s] \in Nat /\ Len(wire[s]) \in Nat
  BY <1>1, ViewNumbers
<1>3. /\ Head(writeMsgs[s]) = writeMsgs[s][1] /\ Head(writeMsgs[s]) \in Msg
      /\ Len(writeMsgs[s]) \in Nat \ {0}
  BY <1>1, TailFacts
<1>4. Head(writeMsgs[s]) = log[base[s] + Len(wire[s]) + 1]
  <2>1. 1 \in 1 .. Len(writeMsgs[s])
    BY <1>3
  <2>2. QED
    BY <1>2, <1>3, <2>1 DEF IInv, ContiguousView, ViewIsSegment
<1>5. base[s] + Len(wire[s]) < Upto(s)
  BY <1>2, <1>3 DEF Upto
<1>6. ASSUME NEW t \in Session
      PROVE  RoomStatus(t)' = RoomStatus(t) /\ Upto(t)' = Upto(t)
  <2>1. Popped(t)' = Popped(t)
    <3>1. CASE t = s
      <4>1. /\ writing'[s] = "done"
            /\ wire'[s] = Append(wire[s], Head(writeMsgs[s]))
        BY DEF IInv, TypeOK
      <4>2. Len(wire'[s]) = Len(wire[s]) + 1
        BY <1>1, <1>3, <4>1, AppendFacts
      <4>3. QED
        BY <1>2, <3>1, <4>1, <4>2 DEF Popped
    <3>2. CASE t # s
      BY <3>2 DEF IInv, TypeOK, Popped
    <3>3. QED
      BY <3>1, <3>2
  <2>2. QED
    BY <2>1 DEF RoomStatus, Upto
<1>7. /\ [t \in Session |-> RoomStatus(t)]' = [t \in Session |-> RoomStatus(t)]
      /\ [t \in Session |-> Upto(t)]' = [t \in Session |-> Upto(t)]
  BY <1>6
<1>8. QED
  BY <1>4, <1>5, <1>7 DEF Room!Receive

(* The write handler pops what the peer has already received. *)
LEMMA WrittenRoom ==
  ASSUME IInv, NEW s \in Session, Written(s)
  PROVE  UNCHANGED Room!roomVars
<1> USE DEF Written, peerVars, roomVars
<1>1. /\ writing[s] = "done" /\ writeMsgs[s] # << >> /\ writeMsgs[s] \in Seq(Msg)
  BY DEF IInv, TypeOK, SessionShape, ShapeOK
<1>2. Len(Tail(writeMsgs[s])) = Len(writeMsgs[s]) - 1
  BY <1>1, TailFacts
<1>3. /\ base[s] \in Nat /\ Popped(s) \in Nat /\ Len(writeMsgs[s]) \in Nat
      /\ Len(wire[s]) = Popped(s) + 1
  BY <1>1, ViewNumbers
<1>4. /\ writing'[s] # "done" /\ writeMsgs'[s] = Tail(writeMsgs[s])
      /\ wire'[s] = wire[s] /\ base'[s] = base[s]
  BY DEF IInv, TypeOK
<1>5. Upto(s)' = Upto(s)
  <2>1. Popped(s)' = Popped(s) + 1
    BY <1>3, <1>4 DEF Popped
  <2>3. base[s] + (Popped(s) + 1) + (Len(writeMsgs[s]) - 1)
          = base[s] + Popped(s) + Len(writeMsgs[s])
    <3> DEFINE a == base[s]
               b == Popped(s)
               c == Len(writeMsgs[s])
    <3>1. a \in Nat /\ b \in Nat /\ c \in Nat BY <1>3
    <3> HIDE DEF a, b, c
    <3>2. a + (b + 1) + (c - 1) = a + b + c BY <3>1
    <3>3. QED BY <3>2, Zenon DEF a, b, c
  <2>4. QED
    BY <1>2, <1>4, <2>1, <2>3, Zenon DEF Upto
<1>6. ASSUME NEW t \in Session \ {s} PROVE Upto(t)' = Upto(t)
  BY DEF IInv, TypeOK, Upto, Popped
<1>7. ASSUME NEW t \in Session PROVE RoomStatus(t)' = RoomStatus(t)
  BY DEF RoomStatus
<1>8. QED
  BY <1>5, <1>6, <1>7, Unseen

(* A step of the server, as the room sees it. *)
LEMMA NextRoom == IInv /\ [Next]_vars => [Room!Next]_(Room!roomVars)
<1> SUFFICES ASSUME IInv, [Next]_vars PROVE [Room!Next]_(Room!roomVars)
  OBVIOUS
<1>1. ASSUME NEW s \in Session, Peer(s) PROVE UNCHANGED Room!roomVars
  BY <1>1, PeerRoom
<1>2. ASSUME NEW s \in Session, Server(s) PROVE [Room!Next]_(Room!roomVars)
  <2>1. CASE Accept(s)
    BY <2>1, AcceptRoom DEF Room!Next
  <2>2. CASE AcceptFailed(s)
    BY <2>2, AcceptFailedRoom DEF Room!Next
  <2>3. CASE HeaderFailed(s) \/ BodyFailed(s) \/ WriteFailed(s)
    BY <2>3, LeaveRoom DEF Room!Next
  <2>4. CASE HeaderRead(s) \/ WireError(s)
    <3>1. /\ UNCHANGED <<log, base, wire, participants, writeMsgs>>
          /\ \A t \in Session : /\ reading'[t] = "none" <=> reading[t] = "none"
                                /\ writing'[t] = "done" <=> writing[t] = "done"
      BY <2>4 DEF IInv, TypeOK, HeaderRead, WireError, roomVars, writeVars
    <3>2. QED
      BY <3>1, Unseen DEF RoomStatus, Upto, Popped
  <2>5. CASE BodyRead(s)
    BY <2>5, BodyReadRoom DEF Room!Next
  <2>6. CASE WireWrite(s)
    BY <2>6, WireWriteRoom DEF Room!Next
  <2>7. CASE Written(s)
    BY <2>7, WrittenRoom
  <2>8. QED
    BY <1>2, <2>1, <2>2, <2>3, <2>4, <2>5, <2>6, <2>7 DEF Server, ReadStep
<1>3. CASE UNCHANGED vars
  BY <1>3, Unseen DEF vars, roomVars, writeVars, RoomStatus, Upto, Popped
<1>4. QED
  BY <1>1, <1>2, <1>3 DEF Next

(* chat_server.cpp implements the room: its joins, leaves, deliveries and   *)
(* writes are those of ChatRoom, whatever the interleaving.                 *)
THEOREM ServerImplementsRoom == Spec => ImplementsRoom
<1>1. QED
  BY InitRoom, NextRoom, Invariance, PTL DEF Spec, ImplementsRoom, Room!Spec

-----------------------------------------------------------------------------
(* The two programs together.  Every step of the chat system is a step of   *)
(* the server of ChatServer and a step of the client of ChatClient, or      *)
(* invisible to the one or the other; so all that is proved of the parts    *)
(* holds of the whole.                                                      *)

ClientProofs ==
  INSTANCE ChatClientProofs WITH
    MaxFrames <- MaxFrames, frames <- cFrames, wire <- cWire,
    reading <- cReading, writeMsgs <- cQueue, writing <- cWriting,
    peer <- cPeer, inbox <- cInbox

USE ServerAssumption, SystemAssumption DEF ServerAssumption, SystemAssumption

(* ChatSystem and ChatClientProofs each have a copy of the client: under    *)
(* the same substitution the two invariants are the same formula.           *)
LEMMA ClientInvSame == Client!IInv <=> ClientProofs!IInv
  BY DEF Client!IInv, Client!TypeOK, Client!Places, Client!QuietSocket,
    Client!QuietUserTriesAll, Client!Frame, Client!Taken, Client!Popped, Client!Close,
    ClientProofs!IInv, ClientProofs!TypeOK, ClientProofs!Places, ClientProofs!QuietSocket,
    ClientProofs!QuietUserTriesAll, ClientProofs!Frame, ClientProofs!Taken,
    ClientProofs!Popped, ClientProofs!Close

LEMMA ClientInvSamePrimed == Client!IInv' <=> ClientProofs!IInv'
  BY DEF Client!IInv, Client!TypeOK, Client!Places, Client!QuietSocket,
    Client!QuietUserTriesAll, Client!Frame, Client!Taken, Client!Popped, Client!Close,
    ClientProofs!IInv, ClientProofs!TypeOK, ClientProofs!Places, ClientProofs!QuietSocket,
    ClientProofs!QuietUserTriesAll, ClientProofs!Frame, ClientProofs!Taken,
    ClientProofs!Popped, ClientProofs!Close

LEMMA ClientInit == Client!Init => Client!IInv
<1>1. ClientProofs!Init => ClientProofs!IInv
  BY ClientProofs!InitInv
<1>2. Client!Init => ClientProofs!Init
  BY DEF Client!Init, ClientProofs!Init
<1>3. QED
  BY <1>1, <1>2, ClientInvSame

LEMMA ClientSteps == Client!Next => ClientProofs!Next
  BY DEF Client!Next, Client!Main, Client!Posted, Client!Connect, Client!Read, Client!Write,
    Client!Server, Client!TypeLine, Client!EndOfInput, Client!JoinThread, Client!RunWrite,
    Client!RunClose, Client!AttemptDone, Client!Reached, Client!Refused,
    Client!NextAttempt, Client!ConnectFailed, Client!Connected, Client!HeaderRead,
    Client!BodyRead, Client!ReadFailed, Client!ReadEnds, Client!WireWrite, Client!WireError,
    Client!Written, Client!WriteFailed, Client!RunReturns, Client!OutOfWork,
    Client!ServerSend, Client!ServerLeave, Client!mainVars, Client!connectVars,
    Client!writeVars, Client!serverVars, Client!Close, Client!Frame, ClientProofs!Next,
    ClientProofs!Main, ClientProofs!Posted, ClientProofs!Connect, ClientProofs!Read,
    ClientProofs!Write, ClientProofs!Server, ClientProofs!TypeLine,
    ClientProofs!EndOfInput, ClientProofs!JoinThread, ClientProofs!RunWrite,
    ClientProofs!RunClose, ClientProofs!AttemptDone, ClientProofs!Reached,
    ClientProofs!Refused, ClientProofs!NextAttempt, ClientProofs!ConnectFailed,
    ClientProofs!Connected, ClientProofs!HeaderRead, ClientProofs!BodyRead,
    ClientProofs!ReadFailed, ClientProofs!ReadEnds, ClientProofs!WireWrite, ClientProofs!WireError,
    ClientProofs!Written, ClientProofs!WriteFailed, ClientProofs!RunReturns,
    ClientProofs!OutOfWork, ClientProofs!ServerSend, ClientProofs!ServerLeave,
    ClientProofs!mainVars, ClientProofs!connectVars, ClientProofs!writeVars,
    ClientProofs!serverVars, ClientProofs!Close, ClientProofs!Frame

LEMMA ClientStep == Client!IInv /\ [Client!Next]_(Client!vars) => Client!IInv'
<1>1. ClientProofs!IInv /\ [ClientProofs!Next]_(ClientProofs!vars) => ClientProofs!IInv'
  BY ClientProofs!NextInv
<1>2. UNCHANGED Client!vars => UNCHANGED ClientProofs!vars
  BY DEF Client!vars, ClientProofs!vars, Client!mainVars, Client!connectVars, Client!writeVars,
    Client!serverVars, ClientProofs!mainVars, ClientProofs!connectVars,
    ClientProofs!writeVars, ClientProofs!serverVars
<1>3. QED
  BY <1>1, <1>2, ClientInvSame, ClientInvSamePrimed, ClientSteps

-----------------------------------------------------------------------------

LEMMA Numbers ==
  ASSUME SystemInv
  PROVE  /\ Me \in Session
         /\ cWire \in Seq(Nat) /\ Len(cWire) \in Nat
         /\ \A i \in 1 .. Len(cWire) : cWire[i] = i
         /\ Len(cWire) <= typed /\ typed \in Nat /\ typed <= MaxLines
         /\ log \in Seq(Msg) /\ Len(log) \in Nat
         /\ inbox \in [Session -> Seq(Frame)]
         /\ \A s \in Session : Len(inbox[s]) \in Nat
<1>1. /\ cWire \in Seq(Nat) /\ cQueue \in Seq(Nat) /\ typed \in Nat
      /\ \A i \in 1 .. Len(cWire) : cWire[i] = i
      /\ Client!Popped \in 0 .. Len(cWire)
      /\ Client!Popped + Len(cQueue) <= typed
      /\ cWriting \in {"pending", "done"} => cQueue # << >>
  BY DEF SystemInv, Client!IInv, Client!TypeOK, Client!Places, Client!Taken
<1>2. Len(cWire) \in Nat /\ Len(cQueue) \in Nat
  BY <1>1
<1>3. Len(cWire) <= typed
  BY <1>1, <1>2 DEF Client!Popped
<1>4. log \in Seq(Msg) /\ inbox \in [Session -> Seq(Frame)]
  BY DEF SystemInv, IInv, TypeOK
<1>5. Len(log) \in Nat /\ \A s \in Session : Len(inbox[s]) \in Nat
  BY <1>4
<1>6. QED
  BY <1>1, <1>2, <1>3, <1>4, <1>5 DEF SystemInv

(* The client's next line is the one after those its kernel has taken. *)
LEMMA NextLine ==
  ASSUME SystemInv, Client!WireWrite
  PROVE  /\ Head(cQueue) = Len(cWire) + 1 /\ Head(cQueue) \in Lines
         /\ cWire' = Append(cWire, Len(cWire) + 1)
         /\ Len(cWire') = Len(cWire) + 1
         /\ \A i \in 1 .. Len(cWire) + 1 : cWire'[i] = i
<1>1. /\ cQueue \in Seq(Nat) /\ cQueue # << >> /\ Client!Popped = Len(cWire)
      /\ \A i \in 1 .. Len(cQueue) : cQueue[i] = Client!Popped + i
      /\ Client!Popped + Len(cQueue) <= typed
  BY DEF SystemInv, Client!IInv, Client!TypeOK, Client!Places, Client!Taken, Client!Popped,
         Client!WireWrite
<1>2. /\ Len(cQueue) \in Nat \ {0} /\ Head(cQueue) = cQueue[1]
  BY <1>1
<1>3. Head(cQueue) = Len(cWire) + 1 /\ Len(cWire) + 1 <= MaxLines
  BY <1>1, <1>2, Numbers
<1>4. cWire' = Append(cWire, Len(cWire) + 1)
  BY <1>3 DEF Client!WireWrite
<1>5. QED
  BY <1>3, <1>4, Numbers DEF Lines

(* Every step of the system is one of the server, of the client, or both. *)
LEMMA PartSteps ==
  ASSUME SystemInv, [SystemNext]_systemVars
  PROVE  [Next]_vars /\ [Client!Next]_(Client!vars)
<1> USE DEF Client!Next, Next
<1>0. Me \in Session /\ (UNCHANGED clientVars => UNCHANGED Client!vars)
  BY DEF clientVars, Client!vars, Client!mainVars, Client!connectVars, Client!writeVars,
         Client!serverVars
<1>1. CASE Connects
  BY <1>0, <1>1 DEF Connects, Peer
<1>2. CASE LineSent
  <2>1. Head(cQueue) \in Frame
    BY <1>2, NextLine DEF LineSent, Frame
  <2>2. QED
    BY <1>0, <1>2, <2>1 DEF LineSent, Peer, Client!Write
<1>3. CASE MessageSent
  BY <1>0, <1>3 DEF MessageSent, Server, Client!Server, Client!Frame
<1>4. CASE ClientCloses
  BY <1>0, <1>4 DEF ClientCloses, Peer, Client!Posted, Client!Read, Client!Write
<1>5. CASE Breaks
  BY <1>0, <1>5 DEF Breaks, Peer, Client!Server
<1>6. CASE Typing
  BY <1>0, <1>6 DEF Typing, Client!Main
<1>7. CASE ClientAlone
  BY <1>0, <1>7 DEF ClientAlone, Client!Main, Client!Posted, Client!Read, Client!Write
<1>8. CASE ServerAlone
  BY <1>0, <1>8 DEF ServerAlone, Server
<1>9. ASSUME NEW s \in Session \ {Me}, Other(s) PROVE [Next]_vars /\ [Client!Next]_(Client!vars)
  BY <1>0, <1>9 DEF Other, Peer, Frame
<1>10. CASE UNCHANGED systemVars
  BY <1>0, <1>10 DEF systemVars
<1>11. QED
  BY <1>1, <1>2, <1>3, <1>4, <1>5, <1>6, <1>7, <1>8, <1>9, <1>10 DEF SystemNext, Progress

(* Lines are typed, and stay in the bound. *)
LEMMA TypedInBound ==
  ASSUME SystemInv, [Client!Next]_(Client!vars)
  PROVE  typed' <= MaxLines
<1>1. CASE Client!TypeLine
  BY <1>1, Numbers DEF Client!TypeLine
<1>2. CASE [Client!Next]_(Client!vars) /\ ~ Client!TypeLine
  <2>1. typed' = typed
    BY <1>2 DEF Client!Next, Client!Main, Client!Posted, Client!Connect, Client!Read, Client!Write,
      Client!Server, Client!EndOfInput, Client!JoinThread, Client!RunWrite,
      Client!RunClose, Client!AttemptDone, Client!Reached, Client!Refused, Client!NextAttempt,
      Client!ConnectFailed, Client!Connected, Client!HeaderRead, Client!BodyRead, Client!ReadFailed,
      Client!WireWrite, Client!WireError, Client!Written, Client!WriteFailed, Client!RunReturns,
      Client!ServerSend, Client!ServerLeave, Client!mainVars, Client!vars
  <2>2. QED
    BY <2>1, Numbers
<1>3. QED
  BY <1>1, <1>2

(* Only WireWrite changes what the client has written. *)
LEMMA ClientWireSame ==
  ASSUME [Client!Next]_(Client!vars), ~ Client!WireWrite
  PROVE  cWire' = cWire
  BY DEF Client!Next, Client!Main, Client!Posted, Client!Connect, Client!Read, Client!Write,
    Client!Server, Client!TypeLine, Client!EndOfInput, Client!JoinThread, Client!RunWrite,
    Client!RunClose, Client!AttemptDone, Client!Reached, Client!Refused, Client!NextAttempt,
    Client!ConnectFailed, Client!Connected, Client!HeaderRead, Client!BodyRead, Client!ReadFailed,
    Client!WireError, Client!Written, Client!WriteFailed, Client!RunReturns,
    Client!ServerSend, Client!ServerLeave, Client!vars

-----------------------------------------------------------------------------
(* What relates the two: the stream, the other peers, and what the room has *)
(* heard.                                                                   *)

LEMMA RelationKept ==
  ASSUME SystemInv, log' = log, cWire' = cWire, inbox' = inbox,
         reading'[Me] # "over" => reading[Me] # "over"
  PROVE  Stream' /\ OthersSayOther' /\ RoomHearsInOrder'
<1>1. \A n : Heard(n)' = Heard(n)
  BY DEF Heard
<1>2. Stream' /\ OthersSayOther'
  BY <1>1 DEF SystemInv, Stream, OthersSayOther
<1>3. RoomHearsInOrder'
  BY <1>1 DEF SystemInv, RoomHearsInOrder
<1>4. QED
  BY <1>2, <1>3

LEMMA LineSentKeeps ==
  ASSUME SystemInv, LineSent
  PROVE  Stream' /\ OthersSayOther' /\ RoomHearsInOrder'
<1> DEFINE n == Len(cWire) + 1
<1>1. /\ Head(cQueue) = n /\ n \in Lines
      /\ Len(cWire') = n /\ \A i \in 1 .. n : cWire'[i] = i
  BY NextLine DEF LineSent
<1>2. log' = log /\ reading' = reading
  BY DEF LineSent, PeerSend, vars, roomVars
<1>3. RoomHearsInOrder'
  <2>1. ASSUME NEW i \in 1 .. Len(log'), log'[i] \in Lines
        PROVE  /\ log'[i] \in 1 .. Len(cWire') /\ cWire'[log'[i]] = log'[i]
               /\ Heard(i - 1)' = 1 .. log'[i] - 1
    <3>1. log[i] \in 1 .. Len(cWire) /\ Heard(i - 1) = 1 .. log[i] - 1
      BY <1>2, <2>1 DEF SystemInv, RoomHearsInOrder
    <3>2. log[i] \in 1 .. n
      BY <3>1, Numbers
    <3>3. Heard(i - 1)' = Heard(i - 1)
      BY <1>2 DEF Heard
    <3>4. QED
      BY <1>1, <1>2, <3>1, <3>2, <3>3
  <2>2. QED
    BY <2>1 DEF RoomHearsInOrder
<1>4. CASE reading[Me] = "over"
  <2>1. inbox' = inbox
    BY <1>4 DEF LineSent, vars, peerVars
  <2>2. QED
    BY <1>2, <1>3, <1>4, <2>1 DEF SystemInv, Stream, OthersSayOther
<1>5. CASE reading[Me] # "over"
  <2>1. inbox' = [inbox EXCEPT ![Me] = Append(@, n)]
    BY <1>1, <1>5 DEF LineSent, PeerSend
  <2>2. /\ inbox[Me] \in Seq(Frame) /\ n \in Frame
        /\ inbox'[Me] = Append(inbox[Me], n)
        /\ \A s \in Session \ {Me} : inbox'[s] = inbox[s]
    BY <1>1, <2>1, Numbers DEF Frame
  <2>3. /\ Len(inbox'[Me]) = Len(inbox[Me]) + 1
        /\ \A i \in 1 .. Len(inbox[Me]) + 1 :
             inbox'[Me][i] = IF i = Len(inbox[Me]) + 1 THEN n ELSE inbox[Me][i]
    BY <2>2, AppendFacts
  <2>4. Stream'
    <3> DEFINE heard == Len(cWire) - Len(inbox[Me])
    <3>1. /\ heard >= 0 /\ Heard(Len(log)) = 1 .. heard
          /\ \A i \in 1 .. Len(inbox[Me]) : inbox[Me][i] = heard + i
      BY <1>5 DEF SystemInv, Stream
    <3>2. Len(cWire') - Len(inbox'[Me]) = heard
      BY <1>1, <2>3, Numbers
    <3>3. Heard(Len(log))' = Heard(Len(log))
      BY <1>2 DEF Heard
    <3>4. \A i \in 1 .. Len(inbox'[Me]) : inbox'[Me][i] = heard + i
      <4> HIDE DEF heard
      <4>1. TAKE i \in 1 .. Len(inbox'[Me])
      <4>2. CASE i \in 1 .. Len(inbox[Me])
        BY <2>3, <3>1, <4>2, Numbers
      <4>3. CASE i = Len(inbox[Me]) + 1
        <5>1. inbox'[Me][i] = n
          BY <2>3, <4>3
        <5>2. heard + (Len(inbox[Me]) + 1) = n
          BY Numbers DEF heard
        <5>3. QED
          BY <4>3, <5>1, <5>2
      <4>4. QED
        BY <2>3, <4>2, <4>3, Numbers
    <3>5. QED
      BY <3>1, <3>2, <3>3, <3>4 DEF Stream
  <2>5. OthersSayOther'
    BY <2>2 DEF SystemInv, OthersSayOther
  <2>6. QED
    BY <1>3, <2>4, <2>5
<1>6. QED
  BY <1>4, <1>5

LEMMA OtherSaysKeeps ==
  ASSUME SystemInv, NEW s \in Session \ {Me}, NEW m \in Msg \ Lines, PeerSend(s, m),
         UNCHANGED clientVars
  PROVE  Stream' /\ OthersSayOther' /\ RoomHearsInOrder'
<1>1. /\ log' = log /\ reading' = reading /\ cWire' = cWire
      /\ inbox' = [inbox EXCEPT ![s] = Append(@, m)]
  BY DEF PeerSend, roomVars, clientVars
<1>2. /\ inbox[s] \in Seq(Frame) /\ m \in Frame
      /\ inbox'[s] = Append(inbox[s], m)
      /\ \A t \in Session \ {s} : inbox'[t] = inbox[t]
  BY <1>1, Numbers DEF Frame
<1>3. /\ Len(inbox'[s]) = Len(inbox[s]) + 1 /\ Len(inbox[s]) \in Nat
      /\ \A i \in 1 .. Len(inbox[s]) + 1 :
           inbox'[s][i] = IF i = Len(inbox[s]) + 1 THEN m ELSE inbox[s][i]
  BY <1>2, AppendFacts, Numbers
<1>4. \A i \in 1 .. Len(inbox'[s]) : inbox'[s][i] \notin Lines
  <2>1. \A i \in 1 .. Len(inbox[s]) : inbox[s][i] \notin Lines
    BY DEF SystemInv, OthersSayOther
  <2>2. \A n \in Nat : \A i \in 1 .. n + 1 : i # n + 1 => i \in 1 .. n
    OBVIOUS
  <2>3. TAKE i \in 1 .. Len(inbox'[s])
  <2>4. i \in 1 .. Len(inbox[s]) + 1
    BY <1>3
  <2>5. CASE i = Len(inbox[s]) + 1
    BY <1>3, <2>4, <2>5
  <2>6. CASE i # Len(inbox[s]) + 1
    BY <1>3, <2>1, <2>2, <2>4, <2>6, Zenon
  <2>7. QED
    BY <2>5, <2>6
<1>5. OthersSayOther'
  BY <1>2, <1>4 DEF SystemInv, OthersSayOther
<1>6. inbox'[Me] = inbox[Me]
  BY <1>2, Numbers
<1>7. \A n : Heard(n)' = Heard(n)
  BY <1>1 DEF Heard
<1>8. Stream'
  BY <1>1, <1>6, <1>7 DEF SystemInv, Stream
<1>9. RoomHearsInOrder'
  BY <1>1, <1>7 DEF SystemInv, RoomHearsInOrder
<1>10. QED
  BY <1>5, <1>8, <1>9

(* A message is delivered to the room: the conversation is one longer. *)
LEMMA HeardOneMore ==
  ASSUME SystemInv, NEW m \in Msg, log' = Append(log, m)
  PROVE  /\ Len(log') = Len(log) + 1 /\ log'[Len(log) + 1] = m
         /\ \A i \in 1 .. Len(log) : log'[i] = log[i]
         /\ \A n \in 0 .. Len(log) : Heard(n)' = Heard(n)
         /\ Heard(Len(log))' = Heard(Len(log)) \cup ({m} \cap Lines)
<1>1. /\ log \in Seq(Msg) /\ Len(log) \in Nat
      /\ Len(log') = Len(log) + 1 /\ log'[Len(log) + 1] = m
      /\ \A i \in 1 .. Len(log) : log'[i] = log[i]
  BY Numbers, AppendFacts
<1>2. ASSUME NEW n \in 0 .. Len(log) PROVE Heard(n)' = Heard(n)
  <2>1. \A i \in 1 .. n : i \in 1 .. Len(log)
    BY <1>1
  <2>2. QED
    BY <1>1, <2>1 DEF Heard
<1>3. 1 .. Len(log') = (1 .. Len(log)) \cup {Len(log) + 1}
  BY <1>1
<1>4. Heard(Len(log))' = Heard(Len(log)) \cup ({m} \cap Lines)
  <2>1. {log'[i] : i \in 1 .. Len(log')} = {log[i] : i \in 1 .. Len(log)} \cup {m}
    <3>1. Len(log) + 1 \in 1 .. Len(log')
      BY <1>3
    <3>2. ASSUME NEW i \in 1 .. Len(log')
          PROVE  log'[i] \in {log[j] : j \in 1 .. Len(log)} \cup {m}
      BY <1>1, <1>3
    <3>3. ASSUME NEW i \in 1 .. Len(log)
          PROVE  log[i] \in {log'[j] : j \in 1 .. Len(log')}
      BY <1>1, <1>3
    <3>4. m \in {log'[j] : j \in 1 .. Len(log')}
      BY <1>1, <3>1
    <3>5. QED
      BY <3>2, <3>3, <3>4
  <2>2. QED
    BY <2>1 DEF Heard
<1>5. QED
  BY <1>1, <1>2, <1>4

LEMMA BodyReadKeeps ==
  ASSUME SystemInv, NEW s \in Session, BodyRead(s), UNCHANGED clientVars
  PROVE  Stream' /\ OthersSayOther' /\ RoomHearsInOrder'
<1> DEFINE m == Head(inbox[s])
           heard == Len(cWire) - Len(inbox[Me])
<1>1. /\ m \in Msg /\ log' = Append(log, m) /\ cWire' = cWire
      /\ inbox' = [inbox EXCEPT ![s] = Tail(@)] /\ inbox[s] # << >>
      /\ reading[s] = "body" /\ reading' = [reading EXCEPT ![s] = "header"]
  BY DEF BodyRead, Deliver, clientVars
<1>2. /\ inbox[s] \in Seq(Frame) /\ inbox'[s] = Tail(inbox[s])
      /\ \A t \in Session \ {s} : inbox'[t] = inbox[t]
  BY <1>1, Numbers
<1>3. /\ m = inbox[s][1] /\ Len(inbox[s]) \in Nat \ {0}
      /\ Len(inbox'[s]) = Len(inbox[s]) - 1
      /\ \A i \in 1 .. Len(inbox[s]) - 1 : inbox'[s][i] = inbox[s][i + 1]
  <2>1. inbox[s] \in Seq(Frame) /\ inbox[s] # << >>
    BY <1>1, <1>2
  <2>2. QED
    BY <1>2, <2>1, TailFacts
<1>4. /\ Len(log') = Len(log) + 1 /\ log'[Len(log) + 1] = m /\ Len(log) \in Nat
      /\ \A i \in 1 .. Len(log) : log'[i] = log[i]
      /\ \A n \in 0 .. Len(log) : Heard(n)' = Heard(n)
      /\ Heard(Len(log))' = Heard(Len(log)) \cup ({m} \cap Lines)
  <2> HIDE DEF m
  <2>1. QED
    BY <1>1, HeardOneMore, Numbers
<1>5. OthersSayOther'
  <2>1. ASSUME NEW t \in Session \ {Me}, NEW i \in 1 .. Len(inbox'[t])
        PROVE  inbox'[t][i] \notin Lines
    <3>1. CASE t = s
      <4>1. i + 1 \in 1 .. Len(inbox[s]) /\ inbox'[s][i] = inbox[s][i + 1]
        BY <1>3, <3>1
      <4>2. QED
        BY <3>1, <4>1 DEF SystemInv, OthersSayOther
    <3>2. CASE t # s
      BY <1>2, <3>2 DEF SystemInv, OthersSayOther
    <3>3. QED
      BY <3>1, <3>2
  <2>2. QED
    BY <2>1 DEF OthersSayOther
<1>6. ASSUME m \in Lines => /\ m \in 1 .. Len(cWire)
                            /\ Heard(Len(log)) = 1 .. m - 1
      PROVE  RoomHearsInOrder'
  <2> HIDE DEF m
  <2>1. ASSUME NEW i \in 1 .. Len(log'), log'[i] \in Lines
        PROVE  /\ log'[i] \in 1 .. Len(cWire') /\ cWire'[log'[i]] = log'[i]
               /\ Heard(i - 1)' = 1 .. log'[i] - 1
    <3>1. i - 1 \in 0 .. Len(log) /\ (i \in 1 .. Len(log) \/ i = Len(log) + 1)
      BY <1>4
    <3>2. CASE i \in 1 .. Len(log)
      BY <1>1, <1>4, <2>1, <3>1, <3>2 DEF SystemInv, RoomHearsInOrder
    <3>3. CASE i = Len(log) + 1
      <4>1. /\ log'[i] = m /\ m \in 1 .. Len(cWire) /\ Heard(Len(log)) = 1 .. m - 1
        BY <1>4, <1>6, <2>1, <3>3
      <4>2. i - 1 = Len(log)
        BY <1>4, <3>3
      <4>3. QED
        BY <1>1, <1>4, <3>1, <4>1, <4>2, Numbers
    <3>4. QED
      BY <3>1, <3>2, <3>3
  <2>2. QED
    BY <2>1 DEF RoomHearsInOrder
<1>7. CASE s = Me
  <2>1. reading[Me] # "over"
    BY <1>1, <1>7
  <2>2. /\ heard >= 0 /\ Heard(Len(log)) = 1 .. heard
        /\ \A i \in 1 .. Len(inbox[Me]) : inbox[Me][i] = heard + i
    BY <2>1 DEF SystemInv, Stream
  <2> HIDE DEF m
  <2>3. heard \in Nat /\ m = heard + 1 /\ m \in 1 .. Len(cWire) /\ m \in Lines
    <3>1. heard \in Nat /\ Len(cWire) = heard + Len(inbox[Me])
      BY <2>2, Numbers
    <3>2. m = heard + 1
      <4> HIDE DEF heard
      <4>1. 1 \in 1 .. Len(inbox[Me])
        BY <1>3, <1>7
      <4>2. QED
        BY <1>3, <1>7, <2>2, <4>1
    <3>3. m \in 1 .. Len(cWire)
      <4> HIDE DEF heard
      <4>1. QED
        BY <1>3, <1>7, <3>1, <3>2
    <3>4. QED
      <4> HIDE DEF heard
      <4>1. QED
        BY <3>1, <3>2, <3>3, Numbers DEF Lines
  <2>4. RoomHearsInOrder'
    <3>1. m - 1 = heard
      <4> HIDE DEF heard
      <4>1. QED
        BY <2>3
    <3>2. QED
      BY <1>6, <2>2, <2>3, <3>1
  <2>5. Len(cWire') - Len(inbox'[Me]) = heard + 1
    BY <1>1, <1>3, <1>7, Numbers
  <2> HIDE DEF heard
  <2>6. Heard(Len(log))' = 1 .. heard + 1
    <3>1. Heard(Len(log))' = (1 .. heard) \cup {heard + 1}
      BY <1>4, <2>2, <2>3
    <3>2. QED
      BY <2>3, <3>1
  <2>7. \A i \in 1 .. Len(inbox'[Me]) : inbox'[Me][i] = heard + 1 + i
    <3>1. TAKE i \in 1 .. Len(inbox'[Me])
    <3>2. i + 1 \in 1 .. Len(inbox[Me]) /\ inbox'[Me][i] = inbox[Me][i + 1]
      BY <1>3, <1>7
    <3>3. inbox[Me][i + 1] = heard + (i + 1)
      BY <2>2, <3>2
    <3>4. i \in Nat /\ heard \in Nat
      BY <1>3, <1>7, <2>3
    <3>5. heard + (i + 1) = heard + 1 + i
      BY <3>4
    <3>6. QED
      BY <3>2, <3>3, <3>5
  <2>8. Stream'
    <3>1. heard + 1 >= 0
      BY <2>3
    <3>2. QED
      BY <2>5, <2>6, <2>7, <3>1 DEF Stream
  <2>9. QED
    BY <1>5, <2>4, <2>8
<1>8. CASE s # Me
  <2>1. m \notin Lines
    <3>1. 1 \in 1 .. Len(inbox[s])
      BY <1>3
    <3>2. QED
      BY <1>3, <1>8, <3>1 DEF SystemInv, OthersSayOther
  <2>2. RoomHearsInOrder'
    BY <1>6, <2>1
  <2>3. inbox'[Me] = inbox[Me] /\ reading'[Me] = reading[Me]
    BY <1>1, <1>2, <1>8, Numbers DEF SystemInv, IInv, TypeOK
  <2>4. Heard(Len(log))' = Heard(Len(log))
    BY <1>4, <2>1
  <2>5. Stream'
    <3>1. Stream /\ cWire' = cWire
      BY <1>1 DEF SystemInv
    <3>2. QED
      BY <2>3, <2>4, <3>1 DEF Stream
  <2>6. QED
    BY <1>5, <2>2, <2>5
<1>9. QED
  BY <1>7, <1>8

LEMMA RelationNext ==
  ASSUME SystemInv, [SystemNext]_systemVars
  PROVE  Stream' /\ OthersSayOther' /\ RoomHearsInOrder'
<1> USE DEF peerVars, roomVars, writeVars
<1>1. CASE Connects
  BY <1>1, RelationKept DEF Connects, PeerConnect, Client!Reached, Client!AttemptDone
<1>2. CASE LineSent
  BY <1>2, LineSentKeeps
<1>3. CASE MessageSent
  BY <1>3, RelationKept DEF MessageSent, WireWrite, Client!ServerSend, clientVars
<1>4. CASE ClientCloses
  <2>1. UNCHANGED <<log, inbox, reading>>
    BY <1>4 DEF ClientCloses, PeerShutdown, PeerReset, vars
  <2>2. cWire' = cWire
    BY <1>4 DEF ClientCloses, Client!RunClose, Client!ReadFailed, Client!WriteFailed
  <2>3. QED
    BY <2>1, <2>2, RelationKept
<1>5. CASE Breaks
  BY <1>5, RelationKept DEF Breaks, PeerReset, Client!ServerLeave, clientVars
<1>6. CASE Typing
  BY <1>6, RelationKept DEF Typing, Client!TypeLine, Client!EndOfInput, vars
<1>7. CASE ClientAlone
  <2>1. UNCHANGED <<log, inbox, reading>>
    BY <1>7 DEF ClientAlone, vars
  <2>2. cWire' = cWire
    BY <1>7 DEF ClientAlone, Client!JoinThread, Client!RunWrite, Client!Refused, Client!AttemptDone,
      Client!Connect, Client!NextAttempt, Client!ConnectFailed, Client!Connected, Client!HeaderRead,
      Client!BodyRead, Client!WireError, Client!Written, Client!RunReturns
  <2>3. QED
    BY <2>1, <2>2, RelationKept
<1>8. ASSUME NEW s \in Session, UNCHANGED clientVars,
             \/ Accept(s) \/ AcceptFailed(s) \/ HeaderRead(s) \/ HeaderFailed(s) \/ BodyFailed(s)
             \/ WireError(s) \/ Written(s) \/ WriteFailed(s)
      PROVE  Stream' /\ OthersSayOther' /\ RoomHearsInOrder'
  <2>1. log' = log /\ inbox' = inbox /\ cWire' = cWire
    BY <1>8 DEF Accept, AcceptFailed, HeaderRead, HeaderFailed, BodyFailed, WireError, Written,
                WriteFailed, clientVars
  <2>2. reading \in [Session -> {"none", "header", "body", "over"}] /\ Me \in Session
    BY DEF SystemInv, IInv, TypeOK
  <2>3. reading'[Me] # "over" => reading[Me] # "over"
    BY <1>8, <2>2 DEF Accept, AcceptFailed, HeaderRead, HeaderFailed, BodyFailed, WireError,
                      Written, WriteFailed
  <2>4. QED
    BY <2>1, <2>3, RelationKept
<1>9. CASE ServerAlone
  BY <1>8, <1>9, BodyReadKeeps DEF ServerAlone, ReadStep
<1>10. ASSUME NEW s \in Session \ {Me}, Other(s)
       PROVE  Stream' /\ OthersSayOther' /\ RoomHearsInOrder'
  <2>1. CASE PeerConnect(s) \/ PeerReset(s)
    BY <1>10, <2>1, RelationKept DEF Other, PeerConnect, PeerReset, clientVars
  <2>2. CASE \E m \in Msg \ Lines : PeerSend(s, m)
    BY <1>10, <2>2, OtherSaysKeeps DEF Other
  <2>3. QED
    BY <1>10, <2>1, <2>2 DEF Other
<1>11. CASE UNCHANGED systemVars
  BY <1>11, RelationKept DEF systemVars, vars, clientVars
<1>12. QED
  BY <1>1, <1>2, <1>3, <1>4, <1>5, <1>6, <1>7, <1>9, <1>10, <1>11 DEF SystemNext, Progress

LEMMA InitSystem == SystemInit => SystemInv
<1> SUFFICES ASSUME SystemInit PROVE SystemInv
  OBVIOUS
<1>1. IInv /\ Client!IInv
  BY InitInv, ClientInit DEF SystemInit
<1>2. /\ log = << >> /\ cWire = << >> /\ typed = 0 /\ Me \in Session
      /\ inbox = [s \in Session |-> << >>]
  BY DEF SystemInit, Init, Client!Init
<1>3. Len(log) = 0 /\ Len(cWire) = 0 /\ \A s \in Session : Len(inbox[s]) = 0
  BY <1>2, EmptySeq
<1>4. Heard(0) = {}
  BY DEF Heard
<1>5. Stream /\ OthersSayOther /\ RoomHearsInOrder
  BY <1>2, <1>3, <1>4 DEF Stream, OthersSayOther, RoomHearsInOrder
<1>6. QED
  BY <1>1, <1>2, <1>5 DEF SystemInv

LEMMA NextSystem == SystemInv /\ [SystemNext]_systemVars => SystemInv'
<1> SUFFICES ASSUME SystemInv, [SystemNext]_systemVars PROVE SystemInv'
  OBVIOUS
<1>1. [Next]_vars /\ [Client!Next]_(Client!vars)
  BY PartSteps
<1>2. IInv' /\ Client!IInv'
  BY <1>1, NextInv, ClientStep DEF SystemInv
<1>3. typed' <= MaxLines
  BY <1>1, TypedInBound
<1>4. QED
  BY <1>2, <1>3, RelationNext DEF SystemInv

(* The invariant of the server, that of the client and what relates them   *)
(* hold in every reachable state of the two programs together.              *)
THEOREM SystemInvariance == SystemSpec => []SystemInv
<1>1. QED
  BY InitSystem, NextSystem, PTL DEF SystemSpec

(* chat_client.cpp with chat_server.cpp, the kernels between them and any   *)
(* number of other peers: the lines typed into the client are said in the   *)
(* room in order, once each, and without a gap.                             *)
THEOREM LinesReachRoomInOrder == SystemSpec => []RoomHearsInOrder
<1>1. SystemInv => RoomHearsInOrder
  BY DEF SystemInv
<1>2. QED
  BY <1>1, SystemInvariance, PTL

(* The system implements its parts: seen from the server it behaves as      *)
(* ChatServer does, seen from the client as ChatClient does, so that what   *)
(* either promises whatever its environment does, the system promises.      *)
THEOREM SystemImplementsParts ==
  SystemSpec => /\ Init /\ [][Next]_vars
                /\ Client!Init /\ [][Client!Next]_(Client!vars)
<1>1. SystemInit => Init /\ Client!Init
  BY DEF SystemInit
<1>2. SystemInv /\ [SystemNext]_systemVars => [Next]_vars
  BY PartSteps
<1>3. SystemInv /\ [SystemNext]_systemVars => [Client!Next]_(Client!vars)
  BY PartSteps
<1>4. QED
  BY <1>1, <1>2, <1>3, SystemInvariance, PTL DEF SystemSpec

LEMMA PeersHear ==
  ASSUME IInv, RoomHearsInOrder, NEW s \in Session,
         NEW i \in 1 .. Len(wire[s]), NEW j \in 1 .. Len(wire[s]), i < j,
         wire[s][i] \in Lines, wire[s][j] \in Lines
  PROVE  /\ wire[s][i] < wire[s][j]
         /\ \A n \in wire[s][i] .. wire[s][j] : \E k \in i .. j : wire[s][k] = n
<1> DEFINE p == base[s] + i
           q == base[s] + j
<1>1. /\ base[s] \in Nat /\ Len(log) \in Nat /\ Len(wire[s]) \in Nat
      /\ base[s] + Len(wire[s]) <= Len(log)
      /\ \A k \in 1 .. Len(wire[s]) : wire[s][k] = log[base[s] + k]
  <2>1. /\ base[s] \in Nat /\ Len(log) \in Nat /\ Len(wire[s]) \in Nat
        /\ Popped(s) \in Nat /\ Len(writeMsgs[s]) \in Nat
        /\ Len(wire[s]) <= Popped(s) + Len(writeMsgs[s])
    BY ViewNumbers
  <2>2. /\ base[s] + Popped(s) + Len(writeMsgs[s]) <= Len(log)
        /\ \A k \in 1 .. Len(wire[s]) : wire[s][k] = log[base[s] + k]
    BY DEF IInv, ContiguousView, ViewIsSegment, Upto
  <2>3. \A a, b, c, d, e \in Nat : a + b + c <= d /\ e <= b + c => a + e <= d
    OBVIOUS
  <2>4. base[s] + Len(wire[s]) <= Len(log)
    BY <2>1, <2>2, <2>3, Zenon
  <2>5. QED
    BY <2>1, <2>2, <2>4
<1>2. /\ p \in 1 .. Len(log) /\ q \in 1 .. Len(log) /\ p < q
      /\ wire[s][i] = log[p] /\ wire[s][j] = log[q]
  <2>1. p \in 1 .. Len(log) /\ q \in 1 .. Len(log) /\ p < q
    BY <1>1, Offsets
  <2>2. wire[s][i] = log[p] /\ wire[s][j] = log[q]
    BY <1>1, Zenon
  <2>3. QED
    BY <2>1, <2>2
<1> HIDE DEF p, q
<1>3. /\ log[p] \in Nat /\ log[q] \in Nat
      /\ Heard(p - 1) = 1 .. log[p] - 1 /\ Heard(q - 1) = 1 .. log[q] - 1
  <2>1. log[p] \in Lines /\ log[q] \in Lines
    BY <1>2
  <2>2. Heard(p - 1) = 1 .. log[p] - 1 /\ Heard(q - 1) = 1 .. log[q] - 1
    BY <1>2, <2>1, Zenon DEF RoomHearsInOrder
  <2>3. QED
    BY <2>1, <2>2 DEF Lines
<1>4. log[p] < log[q]
  <2>1. p \in 1 .. q - 1
    BY <1>2
  <2>2. log[p] \in Heard(q - 1)
    BY <1>2, <2>1 DEF Heard
  <2>3. QED
    BY <1>3, <2>2
<1>5. ASSUME NEW n \in log[p] .. log[q] PROVE \E k \in i .. j : wire[s][k] = n
  <2>1. CASE n = log[p]
    BY <1>1, <1>2, <2>1
  <2>2. CASE n = log[q]
    BY <1>1, <1>2, <2>2
  <2>3. CASE n # log[p] /\ n # log[q]
    <3>1. n \in Heard(q - 1) /\ n \notin Heard(p - 1)
      BY <1>3, <2>3
    <3>2. PICK k \in 1 .. q - 1 : log[k] = n
      BY <3>1 DEF Heard
    <3>3. n \in Lines
      BY <3>1 DEF Heard
    <3>4. ~ (k \in 1 .. p - 1)
      BY <3>1, <3>2, <3>3 DEF Heard
    <3>5. k # p
      BY <2>3, <3>2
    <3>6. p < k /\ k < q
      BY <1>2, <3>2, <3>4, <3>5
    <3>7. k - base[s] \in i .. j /\ k - base[s] \in 1 .. Len(wire[s])
          /\ base[s] + (k - base[s]) = k
      <4>1. k \in Nat
        BY <3>2
      <4>2. base[s] + i < k /\ k < base[s] + j
        BY <3>6, Zenon DEF p, q
      <4>3. base[s] \in Nat /\ Len(wire[s]) \in Nat
        BY <1>1, Zenon
      <4>4. QED
        BY <4>1, <4>2, <4>3, Between
    <3>8. wire[s][k - base[s]] = n
      BY <1>1, <3>2, <3>7
    <3>9. QED
      BY <3>7, <3>8
  <2>4. QED
    BY <2>1, <2>2, <2>3
<1>6. QED
  BY <1>2, <1>4, <1>5

(* From the keyboard of one client to the socket of every other: whoever is *)
(* in the room is sent the client's lines in order, each once, and none is  *)
(* left out between two of them - through both programs' queues, whoever    *)
(* else talks, comes, goes or breaks.                                       *)
THEOREM LinesReachPeersInOrder == SystemSpec => []PeersHearInOrder
<1>1. SystemInv => PeersHearInOrder
  BY PeersHear DEF SystemInv, PeersHearInOrder
<1>2. QED
  BY <1>1, SystemInvariance, PTL

(* The system implements the abstract room as well. *)
THEOREM SystemImplementsRoom == SystemSpec => ImplementsRoom
<1>1. SystemInit => Room!Init
  BY InitRoom DEF SystemInit
<1>2. SystemInv /\ [SystemNext]_systemVars => [Room!Next]_(Room!roomVars)
  BY PartSteps, NextRoom DEF SystemInv
<1>3. QED
  BY <1>1, <1>2, SystemInvariance, PTL DEF SystemSpec, ImplementsRoom, Room!Spec

-----------------------------------------------------------------------------
(* When the two programs rest, nothing is on the way between them.          *)

(* The session of the client reads nothing but the client's lines.          *)
LEMMA InboxIsLines ==
  ASSUME SystemInv, reading[Me] # "over", NEW i \in 1 .. Len(inbox[Me])
  PROVE  inbox[Me][i] \in Lines
<1>1. /\ Len(cWire) \in Nat /\ Len(inbox[Me]) \in Nat
      /\ Len(cWire) <= MaxLines /\ MaxLines \in Nat
  BY Numbers
<1>2. /\ Len(cWire) - Len(inbox[Me]) >= 0
      /\ inbox[Me][i] = (Len(cWire) - Len(inbox[Me])) + i
  BY DEF SystemInv, Stream
<1>3. QED
  BY <1>1, <1>2 DEF Lines

(* Steps that take the socket from nothing to nothing, or leave the ends of *)
(* the connection as they are.                                              *)
LEMMA LinkedSame ==
  ASSUME Linked, responsive' = responsive, conn'[Me] = conn[Me], sock' = sock,
         cPeer = "reset" => cPeer' = "reset",
         reading'[Me] = "over" => reading[Me] = "over"
  PROVE  Linked'
BY DEF Linked

(* What the session does with its end of the connection.                    *)
LEMMA SessionLinked ==
  ASSUME SystemInv, Linked, UNCHANGED clientVars, NEW s \in Session,
         \/ Accept(s) \/ AcceptFailed(s) \/ ReadStep(s)
         \/ WireWrite(s) \/ WireError(s) \/ Written(s) \/ WriteFailed(s)
  PROVE  Linked'
<1>0. /\ Me \in Session
      /\ reading \in [Session -> {"none", "header", "body", "over"}]
      /\ inbox[Me] \in Seq(Frame)
  BY DEF SystemInv, IInv, TypeOK
<1>1. responsive' = responsive /\ sock' = sock /\ cPeer' = cPeer
  BY DEF clientVars
<1>2. conn' = conn
  BY DEF Accept, AcceptFailed, ReadStep, HeaderRead, HeaderFailed, BodyRead, BodyFailed,
         WireWrite, WireError, Written, WriteFailed, peerVars
<1>3. CASE Accept(s) \/ HeaderRead(s) \/ BodyRead(s)
  <2>1. \E w \in {"header", "body"} : reading' = [reading EXCEPT ![s] = w]
    BY <1>3 DEF Accept, HeaderRead, BodyRead
  <2>2. reading'[Me] = "over" => reading[Me] = "over"
    BY <1>0, <2>1
  <2>3. QED
    BY <1>1, <1>2, <2>2, LinkedSame
<1>4. CASE WireWrite(s) \/ WireError(s) \/ Written(s) \/ WriteFailed(s)
  <2>1. reading' = reading
    BY <1>4 DEF WireWrite, WireError, Written, WriteFailed
  <2>2. QED
    BY <1>1, <1>2, <2>1, LinkedSame
<1>5. CASE AcceptFailed(s) \/ HeaderFailed(s) \/ BodyFailed(s)
  <2>1. reading' = [reading EXCEPT ![s] = "over"]
    BY <1>5 DEF AcceptFailed, HeaderFailed, BodyFailed
  <2>2. CASE s # Me
    <3>1. reading'[Me] = reading[Me]
      BY <1>0, <2>1, <2>2
    <3>2. QED
      BY <1>1, <1>2, <3>1, LinkedSame
  <2>3. CASE s = Me
    <3>1. conn[Me] \in {"half", "reset"}
      <4>1. CASE AcceptFailed(s) \/ BodyFailed(s)
        BY <2>3, <4>1 DEF AcceptFailed, BodyFailed
      <4>2. CASE HeaderFailed(s)
        <5>1. /\ reading[Me] = "header"
              /\ \/ conn[Me] \in {"half", "reset"}
                 \/ inbox[Me] # << >> /\ Head(inbox[Me]) = BadHeader
          BY <2>3, <4>2 DEF HeaderFailed
        <5>2. ASSUME inbox[Me] # << >> PROVE Head(inbox[Me]) # BadHeader
          <6>1. 1 \in 1 .. Len(inbox[Me]) /\ Head(inbox[Me]) = inbox[Me][1]
            BY <1>0, <5>2, TailFacts
          <6>2. Head(inbox[Me]) \in Lines
            BY <5>1, <6>1, InboxIsLines
          <6>3. QED
            BY <6>2
        <5>3. QED
          BY <5>1, <5>2
      <4>3. QED
        BY <1>5, <4>1, <4>2
    <3>2. QED
      BY <1>1, <1>2, <3>1 DEF Linked
  <2>4. QED
    BY <2>2, <2>3
<1>6. QED
  BY <1>3, <1>4, <1>5 DEF ReadStep

LEMMA LinkedStep ==
  ASSUME SystemInv, Client!SocketFollows, Linked, [SystemNext]_systemVars
  PROVE  Linked'
<1>0. /\ Me \in Session /\ conn \in [Session -> {"absent", "up", "half", "reset"}]
      /\ sock \in {"connecting", "connected", "failed", "closed"}
  BY DEF SystemInv, IInv, TypeOK, Client!IInv, Client!TypeOK
<1>1. CASE Connects
  <2>1. /\ conn' = [conn EXCEPT ![Me] = "up"] /\ reading' = reading /\ conn[Me] = "absent"
        /\ sock' = "connected" /\ responsive' = responsive
    BY <1>1 DEF Connects, PeerConnect, Client!Reached, Client!AttemptDone, Client!serverVars
  <2>2. conn'[Me] = "up"
    BY <1>0, <2>1
  <2>3. QED
    BY <2>1, <2>2 DEF Linked
<1>2. CASE LineSent
  <2>1. UNCHANGED <<conn, reading>>
    BY <1>2 DEF LineSent, PeerSend, vars, peerVars
  <2>2. UNCHANGED <<responsive, sock, cPeer>>
    BY <1>2 DEF LineSent, Client!WireWrite, Client!serverVars
  <2>3. QED
    BY <2>1, <2>2, LinkedSame
<1>3. CASE MessageSent
  <2>1. UNCHANGED <<conn, reading>>
    BY <1>3 DEF MessageSent, WireWrite, peerVars
  <2>2. UNCHANGED <<responsive, sock, cPeer>>
    BY <1>3 DEF MessageSent, Client!ServerSend, clientVars
  <2>3. QED
    BY <2>1, <2>2, LinkedSame
<1>4. CASE ClientCloses
  <2>1. sock' = "closed" /\ responsive' = responsive
    BY <1>4 DEF ClientCloses, Client!RunClose, Client!ReadFailed, Client!WriteFailed,
                Client!serverVars
  <2>2. reading' = reading /\ (conn' = conn \/ \E w \in {"half", "reset"} :
                                                 conn' = [conn EXCEPT ![Me] = w])
    BY <1>4 DEF ClientCloses, PeerShutdown, PeerReset, vars, peerVars
  <2>3. conn'[Me] = conn[Me] \/ conn'[Me] \in {"half", "reset"}
    BY <1>0, <2>2
  <2>4. QED
    BY <2>1, <2>2, <2>3 DEF Linked
<1>5. CASE Breaks
  <2>1. conn[Me] # "absent" /\ conn' = [conn EXCEPT ![Me] = "reset"] /\ reading' = reading
    BY <1>5 DEF Breaks, PeerReset
  <2>2. conn'[Me] = "reset"
    BY <1>0, <2>1
  <2>3. UNCHANGED <<responsive, sock>> /\ (sock = "connected" => cPeer' = "reset")
    BY <1>5 DEF Breaks, Client!ServerLeave, clientVars
  <2>4. sock \in {"connected", "closed"}
    BY <1>0, <2>1 DEF Linked
  <2>5. QED
    BY <2>1, <2>2, <2>3, <2>4 DEF Linked
<1>6. CASE Typing
  <2>1. UNCHANGED <<conn, reading, responsive, sock, cPeer>>
    BY <1>6 DEF Typing, Client!TypeLine, Client!EndOfInput, Client!serverVars, vars, peerVars
  <2>2. QED
    BY <2>1, LinkedSame
<1>7. CASE ClientAlone
  <2>1. UNCHANGED <<conn, reading>>
    BY <1>7 DEF ClientAlone, vars, peerVars
  <2>2. CASE Client!Refused \/ Client!NextAttempt
    <3>1. /\ sock \in {"connecting", "failed"} /\ sock' \in {"connecting", "failed"}
          /\ UNCHANGED <<responsive, cPeer>>
      <4>1. CASE Client!Refused
        BY <4>1 DEF Client!Refused, Client!AttemptDone, Client!serverVars
      <4>2. CASE Client!NextAttempt
        BY <4>2 DEF Client!NextAttempt, Client!serverVars, Client!SocketFollows
      <4>3. QED
        BY <2>2, <4>1, <4>2
    <3>2. QED
      BY <2>1, <3>1 DEF Linked
  <2>3. CASE ~ (Client!Refused \/ Client!NextAttempt)
    <3>1. UNCHANGED <<responsive, sock, cPeer>>
      BY <1>7, <2>3 DEF ClientAlone, Client!JoinThread, Client!RunWrite, Client!Connect,
        Client!ConnectFailed, Client!Connected, Client!HeaderRead, Client!BodyRead,
        Client!WireError, Client!Written, Client!RunReturns, Client!serverVars
    <3>2. QED
      BY <2>1, <3>1, LinkedSame
  <2>4. QED
    BY <2>2, <2>3
<1>8. CASE ServerAlone
  BY <1>8, SessionLinked DEF ServerAlone
<1>9. ASSUME NEW s \in Session \ {Me}, Other(s) PROVE Linked'
  <2>1. reading' = reading /\ (conn' = conn \/ \E w : conn' = [conn EXCEPT ![s] = w])
    BY <1>9 DEF Other, PeerConnect, PeerReset, PeerSend
  <2>2. conn'[Me] = conn[Me]
    BY <1>0, <2>1
  <2>3. UNCHANGED <<responsive, sock, cPeer>>
    BY <1>9 DEF Other, clientVars
  <2>4. QED
    BY <2>1, <2>2, <2>3, LinkedSame
<1>10. CASE UNCHANGED systemVars
  BY <1>10, LinkedSame DEF systemVars, vars, clientVars, peerVars
<1>11. QED
  BY <1>1, <1>2, <1>3, <1>4, <1>5, <1>6, <1>7, <1>8, <1>9, <1>10 DEF SystemNext, Progress

(* As for the invariants: the two copies of the client say the same.        *)
LEMMA FollowsSame == Client!SocketFollows <=> ClientProofs!SocketFollows
  BY DEF Client!SocketFollows, Client!Close, ClientProofs!SocketFollows, ClientProofs!Close

LEMMA FollowsSamePrimed == Client!SocketFollows' <=> ClientProofs!SocketFollows'
  BY DEF Client!SocketFollows, Client!Close, ClientProofs!SocketFollows, ClientProofs!Close

LEMMA ClientRestSame == Client!Rests <=> ClientProofs!Rests
  BY DEF Client!Rests, Client!OutOfWork, ClientProofs!Rests, ClientProofs!OutOfWork

LEMMA ClientRestIsDone ==
  ASSUME Client!IInv, Client!SocketFollows, Client!Rests
  PROVE  /\ main # "joining"
         /\ running =>
              /\ sock = "connected" /\ cPeer = "up"
              /\ cInbox = << >> \/ (cReading = "body" /\ Head(cInbox) = "short")
              /\ responsive => Len(cWire) = typed
<1>1. ClientProofs!RestsWhenDone
  BY ClientInvSame, FollowsSame, ClientRestSame, ClientProofs!RestIsDone
<1>2. ClientProofs!Rests
  BY ClientRestSame
<1>3. QED
  BY <1>1, <1>2 DEF ClientProofs!RestsWhenDone

LEMMA FollowsInit == Client!Init => Client!SocketFollows
  BY DEF Client!Init, Client!SocketFollows

LEMMA FollowsStep ==
  ASSUME Client!IInv, Client!SocketFollows, [Client!Next]_(Client!vars)
  PROVE  Client!SocketFollows'
<1>1. UNCHANGED Client!vars => UNCHANGED ClientProofs!vars
  BY DEF Client!vars, ClientProofs!vars, Client!mainVars, Client!connectVars, Client!writeVars,
    Client!serverVars, ClientProofs!mainVars, ClientProofs!connectVars,
    ClientProofs!writeVars, ClientProofs!serverVars
<1>2. [ClientProofs!Next]_(ClientProofs!vars)
  BY <1>1, ClientSteps
<1>3. ClientProofs!IInv /\ ClientProofs!SocketFollows
  BY ClientInvSame, FollowsSame
<1>4. ClientProofs!SocketFollows'
  BY <1>2, <1>3, ClientProofs!SocketFollowsStep
<1>5. QED
  BY <1>4, FollowsSamePrimed

(* The client is sent whole messages, and takes them from the front. *)
LEMMA WholeStep == ASSUME SystemInv, Whole, [SystemNext]_systemVars PROVE Whole'
<1>0. cInbox \in Seq(Client!Frame) /\ (cReading = "body" => cInbox # << >>)
  BY DEF SystemInv, Client!IInv, Client!TypeOK
<1>1. \/ cInbox' = cInbox
      \/ cInbox' = Append(cInbox, "msg")
      \/ cReading = "body" /\ cInbox' = Tail(cInbox)
  <2>1. CASE Connects \/ LineSent \/ MessageSent \/ Typing \/ Breaks \/ ClientCloses
    BY <2>1 DEF Connects, LineSent, MessageSent, Typing, Breaks, ClientCloses, clientVars,
      Client!serverVars, Client!Reached, Client!AttemptDone, Client!WireWrite, Client!ServerSend,
      Client!TypeLine, Client!EndOfInput, Client!ServerLeave, Client!RunClose,
      Client!ReadFailed, Client!WriteFailed
  <2>2. CASE ClientAlone
    BY <2>2 DEF ClientAlone, Client!serverVars, Client!JoinThread, Client!RunWrite,
      Client!Refused, Client!AttemptDone, Client!Connect, Client!NextAttempt,
      Client!ConnectFailed, Client!Connected, Client!HeaderRead, Client!BodyRead,
      Client!WireError, Client!Written, Client!RunReturns
  <2>3. CASE ServerAlone \/ (\E s \in Session \ {Me} : Other(s)) \/ UNCHANGED systemVars
    BY <2>3 DEF ServerAlone, Other, systemVars, clientVars
  <2>4. QED
    BY <2>1, <2>2, <2>3 DEF SystemNext, Progress
<1>2. CASE cInbox' = cInbox
  BY <1>2 DEF Whole
<1>3. CASE cInbox' = Append(cInbox, "msg")
  <2>1. "msg" \in Client!Frame
    BY DEF Client!Frame
  <2>2. /\ Len(cInbox') = Len(cInbox) + 1 /\ Len(cInbox) \in Nat
        /\ \A i \in 1 .. Len(cInbox) + 1 :
             cInbox'[i] = IF i = Len(cInbox) + 1 THEN "msg" ELSE cInbox[i]
    BY <1>0, <1>3, <2>1, AppendFacts, EmptyFacts
  <2>3. QED
    BY <2>2 DEF Whole
<1>4. CASE cReading = "body" /\ cInbox' = Tail(cInbox)
  <2>1. /\ Len(cInbox') = Len(cInbox) - 1 /\ Len(cInbox) \in Nat
        /\ \A i \in 1 .. Len(cInbox) - 1 : cInbox'[i] = cInbox[i + 1]
    BY <1>0, <1>4, TailFacts
  <2>2. QED
    BY <2>1 DEF Whole
<1>5. QED
  BY <1>1, <1>2, <1>3, <1>4

LEMMA SystemRestIsDone ==
  ASSUME SystemInv, ServerOwes, Client!SocketFollows, Linked, Whole
  PROVE  NothingOnTheWay
<1> SUFFICES ASSUME SystemRests
             PROVE  /\ main # "joining"
                    /\ running =>
                         /\ \A n \in 1 .. typed : \E i \in 1 .. Len(log) : log[i] = n
                         /\ Me \in participants
                         /\ base[Me] + Len(wire[Me]) = Len(log) /\ cInbox = << >>
  BY DEF NothingOnTheWay
<1>1. RestsWhenDone /\ ServerRests
  BY RestIsDone DEF SystemInv, SystemRests
<1>2. /\ main # "joining"
      /\ running => /\ sock = "connected" /\ cPeer = "up" /\ cInbox = << >>
                    /\ responsive => Len(cWire) = typed
  <2>1. /\ cInbox \in Seq(Client!Frame)
        /\ cReading = "body" => cInbox # << >>
    BY DEF SystemInv, Client!IInv, Client!TypeOK
  <2>2. cReading = "body" => Head(cInbox) = "msg"
    <3>1. cInbox # << >> => 1 \in 1 .. Len(cInbox) /\ Head(cInbox) = cInbox[1]
      BY <2>1, TailFacts
    <3>2. QED
      BY <2>1, <3>1 DEF Whole
  <2>3. QED
    BY <2>2, ClientRestIsDone DEF SystemInv, SystemRests
<1>3. ASSUME running
      PROVE  /\ \A n \in 1 .. typed : \E i \in 1 .. Len(log) : log[i] = n
             /\ Me \in participants
             /\ base[Me] + Len(wire[Me]) = Len(log)
  <2>1. Len(cWire) = typed /\ sock = "connected" /\ cPeer = "up"
    BY <1>2, <1>3 DEF Linked
  <2>2. conn[Me] \notin {"absent", "half", "reset"} /\ reading[Me] # "over"
    BY <2>1 DEF Linked
  <2>3. /\ Me \in Session /\ Me \in Responsive
        /\ reading[Me] \in {"none", "header", "body", "over"}
        /\ conn[Me] \in {"absent", "up", "half", "reset"}
    BY DEF SystemInv, IInv, TypeOK
  <2>4. reading[Me] \in {"header", "body"}
    BY <1>1, <2>2, <2>3 DEF RestsWhenDone
  <2>5. /\ Me \in participants /\ base[Me] + Len(wire[Me]) = Len(log)
        /\ \A i \in 1 .. Len(inbox[Me]) : inbox[Me][i] \notin Msg
    BY <1>1, <2>3, <2>4 DEF RestsWhenDone
  <2>6. \A i \in 1 .. Len(inbox[Me]) : FALSE
    BY <2>2, <2>5, InboxIsLines
  <2>7. Len(inbox[Me]) = 0
    BY <2>3, <2>6, Numbers
  <2>8. Heard(Len(log)) = 1 .. typed
    BY <2>1, <2>2, <2>7, Numbers DEF SystemInv, Stream
  <2>9. QED
    BY <2>5, <2>8 DEF Heard
<1>4. QED
  BY <1>2, <1>3

(* The two programs and the connection between them lose nothing to a       *)
(* forgotten wake-up: when nothing moves any more, the client does not hang *)
(* in join(), and while it is in its conversation every line typed was said *)
(* in the room, and all that was said there since it joined has been read.  *)
THEOREM SystemForgetsNothing == SystemSpec => []NothingOnTheWay
<1>1. SystemInit => ServerOwes /\ Client!SocketFollows /\ Linked /\ Whole
  <2> SUFFICES ASSUME SystemInit PROVE ServerOwes /\ Client!SocketFollows /\ Linked /\ Whole
    OBVIOUS
  <2>1. ServerOwes /\ Client!SocketFollows
    BY OwesInit, FollowsInit DEF SystemInit
  <2>2. responsive /\ sock = "connecting"
    BY DEF SystemInit, Client!Init
  <2>3. Me \in Session /\ conn[Me] = "absent" /\ reading[Me] = "none"
    BY DEF SystemInit, Init
  <2>4. Whole
    BY EmptySeq DEF SystemInit, Client!Init, Whole
  <2>5. QED
    BY <2>1, <2>2, <2>3, <2>4 DEF Linked
<1>2. SystemInv /\ ServerOwes /\ Client!SocketFollows /\ Linked /\ Whole
        /\ [SystemNext]_systemVars
        => ServerOwes' /\ Client!SocketFollows' /\ Linked' /\ Whole'
  <2> SUFFICES ASSUME SystemInv, ServerOwes, Client!SocketFollows, Linked, Whole,
                      [SystemNext]_systemVars
               PROVE  ServerOwes' /\ Client!SocketFollows' /\ Linked' /\ Whole'
    OBVIOUS
  <2>1. [Next]_vars /\ [Client!Next]_(Client!vars) /\ IInv /\ Client!IInv
    BY PartSteps DEF SystemInv
  <2>2. ServerOwes'
    BY <2>1, ServerOwesStep
  <2>3. Client!SocketFollows'
    BY <2>1, FollowsStep
  <2>4. QED
    BY <2>2, <2>3, LinkedStep, WholeStep
<1>3. SystemInv /\ ServerOwes /\ Client!SocketFollows /\ Linked /\ Whole => NothingOnTheWay
  BY SystemRestIsDone
<1>4. QED
  BY SystemInvariance, <1>1, <1>2, <1>3, PTL DEF SystemSpec

=============================================================================
