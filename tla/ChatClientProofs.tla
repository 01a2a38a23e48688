----------------------------- MODULE ChatClientProofs -----------------------------
(***************************************************************************)
(* The safety properties of ChatClient for any number of endpoints, lines  *)
(* and frames.                                                             *)
(***************************************************************************)
EXTENDS ChatClient, TLAPS

-----------------------------------------------------------------------------
(* Sequences *)

LEMMA AppendFacts ==
  ASSUME NEW q \in Seq(Nat), NEW x \in Nat
  PROVE  /\ Append(q, x) \in Seq(Nat) /\ Len(Append(q, x)) = Len(q) + 1 /\ Len(q) \in Nat
         /\ \A i \in 1 .. Len(q) + 1 : Append(q, x)[i] = IF i <= Len(q) THEN q[i] ELSE x
  OBVIOUS

LEMMA TailFacts ==
  ASSUME NEW q \in Seq(Nat), q # << >>
  PROVE  /\ Tail(q) \in Seq(Nat) /\ Len(Tail(q)) = Len(q) - 1 /\ Len(q) \in Nat \ {0}
         /\ \A i \in 1 .. Len(q) - 1 : Tail(q)[i] = q[i + 1]
         /\ Head(q) = q[1] /\ Head(q) \in Nat
  OBVIOUS

LEMMA ConcatFacts ==
  ASSUME NEW q \in Seq(Nat), NEW r \in Seq(Nat)
  PROVE  /\ q \o r \in Seq(Nat) /\ Len(q \o r) = Len(q) + Len(r)
         /\ \A i \in 1 .. Len(q) + Len(r) :
              (q \o r)[i] = IF i <= Len(q) THEN q[i] ELSE r[i - Len(q)]
  OBVIOUS

LEMMA SubSeqFacts ==
  ASSUME NEW q \in Seq(Nat), NEW n \in 0 .. Len(q)
  PROVE  /\ SubSeq(q, 1, n) \in Seq(Nat) /\ Len(SubSeq(q, 1, n)) = n
         /\ \A i \in 1 .. n : SubSeq(q, 1, n)[i] = q[i]
  OBVIOUS

LEMMA Counting ==
  ASSUME NEW q \in Seq(Nat), \A i \in 1 .. Len(q) : q[i] = i
  PROVE  q = [i \in 1 .. Len(q) |-> i]
  OBVIOUS

-----------------------------------------------------------------------------
(* What the parts of the invariant depend on *)

LEMMA PlacesUnchanged ==
  ASSUME Places, UNCHANGED <<main, typed, posted, writeMsgs, wire>>,
         writing # "done", writing' # "done", writing' = "pending" => writeMsgs # << >>
  PROVE  Places'
<1>1. Popped' = Popped /\ Taken' = Taken BY DEF Popped, Taken
<1>2. QED BY <1>1 DEF Places

LEMMA PlacesSame ==
  ASSUME Places, UNCHANGED <<main, typed, posted, writeMsgs, wire, writing>>
  PROVE  Places'
<1>1. Popped' = Popped /\ Taken' = Taken BY DEF Popped, Taken
<1>2. QED BY <1>1 DEF Places

LEMMA QuietSame ==
  ASSUME QuietSocket, QuietUserTriesAll, UNCHANGED <<main, typed, writing, sock, reading, connect, endpoint>>
  PROVE  QuietSocket' /\ QuietUserTriesAll'
  BY DEF QuietSocket, QuietUserTriesAll

(* Once a line was typed or the input has ended, the user is not quiet. *)
LEMMA NotQuiet ==
  ASSUME IInv, typed > 0 \/ main # "typing", typed' >= typed, typed' \in Nat,
         main # "typing" => main' # "typing",
         connect' # "over" => reading' = "none"
  PROVE  QuietSocket' /\ QuietUserTriesAll'
<1>1. typed' > 0 \/ main' # "typing" BY DEF IInv, TypeOK
<1>2. QED BY <1>1 DEF QuietSocket, QuietUserTriesAll

(* A line in _write_msgs, a posted one, or a write was typed. *)
LEMMA Busy ==
  ASSUME IInv, writing # "idle" \/ posted # << >>
  PROVE  typed > 0 \/ main # "typing"
<1>1. CASE writing # "idle" BY <1>1 DEF IInv, QuietSocket, TypeOK
<1>2. CASE posted # << >>
  <2>1. Len(posted) > 0 /\ Len(posted) \in Nat /\ Taken \in Nat
    BY <1>2 DEF IInv, TypeOK, Places, Taken
  <2>2. main = "typing" => Len(posted) = typed - Taken BY DEF IInv, Places
  <2>3. QED BY <2>1, <2>2 DEF IInv, TypeOK
<1>3. QED BY <1>1, <1>2

(* The client starts with its first attempt to connect outstanding, and     *)
(* nothing typed, posted or written (chat_client::chat_client).             *)
THEOREM InitInv == Init => IInv
<1> SUFFICES ASSUME Init PROVE IInv OBVIOUS
<1>1. TypeOK BY ClientAssumption DEF Init, TypeOK, Frame
<1>2. Places
  <2>1. /\ posted = << >> /\ writeMsgs = << >> /\ wire = << >> /\ typed = 0 /\ writing = "idle"
    BY DEF Init
  <2>2. Popped = 0 /\ Taken = 0 BY <2>1 DEF Popped, Taken
  <2>3. QED BY <2>1, <2>2 DEF Places
<1>3. QuietSocket /\ QuietUserTriesAll BY DEF Init, QuietSocket, QuietUserTriesAll
<1>4. QED BY <1>1, <1>2, <1>3 DEF IInv

-----------------------------------------------------------------------------
(* The main thread *)

LEMMA TypeLineInv == ASSUME IInv, TypeLine PROVE IInv'
<1>1. /\ main = "typing" /\ typed' = typed + 1 /\ posted' = Append(posted, typed + 1)
      /\ UNCHANGED <<main, running, endpoint, connect, sock, reading, writeMsgs, writing, responsive,
                     peer, inbox, frames, wire>>
  BY DEF TypeLine, connectVars, writeVars, serverVars
<1>2. typed \in Nat /\ posted \in Seq(Nat) /\ typed + 1 \in Nat BY DEF IInv, TypeOK
<1>3. /\ posted' \in Seq(Nat) /\ Len(posted') = Len(posted) + 1 /\ Len(posted) \in Nat
      /\ \A i \in 1 .. Len(posted) + 1 : posted'[i] = IF i <= Len(posted) THEN posted[i] ELSE typed + 1
  BY <1>1, <1>2, AppendFacts
<1>4. TypeOK' BY <1>1, <1>2, <1>3 DEF IInv, TypeOK
<1>5. Places'
  <2>1. Popped' = Popped /\ Taken' = Taken BY <1>1 DEF Popped, Taken
  <2>2. Taken \in Nat /\ Len(posted) = typed - Taken /\ Taken <= typed
    BY <1>1 DEF IInv, TypeOK, Places, Taken
  <2>3. \A i \in 1 .. Len(posted') : posted'[i] = IF Taken + i <= typed' THEN Taken + i ELSE Close
    <3>1. TAKE i \in 1 .. Len(posted')
    <3>2. CASE i <= Len(posted)
      <4>1. posted[i] = Taken + i BY <1>2, <1>3, <2>2, <3>2 DEF IInv, Places
      <4>2. QED BY <1>1, <1>2, <1>3, <2>2, <3>2, <4>1
    <3>3. CASE i = Len(posted) + 1
      BY <1>1, <1>2, <1>3, <2>2, <3>3
    <3>4. QED BY <1>3, <3>2, <3>3
  <2>4. Len(posted') = typed' - Taken BY <1>1, <1>2, <1>3, <2>2
  <2>5. QED BY <1>1, <1>2, <2>1, <2>2, <2>3, <2>4 DEF IInv, Places
<1>6. QuietSocket' /\ QuietUserTriesAll'
  BY <1>1, <1>2 DEF IInv, QuietSocket, QuietUserTriesAll
<1>7. QED BY <1>4, <1>5, <1>6 DEF IInv

LEMMA EndOfInputInv == ASSUME IInv, EndOfInput PROVE IInv'
<1>1. /\ main = "typing" /\ main' = "joining" /\ posted' = Append(posted, Close)
      /\ UNCHANGED <<typed, running, endpoint, connect, sock, reading, writeMsgs, writing, responsive,
                     peer, inbox, frames, wire>>
  BY DEF EndOfInput, connectVars, writeVars, serverVars
<1>2. typed \in Nat /\ posted \in Seq(Nat) /\ Close \in Nat BY DEF IInv, TypeOK, Close
<1>3. /\ posted' \in Seq(Nat) /\ Len(posted') = Len(posted) + 1 /\ Len(posted) \in Nat
      /\ \A i \in 1 .. Len(posted) + 1 : posted'[i] = IF i <= Len(posted) THEN posted[i] ELSE Close
  BY <1>1, <1>2, AppendFacts
<1>4. TypeOK' BY <1>1, <1>3 DEF IInv, TypeOK
<1>5. Places'
  <2>1. Popped' = Popped /\ Taken' = Taken BY <1>1 DEF Popped, Taken
  <2>2. Taken \in Nat /\ Len(posted) = typed - Taken /\ Taken <= typed
    BY <1>1 DEF IInv, TypeOK, Places, Taken
  <2>3. \A i \in 1 .. Len(posted') : posted'[i] = IF Taken + i <= typed' THEN Taken + i ELSE Close
    <3>1. TAKE i \in 1 .. Len(posted')
    <3>2. CASE i <= Len(posted)
      <4>1. posted[i] = Taken + i BY <1>2, <1>3, <2>2, <3>2 DEF IInv, Places
      <4>2. QED BY <1>1, <1>2, <1>3, <2>2, <3>2, <4>1
    <3>3. CASE i = Len(posted) + 1
      BY <1>1, <1>2, <1>3, <2>2, <3>3
    <3>4. QED BY <1>3, <3>2, <3>3
  <2>4. Len(posted') = typed' + 1 - Taken BY <1>1, <1>2, <1>3, <2>2
  <2>5. QED BY <1>1, <1>2, <2>1, <2>2, <2>3, <2>4 DEF IInv, Places
<1>6. QuietSocket' /\ QuietUserTriesAll'
  BY <1>1 DEF IInv, QuietSocket, QuietUserTriesAll
<1>7. QED BY <1>4, <1>5, <1>6 DEF IInv

-----------------------------------------------------------------------------
(* The posted functions *)

LEMMA RunWriteInv == ASSUME IInv, RunWrite PROVE IInv'
<1>1. /\ posted # << >> /\ Head(posted) # Close /\ posted' = Tail(posted)
      /\ writeMsgs' = Append(writeMsgs, Head(posted))
      /\ writing' = IF writeMsgs = << >> THEN "pending" ELSE writing
      /\ UNCHANGED <<main, typed, running, endpoint, connect, sock, reading, responsive,
                     peer, inbox, frames, wire>>
  BY DEF RunWrite, mainVars, connectVars, serverVars
<1>2. /\ posted' \in Seq(Nat) /\ Len(posted') = Len(posted) - 1 /\ Len(posted) \in Nat \ {0}
      /\ \A i \in 1 .. Len(posted) - 1 : posted'[i] = posted[i + 1]
      /\ Head(posted) = posted[1] /\ Head(posted) \in Nat
  BY <1>1, TailFacts DEF IInv, TypeOK
<1>3. /\ writeMsgs' \in Seq(Nat) /\ Len(writeMsgs') = Len(writeMsgs) + 1 /\ Len(writeMsgs) \in Nat
      /\ \A i \in 1 .. Len(writeMsgs) + 1 :
           writeMsgs'[i] = IF i <= Len(writeMsgs) THEN writeMsgs[i] ELSE Head(posted)
  BY <1>1, <1>2, AppendFacts DEF IInv, TypeOK
<1>4. typed \in Nat /\ Popped \in Nat /\ Taken \in Nat /\ Taken = Popped + Len(writeMsgs)
  BY <1>3 DEF IInv, TypeOK, Places, Taken
<1>5. Head(posted) = Taken + 1 /\ Taken + 1 <= typed
  BY <1>1, <1>2, <1>4 DEF IInv, Places
<1>6. writing' = "done" <=> writing = "done"
  BY <1>1 DEF IInv, Places
<1>7. Popped' = Popped /\ Taken' = Taken + 1
  <2>1. Popped' = Popped BY <1>1, <1>6 DEF Popped
  <2>2. QED BY <1>3, <1>4, <2>1 DEF Taken
<1>8. TypeOK' BY <1>1, <1>2, <1>3 DEF IInv, TypeOK
<1>9. Places'
  <2>1. \A i \in 1 .. Len(writeMsgs') : writeMsgs'[i] = Popped + i
    <3>1. TAKE i \in 1 .. Len(writeMsgs')
    <3>2. CASE i <= Len(writeMsgs)
      <4>1. i \in 1 .. Len(writeMsgs) /\ writeMsgs'[i] = writeMsgs[i] BY <1>3, <3>2
      <4>2. QED BY <4>1 DEF IInv, Places
    <3>3. CASE i = Len(writeMsgs) + 1 BY <1>3, <1>4, <1>5, <3>3
    <3>4. QED BY <1>3, <3>2, <3>3
  <2>2. \A i \in 1 .. Len(posted') : posted'[i] = IF Taken + 1 + i <= typed THEN Taken + 1 + i ELSE Close
    <3>1. TAKE i \in 1 .. Len(posted')
    <3>2. i + 1 \in 1 .. Len(posted) /\ posted'[i] = posted[i + 1] BY <1>2
    <3>3. posted[i + 1] = IF Taken + (i + 1) <= typed THEN Taken + (i + 1) ELSE Close
      BY <3>2 DEF IInv, Places
    <3>4. QED BY <1>4, <3>2, <3>3
  <2>3. /\ Len(posted') \in {typed - (Taken + 1), typed + 1 - (Taken + 1)}
        /\ main = "typing" => Len(posted') = typed - (Taken + 1)
    BY <1>2, <1>4 DEF IInv, Places
  <2>4. writeMsgs' # << >> BY <1>3
  <2>5. Popped \in 0 .. Len(wire) /\ \A i \in 1 .. Len(wire) : wire[i] = i BY DEF IInv, Places
  <2>6. QED BY <1>1, <1>5, <1>7, <2>1, <2>2, <2>3, <2>4, <2>5 DEF Places
<1>10. QuietSocket' /\ QuietUserTriesAll'
  <2>1. connect' # "over" => reading' = "none" BY <1>1 DEF IInv, QuietSocket
  <2>2. QED BY <1>1, <1>4, <2>1, Busy, NotQuiet
<1>11. QED BY <1>8, <1>9, <1>10 DEF IInv

LEMMA RunCloseInv == ASSUME IInv, RunClose PROVE IInv'
<1>1. /\ posted # << >> /\ Head(posted) = Close /\ posted' = Tail(posted) /\ sock' = "closed"
      /\ UNCHANGED <<main, typed, running, endpoint, connect, reading, writeMsgs, writing, responsive,
                     peer, inbox, frames, wire>>
  BY DEF RunClose, mainVars, connectVars, writeVars, serverVars
<1>2. /\ posted' \in Seq(Nat) /\ Len(posted') = Len(posted) - 1 /\ Len(posted) \in Nat \ {0}
      /\ Head(posted) = posted[1]
  BY <1>1, TailFacts DEF IInv, TypeOK
<1>3. typed \in Nat /\ Taken \in Nat BY DEF IInv, TypeOK, Places, Taken
<1>4. Len(posted) = 1 /\ Taken = typed
  BY <1>1, <1>2, <1>3 DEF IInv, Places, Close
<1>5. TypeOK' BY <1>1, <1>2 DEF IInv, TypeOK
<1>6. Places'
  <2>1. Popped' = Popped /\ Taken' = Taken BY <1>1 DEF Popped, Taken
  <2>2. Len(posted') = 0 /\ Len(posted') = typed - Taken BY <1>2, <1>3, <1>4
  <2>3. \A i \in 1 .. Len(posted') : posted'[i] = IF Taken + i <= typed THEN Taken + i ELSE Close
    BY <2>2
  <2>4. /\ Len(posted') \in {typed - Taken, typed + 1 - Taken}
        /\ main = "typing" => Len(posted') = typed - Taken
    BY <2>2
  <2>5. QED BY <1>1, <2>1, <2>3, <2>4 DEF IInv, Places
<1>7. QuietSocket' /\ QuietUserTriesAll'
  <2>1. connect' # "over" => reading' = "none" BY <1>1 DEF IInv, QuietSocket
  <2>2. QED BY <1>1, <1>3, <2>1, Busy, NotQuiet
<1>8. QED BY <1>5, <1>6, <1>7 DEF IInv

-----------------------------------------------------------------------------
(* The write loop *)

LEMMA WireWriteInv == ASSUME IInv, WireWrite PROVE IInv'
<1>1. /\ writing = "pending" /\ writing' = "done" /\ wire' = Append(wire, Head(writeMsgs))
      /\ UNCHANGED <<main, typed, posted, running, endpoint, connect, sock, reading, writeMsgs, responsive,
                     peer, inbox, frames>>
  BY DEF WireWrite, mainVars, connectVars, serverVars
<1>2. writeMsgs # << >> /\ Head(writeMsgs) = writeMsgs[1] /\ Head(writeMsgs) \in Nat /\ Len(writeMsgs) \in Nat \ {0}
  BY <1>1, TailFacts DEF IInv, TypeOK, Places
<1>3. /\ wire' \in Seq(Nat) /\ Len(wire') = Len(wire) + 1 /\ Len(wire) \in Nat
      /\ \A i \in 1 .. Len(wire) + 1 : wire'[i] = IF i <= Len(wire) THEN wire[i] ELSE Head(writeMsgs)
  BY <1>1, <1>2, AppendFacts DEF IInv, TypeOK
<1>4. Popped = Len(wire) /\ Popped' = Popped /\ Taken' = Taken
  BY <1>1, <1>3 DEF Popped, Taken
<1>5. Head(writeMsgs) = Len(wire) + 1 BY <1>2, <1>4 DEF IInv, Places
<1>6. TypeOK' BY <1>1, <1>3 DEF IInv, TypeOK
<1>7. Places'
  <2>1. \A i \in 1 .. Len(wire') : wire'[i] = i BY <1>3, <1>5 DEF IInv, Places
  <2>2. Popped \in 0 .. Len(wire') BY <1>3, <1>4
  <2>3. QED BY <1>1, <1>2, <1>4, <2>1, <2>2 DEF IInv, Places
<1>8. QuietSocket' /\ QuietUserTriesAll'
  <2>1. connect' # "over" => reading' = "none" BY <1>1 DEF IInv, QuietSocket
  <2>2. typed \in Nat BY DEF IInv, TypeOK
  <2>3. QED BY <1>1, <2>1, <2>2, Busy, NotQuiet
<1>9. QED BY <1>6, <1>7, <1>8 DEF IInv

LEMMA WrittenInv == ASSUME IInv, Written PROVE IInv'
<1>1. /\ writing = "done" /\ writeMsgs' = Tail(writeMsgs)
      /\ writing' = IF Tail(writeMsgs) = << >> THEN "idle" ELSE "pending"
      /\ UNCHANGED <<main, typed, posted, running, endpoint, connect, sock, reading, responsive,
                     peer, inbox, frames, wire>>
  BY DEF Written, mainVars, connectVars, serverVars
<1>2. /\ writeMsgs' \in Seq(Nat) /\ Len(writeMsgs') = Len(writeMsgs) - 1 /\ Len(writeMsgs) \in Nat \ {0}
      /\ \A i \in 1 .. Len(writeMsgs) - 1 : writeMsgs'[i] = writeMsgs[i + 1]
  BY <1>1, TailFacts DEF IInv, TypeOK, Places
<1>3. Len(wire) \in Nat /\ Popped = Len(wire) - 1 /\ Popped' = Popped + 1 /\ Taken' = Taken /\ Popped \in 0 .. Len(wire)
  <2>1. Len(wire) \in Nat /\ Popped = Len(wire) - 1 BY <1>1 DEF IInv, TypeOK, Popped
  <2>2. Popped' = Len(wire) BY <1>1 DEF Popped
  <2>3. Popped' = Popped + 1 BY <2>1, <2>2
  <2>4. Popped \in 0 .. Len(wire) BY DEF IInv, Places
  <2>5. Taken' = Taken BY <1>2, <2>1, <2>3 DEF Taken
  <2>6. QED BY <2>1, <2>3, <2>4, <2>5
<1>4. TypeOK' BY <1>1, <1>2 DEF IInv, TypeOK
<1>5. Places'
  <2>1. \A i \in 1 .. Len(writeMsgs') : writeMsgs'[i] = Popped + 1 + i
    <3>1. TAKE i \in 1 .. Len(writeMsgs')
    <3>2. i + 1 \in 1 .. Len(writeMsgs) /\ writeMsgs'[i] = writeMsgs[i + 1] BY <1>2
    <3>3. writeMsgs[i + 1] = Popped + (i + 1) BY <3>2 DEF IInv, Places
    <3>4. QED BY <1>3, <3>2, <3>3
  <2>2. Popped + 1 \in 0 .. Len(wire) BY <1>3
  <2>3. writing' \in {"pending", "done"} => writeMsgs' # << >> BY <1>1
  <2>4. QED BY <1>1, <1>3, <2>1, <2>2, <2>3 DEF IInv, Places
<1>6. QuietSocket' /\ QuietUserTriesAll'
  <2>1. connect' # "over" => reading' = "none" BY <1>1 DEF IInv, QuietSocket
  <2>2. typed \in Nat BY DEF IInv, TypeOK
  <2>3. QED BY <1>1, <2>1, <2>2, Busy, NotQuiet
<1>7. QED BY <1>4, <1>5, <1>6 DEF IInv

(* A write that fails leaves its line in _write_msgs. *)
LEMMA WriteFailsInv == ASSUME IInv, WireError \/ WriteFailed PROVE IInv'
<1>1. /\ writing \in {"pending", "failed"} /\ writing' \in {"failed", "idle"}
      /\ sock' \in {sock, "closed"}
      /\ UNCHANGED <<main, typed, posted, running, endpoint, connect, reading, writeMsgs, responsive,
                     peer, inbox, frames, wire>>
  BY DEF WireError, WriteFailed, mainVars, connectVars, serverVars
<1>2. TypeOK' BY <1>1 DEF IInv, TypeOK
<1>3. Places' BY <1>1, PlacesUnchanged DEF IInv
<1>4. QuietSocket' /\ QuietUserTriesAll'
  <2>1. connect' # "over" => reading' = "none" BY <1>1 DEF IInv, QuietSocket
  <2>2. typed \in Nat BY DEF IInv, TypeOK
  <2>3. QED BY <1>1, <2>1, <2>2, Busy, NotQuiet
<1>5. QED BY <1>2, <1>3, <1>4 DEF IInv

-----------------------------------------------------------------------------
(* The connection and the read loop *)

LEMMA ConnectInv == ASSUME IInv, Reached \/ Refused \/ Connect PROVE IInv'
<1>1. CASE Reached \/ Refused
  <2>1. /\ connect' \in {"up", "refused"} /\ sock' \in {"connected", "failed"} /\ connect = "pending"
        /\ UNCHANGED <<main, typed, posted, running, endpoint, reading, writeMsgs, writing, responsive,
                       peer, inbox, frames, wire>>
    BY <1>1 DEF Reached, Refused, AttemptDone, mainVars, writeVars, serverVars
  <2>2. TypeOK' BY <2>1 DEF IInv, TypeOK
  <2>3. Places' BY <2>1, PlacesSame DEF IInv
  <2>4. QuietSocket' /\ QuietUserTriesAll' BY <2>1 DEF IInv, QuietSocket, QuietUserTriesAll
  <2>5. QED BY <2>2, <2>3, <2>4 DEF IInv
<1>2. CASE NextAttempt
  <2>1. /\ connect = "refused" /\ connect' = "pending" /\ sock' = "connecting"
        /\ endpoint' = endpoint + 1 /\ endpoint < Endpoints
        /\ writing' = IF writing = "pending" THEN "failed" ELSE writing
        /\ UNCHANGED <<main, typed, posted, running, reading, writeMsgs, responsive,
                       peer, inbox, frames, wire>>
    BY <1>2, ClientAssumption DEF NextAttempt, mainVars, serverVars, IInv, TypeOK
  <2>2. TypeOK' BY <2>1, ClientAssumption DEF IInv, TypeOK
  <2>3. Places'
    <3>1. CASE writing = "pending"
      BY <2>1, <3>1, PlacesUnchanged DEF IInv
    <3>2. CASE writing # "pending"
      BY <2>1, <3>2, PlacesSame DEF IInv
    <3>3. QED BY <3>1, <3>2
  <2>4. QuietSocket' /\ QuietUserTriesAll' BY <2>1 DEF IInv, QuietSocket, QuietUserTriesAll
  <2>5. QED BY <2>2, <2>3, <2>4 DEF IInv
<1>3. CASE ConnectFailed
  <2>1. /\ connect \in {"refused", "pending", "up"} /\ connect' = "over"
        /\ endpoint = Endpoints \/ sock = "closed"
        /\ UNCHANGED <<main, typed, posted, running, endpoint, sock, reading, writeMsgs, writing, responsive,
                       peer, inbox, frames, wire>>
    BY <1>3 DEF ConnectFailed, mainVars, writeVars, serverVars
  <2>2. TypeOK' BY <2>1 DEF IInv, TypeOK
  <2>3. Places' BY <2>1, PlacesSame DEF IInv
  <2>4. QuietSocket' /\ QuietUserTriesAll'
    BY <2>1 DEF IInv, QuietSocket, QuietUserTriesAll, TypeOK
  <2>5. QED BY <2>2, <2>3, <2>4 DEF IInv
<1>4. CASE Connected
  <2>1. /\ connect' = "over" /\ reading' = "header" /\ sock # "closed"
        /\ UNCHANGED <<main, typed, posted, running, endpoint, sock, writeMsgs, writing, responsive,
                       peer, inbox, frames, wire>>
    BY <1>4 DEF Connected, mainVars, writeVars, serverVars
  <2>2. TypeOK' BY <2>1 DEF IInv, TypeOK
  <2>3. Places' BY <2>1, PlacesSame DEF IInv
  <2>4. QuietSocket' /\ QuietUserTriesAll' BY <2>1 DEF IInv, QuietSocket, QuietUserTriesAll
  <2>5. QED BY <2>2, <2>3, <2>4 DEF IInv
<1>5. QED BY <1>1, <1>2, <1>3, <1>4 DEF Connect

LEMMA ReadInv == ASSUME IInv, Read PROVE IInv'
<1>1. /\ reading \in {"header", "body"} /\ reading' \in {"header", "body", "over"}
      /\ (sock' = sock /\ sock # "closed") \/ (sock' = "closed" /\ reading' = "over")
      /\ \/ inbox' = inbox /\ (reading' = "body" => inbox # << >>)
         \/ inbox' = Tail(inbox) /\ reading = "body" /\ reading' # "body"
      /\ UNCHANGED <<main, typed, posted, running, endpoint, connect, writeMsgs, writing, responsive,
                     peer, frames, wire>>
  BY DEF Read, HeaderRead, BodyRead, ReadFailed, ReadEnds, mainVars, connectVars, writeVars, serverVars
<1>2. connect = "over" BY <1>1 DEF IInv, QuietSocket
<1>3. TypeOK'
  <2>1. inbox' \in Seq(Frame) /\ (reading' = "body" => inbox' # << >>)
    <3>1. inbox \in Seq(Frame) /\ (reading = "body" => inbox # << >>) BY DEF IInv, TypeOK
    <3>2. inbox # << >> => Tail(inbox) \in Seq(Frame) BY <3>1
    <3>3. QED BY <1>1, <3>1, <3>2
  <2>2. QED BY <1>1, <2>1 DEF IInv, TypeOK
<1>4. Places' BY <1>1, PlacesSame DEF IInv
<1>5. QuietSocket' /\ QuietUserTriesAll'
  BY <1>1, <1>2 DEF IInv, QuietSocket, QuietUserTriesAll
<1>6. QED BY <1>3, <1>4, <1>5 DEF IInv

LEMMA ServerInv == ASSUME IInv, Server PROVE IInv'
<1>1. /\ \/ UNCHANGED <<inbox, frames>>
         \/ frames' = frames + 1 /\ \E f \in Frame : inbox' = Append(inbox, f)
      /\ peer' \in {peer, "half", "reset"}
      /\ UNCHANGED <<main, typed, posted, running, endpoint, connect, sock, reading, writeMsgs, writing,
                     responsive, wire>>
  BY DEF Server, ServerSend, ServerLeave, mainVars, connectVars, writeVars
<1>2. inbox' \in Seq(Frame) /\ (reading' = "body" => inbox' # << >>) /\ frames' \in Nat
  <2>1. inbox \in Seq(Frame) /\ (reading = "body" => inbox # << >>) /\ frames \in Nat BY DEF IInv, TypeOK
  <2>2. \A f \in Frame : Append(inbox, f) \in Seq(Frame) /\ Append(inbox, f) # << >> BY <2>1
  <2>3. QED BY <1>1, <2>1, <2>2
<1>3. TypeOK' BY <1>1, <1>2 DEF IInv, TypeOK
<1>4. Places' BY <1>1, PlacesSame DEF IInv
<1>5. QuietSocket' /\ QuietUserTriesAll' BY <1>1, QuietSame DEF IInv
<1>6. QED BY <1>3, <1>4, <1>5 DEF IInv

(* The threads end, or nothing happens. *)
LEMMA EndInv == ASSUME IInv, JoinThread \/ RunReturns \/ UNCHANGED vars PROVE IInv'
<1>1. /\ main' = main \/ (main # "typing" /\ main' = "exited")
      /\ running' = running \/ running' = FALSE
      /\ UNCHANGED <<typed, posted, endpoint, connect, sock, reading, writeMsgs, writing, responsive,
                     peer, inbox, frames, wire>>
  BY DEF JoinThread, RunReturns, vars, mainVars, connectVars, writeVars, serverVars
<1>2. TypeOK'
  <2>1. running' \in BOOLEAN
    <3>1. running \in BOOLEAN BY DEF IInv, TypeOK
    <3>2. QED BY <1>1, <3>1, Zenon
  <2>2. QED BY <1>1, <2>1 DEF IInv, TypeOK
<1>3. Places'
  <2>1. Popped' = Popped /\ Taken' = Taken BY <1>1 DEF Popped, Taken
  <2>2. main' = "typing" => main = "typing" BY <1>1
  <2>3. QED BY <1>1, <2>1, <2>2 DEF IInv, Places
<1>4. QuietSocket' /\ QuietUserTriesAll' BY <1>1 DEF IInv, QuietSocket, QuietUserTriesAll
<1>5. QED BY <1>2, <1>3, <1>4 DEF IInv

LEMMA NextInv == IInv /\ [Next]_vars => IInv'
<1> SUFFICES ASSUME IInv, [Next]_vars PROVE IInv' OBVIOUS
<1>1. CASE Main BY <1>1, TypeLineInv, EndOfInputInv, EndInv DEF Main
<1>2. CASE Posted BY <1>2, RunWriteInv, RunCloseInv DEF Posted
<1>3. CASE Reached \/ Refused \/ Connect BY <1>3, ConnectInv
<1>4. CASE Read BY <1>4, ReadInv
<1>5. CASE Write BY <1>5, WireWriteInv, WrittenInv, WriteFailsInv DEF Write
<1>6. CASE RunReturns \/ UNCHANGED vars BY <1>6, EndInv
<1>7. CASE Server BY <1>7, ServerInv
<1>8. QED BY <1>1, <1>2, <1>3, <1>4, <1>5, <1>6, <1>7 DEF Next

-----------------------------------------------------------------------------

(* The inductive invariant holds in every reachable state of the client,    *)
(* whatever the user, the endpoints and the server do.                      *)
THEOREM Invariance == Spec => []IInv
<1>1. QED BY InitInv, NextInv, PTL DEF Spec

(* What stands line by line in Places is LinesInOrder. *)
LEMMA PlacesInOrder == ASSUME TypeOK, Places PROVE LinesInOrder
<1> DEFINE sent == SubSeq(wire, 1, Popped)
           front == sent \o writeMsgs
           kept == front \o posted
           lines == [i \in 1 .. typed |-> i]
<1>1. typed \in Nat /\ wire \in Seq(Nat) /\ writeMsgs \in Seq(Nat) /\ posted \in Seq(Nat)
      /\ Popped \in 0 .. Len(wire) /\ Taken = Popped + Len(writeMsgs) /\ Taken \in Nat /\ Taken <= typed
  BY DEF TypeOK, Places, Taken
<1>2. sent \in Seq(Nat) /\ Len(sent) = Popped /\ \A i \in 1 .. Popped : sent[i] = wire[i]
  BY <1>1, SubSeqFacts
<1> HIDE DEF sent
<1>3. /\ front \in Seq(Nat) /\ Len(front) = Taken
      /\ \A i \in 1 .. Taken : front[i] = IF i <= Popped THEN sent[i] ELSE writeMsgs[i - Popped]
  BY <1>1, <1>2, ConcatFacts
<1> HIDE DEF front
<1>4. /\ kept \in Seq(Nat) /\ Len(kept) = Taken + Len(posted) /\ Len(posted) \in Nat
      /\ \A i \in 1 .. Taken + Len(posted) :
           kept[i] = IF i <= Taken THEN front[i] ELSE posted[i - Taken]
  <2>1. front \in Seq(Nat) /\ posted \in Seq(Nat) /\ Len(posted) \in Nat BY <1>1, <1>3
  <2>2. /\ kept \in Seq(Nat) /\ Len(kept) = Len(front) + Len(posted)
        /\ \A i \in 1 .. Len(front) + Len(posted) :
             kept[i] = IF i <= Len(front) THEN front[i] ELSE posted[i - Len(front)]
    BY <2>1, ConcatFacts
  <2> HIDE DEF kept
  <2>3. QED BY <1>3, <2>1, <2>2
<1> HIDE DEF kept
<1>5. \A i \in 1 .. Taken : kept[i] = i
  <2>1. TAKE i \in 1 .. Taken
  <2>2. kept[i] = front[i] BY <1>1, <1>4
  <2>3. CASE i <= Popped
    <3>1. i \in 1 .. Popped /\ i \in 1 .. Len(wire) BY <1>1, <2>3
    <3>2. kept[i] = wire[i]
      <4>1. front[i] = sent[i] BY <1>3, <2>3
      <4>2. sent[i] = wire[i] BY <1>2, <3>1
      <4>3. QED BY <2>2, <4>1, <4>2
    <3>3. QED BY <3>1, <3>2 DEF Places
  <2>4. CASE i > Popped
    <3>1. i - Popped \in 1 .. Len(writeMsgs) BY <1>1, <2>4
    <3>2. kept[i] = writeMsgs[i - Popped]
      <4>1. ~(i <= Popped) BY <1>1, <2>4
      <4>2. front[i] = writeMsgs[i - Popped] BY <1>3, <4>1
      <4>3. QED BY <2>2, <4>2
    <3>3. writeMsgs[i - Popped] = Popped + (i - Popped) BY <3>1 DEF Places
    <3>4. QED BY <1>1, <3>2, <3>3
  <2>5. QED BY <1>1, <2>3, <2>4
<1>6. \A i \in 1 .. Len(kept) : kept[i] = IF i <= typed THEN i ELSE Close
  <2>1. TAKE i \in 1 .. Len(kept)
  <2>2. CASE i <= Taken BY <1>1, <1>4, <1>5, <2>2
  <2>3. CASE i > Taken
    <3>1. i - Taken \in 1 .. Len(posted) /\ kept[i] = posted[i - Taken] BY <1>1, <1>4, <2>3
    <3>2. posted[i - Taken] = IF Taken + (i - Taken) <= typed THEN Taken + (i - Taken) ELSE Close
      BY <3>1 DEF Places
    <3>3. QED BY <1>1, <3>1, <3>2
  <2>4. QED BY <1>1, <1>4, <2>2, <2>3
<1>7. wire = [i \in 1 .. Len(wire) |-> i] BY <1>1, Counting DEF Places
<1>8. CASE Len(posted) = typed - Taken
  <2>1. Len(kept) = typed BY <1>1, <1>4, <1>8
  <2>2. \A i \in 1 .. Len(kept) : kept[i] = i BY <1>1, <1>6, <2>1
  <2>3. kept = lines BY <1>4, <2>1, <2>2, Counting
  <2>4. QED BY <1>7, <2>3 DEF LinesInOrder, kept, front, sent
<1>9. CASE Len(posted) = typed + 1 - Taken
  <2>1. Len(kept) = typed + 1 /\ main # "typing" BY <1>1, <1>4, <1>9 DEF Places
  <2>2. /\ lines \in Seq(Nat) /\ Len(lines) = typed /\ Close \in Nat /\ \A i \in 1 .. typed : lines[i] = i
    BY <1>1 DEF Close
  <2> HIDE DEF lines
  <2>3. /\ Append(lines, Close) \in Seq(Nat) /\ Len(Append(lines, Close)) = typed + 1
        /\ \A i \in 1 .. typed + 1 : Append(lines, Close)[i] = IF i <= typed THEN lines[i] ELSE Close
    BY <2>2, AppendFacts
  <2>4. \A i \in 1 .. typed + 1 : kept[i] = Append(lines, Close)[i]
    BY <1>1, <1>6, <2>1, <2>2, <2>3
  <2>5. kept = Append(lines, Close) BY <1>4, <2>1, <2>3, <2>4
  <2>6. QED BY <1>7, <2>1, <2>5 DEF LinesInOrder, kept, front, sent, lines
<1>10. QED BY <1>8, <1>9 DEF Places

(* No line is lost, repeated or overtaken between the keyboard and the      *)
(* connection, as long as the program runs.                                 *)
THEOREM LinesKeepOrder == Spec => []LinesInOrder
<1>1. IInv => LinesInOrder BY PlacesInOrder DEF IInv
<1>2. QED BY <1>1, Invariance, PTL

(* Whoever has not typed anything has every endpoint tried for him. *)
THEOREM AllEndpointsTried == Spec => []QuietUserTriesAll
<1>1. IInv => QuietUserTriesAll BY DEF IInv
<1>2. QED BY <1>1, Invariance, PTL

-----------------------------------------------------------------------------
(* What holds when the client rests *)

(* A close() that is posted stays so until it is executed. *)
LEMMA CloseStays ==
  ASSUME NEW q \in Seq(Nat), q # << >>, Head(q) # Close,
         NEW i \in 1 .. Len(q), q[i] = Close
  PROVE  \E j \in 1 .. Len(Tail(q)) : Tail(q)[j] = Close
<1>1. /\ Len(Tail(q)) = Len(q) - 1 /\ Len(q) \in Nat \ {0} /\ Head(q) = q[1]
      /\ \A j \in 1 .. Len(q) - 1 : Tail(q)[j] = q[j + 1]
  BY TailFacts
<1>2. i # 1 BY <1>1
<1>3. i - 1 \in 1 .. Len(Tail(q)) /\ i - 1 \in 1 .. Len(q) - 1 /\ (i - 1) + 1 = i
  BY <1>1, <1>2
<1>4. Tail(q)[i - 1] = q[i] BY <1>1, <1>3
<1>5. QED BY <1>3, <1>4

(* Steps that leave the socket, what it follows and the queues alone. *)
LEMMA FollowsSame ==
  ASSUME SocketFollows, UNCHANGED <<connect, sock, reading, writeMsgs, posted>>,
         writing' = "idle" => writing = "idle", main' # "typing" => main # "typing"
  PROVE  SocketFollows'
BY DEF SocketFollows

LEMMA SocketFollowsStep == ASSUME IInv, SocketFollows, [Next]_vars PROVE SocketFollows'
<1>0. /\ posted \in Seq(Nat) /\ typed \in Nat
      /\ connect \in {"pending", "up", "refused", "over"}
      /\ sock \in {"connecting", "connected", "failed", "closed"}
      /\ reading \in {"none", "header", "body", "over"}
      /\ writing \in {"idle", "pending", "done", "failed"}
      /\ main \in {"typing", "joining", "exited"}
      /\ connect # "over" => reading = "none"
  BY DEF IInv, TypeOK, QuietSocket
<1>1. CASE TypeLine
  <2>1. UNCHANGED <<main, connect, sock, reading, writeMsgs, writing>> /\ main = "typing"
    BY <1>1 DEF TypeLine, connectVars, writeVars
  <2>2. QED BY <2>1 DEF SocketFollows
<1>2. CASE EndOfInput
  <2>1. UNCHANGED <<connect, sock, reading, writeMsgs, writing>> /\ posted' = Append(posted, Close)
    BY <1>2 DEF EndOfInput, connectVars, writeVars
  <2>2. Len(posted) \in Nat /\ Len(posted') = Len(posted) + 1 /\ posted'[Len(posted) + 1] = Close
    <3>1. Close \in Nat BY DEF Close
    <3>2. QED BY <1>0, <2>1, <3>1, AppendFacts
  <2>3. \E i \in 1 .. Len(posted') : posted'[i] = Close
    <3>1. Len(posted) + 1 \in 1 .. Len(posted') BY <2>2
    <3>2. QED BY <2>2, <3>1
  <2>4. QED BY <2>1, <2>3 DEF SocketFollows
<1>3. CASE JoinThread \/ RunReturns \/ UNCHANGED vars \/ Server
  <2>1. UNCHANGED <<connect, sock, reading, writeMsgs, posted, writing>>
        /\ (main' # "typing" => main # "typing")
    BY <1>3 DEF JoinThread, RunReturns, Server, ServerSend, ServerLeave, vars, mainVars,
                connectVars, writeVars
  <2>2. QED BY <2>1, FollowsSame
<1>4. CASE WireWrite \/ WireError
  <2>1. UNCHANGED <<main, connect, sock, reading, writeMsgs, posted>> /\ writing' # "idle"
    BY <1>4 DEF WireWrite, WireError, mainVars, connectVars
  <2>2. QED BY <2>1, FollowsSame
<1>5. CASE RunWrite
  <2>1. /\ UNCHANGED <<main, connect, sock, reading>>
        /\ posted # << >> /\ Head(posted) # Close /\ posted' = Tail(posted)
        /\ writing' = "idle" => writing = "idle" /\ writeMsgs # << >>
    BY <1>5 DEF RunWrite, mainVars, connectVars
  <2>2. (\E i \in 1 .. Len(posted) : posted[i] = Close) => \E i \in 1 .. Len(posted') : posted'[i] = Close
    BY <1>0, <2>1, CloseStays
  <2>3. QED BY <2>1, <2>2 DEF SocketFollows
<1>6. CASE RunClose \/ ReadFailed \/ WriteFailed
  <2>1. sock' = "closed" BY <1>6 DEF RunClose, ReadFailed, WriteFailed
  <2>2. QED BY <2>1 DEF SocketFollows
<1>7. CASE Reached \/ Refused
  <2>1. /\ connect = "pending" /\ sock = "connecting"
        /\ \/ connect' = "up" /\ sock' = "connected"
           \/ connect' = "refused" /\ sock' = "failed"
        /\ UNCHANGED <<main, reading, writeMsgs, writing, posted>>
    BY <1>7 DEF Reached, Refused, AttemptDone, mainVars, writeVars
  <2>2. QED BY <2>1 DEF SocketFollows
<1>8. CASE NextAttempt
  <2>1. /\ connect = "refused" /\ sock # "closed" /\ connect' = "pending" /\ sock' = "connecting"
        /\ writing' = "idle" => writing = "idle"
        /\ UNCHANGED <<main, reading, writeMsgs, posted>>
    BY <1>8 DEF NextAttempt, mainVars
  <2>2. QED BY <2>1 DEF SocketFollows
<1>9. CASE ConnectFailed
  <2>1. /\ connect # "over" /\ connect' = "over" /\ (sock = "closed" \/ connect = "refused")
        /\ UNCHANGED <<main, sock, reading, writeMsgs, writing, posted>>
    BY <1>9 DEF ConnectFailed, mainVars, writeVars
  <2>2. QED BY <1>0, <2>1 DEF SocketFollows
<1>10. CASE Connected
  <2>1. /\ connect = "up" /\ connect' = "over" /\ reading' = "header"
        /\ UNCHANGED <<main, sock, writeMsgs, writing, posted>>
    BY <1>10 DEF Connected, mainVars, writeVars
  <2>2. QED BY <2>1 DEF SocketFollows
<1>11. CASE HeaderRead \/ BodyRead
  <2>1. /\ reading \in {"header", "body"} /\ reading' \in {"header", "body"}
        /\ UNCHANGED <<main, connect, sock, writeMsgs, writing, posted>>
    BY <1>11 DEF HeaderRead, BodyRead, mainVars, connectVars, writeVars
  <2>2. QED BY <1>0, <2>1 DEF SocketFollows
<1>12. CASE Written
  <2>1. /\ writing = "done" /\ (writing' = "idle" => writeMsgs' = << >>)
        /\ UNCHANGED <<main, connect, sock, reading, posted>>
    BY <1>12 DEF Written, mainVars, connectVars
  <2>2. QED BY <2>1 DEF SocketFollows
<1>13. QED
  BY <1>1, <1>2, <1>3, <1>4, <1>5, <1>6, <1>7, <1>8, <1>9, <1>10, <1>11, <1>12
     DEF Next, Main, Posted, Connect, Read, Write

(* In a client that is still in run() and rests, the conversation goes on.  *)
LEMMA RestIsDone == ASSUME IInv, SocketFollows, Rests PROVE RestsWhenDone
<1>0. /\ connect \in {"pending", "up", "refused", "over"}
      /\ sock \in {"connecting", "connected", "failed", "closed"}
      /\ reading \in {"none", "header", "body", "over"}
      /\ writing \in {"idle", "pending", "done", "failed"}
      /\ main \in {"typing", "joining", "exited"}
      /\ peer \in {"up", "half", "reset"}
      /\ endpoint \in 1 .. Endpoints /\ Endpoints \in Nat /\ typed \in Nat
      /\ responsive \in BOOLEAN
      /\ connect # "over" => reading = "none"
  BY ClientAssumption DEF IInv, TypeOK, QuietSocket
<1>1. ASSUME running
      PROVE  /\ sock = "connected" /\ peer = "up"
             /\ \/ reading = "header" /\ inbox = << >>
                \/ reading = "body" /\ Head(inbox) = "short"
             /\ main = "typing" /\ posted = << >>
             /\ responsive => writeMsgs = << >> /\ Len(wire) = typed
  <2>1. connect = "over"
    <3>1. connect # "up" BY <1>1 DEF Rests
    <3>2. connect # "refused" BY <1>0, <1>1 DEF Rests
    <3>3. connect # "pending" BY <1>1 DEF Rests, SocketFollows
    <3>4. QED BY <1>0, <3>1, <3>2, <3>3
  <2>2. posted = << >> /\ writing \notin {"done", "failed"} /\ ~OutOfWork
    BY <1>1 DEF Rests
  <2>3. sock # "closed"
    <3>1. SUFFICES ASSUME sock = "closed" PROVE FALSE
      OBVIOUS
    <3>2. reading \in {"none", "over"} BY <1>0, <1>1, <2>2, <3>1 DEF Rests
    <3>3. writing = "idle" BY <1>0, <2>2, <3>1 DEF Rests
    <3>4. QED BY <2>1, <2>2, <3>2, <3>3 DEF OutOfWork
  <2>4. sock = "connected" /\ reading \in {"header", "body"}
    <3>1. reading # "none"
      <4>1. SUFFICES ASSUME reading = "none" PROVE FALSE
        OBVIOUS
      <4>2. sock = "failed" BY <2>1, <2>3, <4>1 DEF SocketFollows
      <4>3. writing = "idle" BY <1>0, <2>2, <4>2 DEF Rests
      <4>4. QED BY <2>1, <2>2, <4>1, <4>3 DEF OutOfWork
    <3>2. QED BY <2>1, <2>2, <2>3, <3>1 DEF SocketFollows
  <2>5. /\ peer = "up"
        /\ \/ reading = "header" /\ inbox = << >>
           \/ reading = "body" /\ Head(inbox) = "short"
    BY <1>0, <1>1, <2>4 DEF Rests
  <2>6. main = "typing"
    <3>1. SUFFICES ASSUME main # "typing" PROVE FALSE
      OBVIOUS
    <3>2. \E i \in 1 .. Len(<< >>) : TRUE
      BY <2>2, <2>3, <3>1 DEF SocketFollows
    <3>3. QED BY <3>2
  <2>7. ASSUME responsive PROVE writeMsgs = << >> /\ Len(wire) = typed
    <3>1. writing = "idle" BY <1>0, <2>2, <2>4, <2>5, <2>7 DEF Rests
    <3>2. writeMsgs = << >> BY <2>3, <3>1 DEF SocketFollows
    <3>3. Taken = Len(wire) /\ Len(wire) \in Nat
      BY <3>1, <3>2 DEF Taken, Popped, IInv, TypeOK
    <3>4. Len(posted) = typed - Taken /\ Len(posted) = 0
      BY <2>2, <2>6 DEF IInv, Places
    <3>5. QED BY <1>0, <3>2, <3>3, <3>4
  <2>8. QED BY <2>2, <2>4, <2>5, <2>6, <2>7
<1>2. main # "joining" BY <1>1 DEF Rests
<1>3. running \in BOOLEAN BY DEF IInv, TypeOK
<1>4. connect = "over" /\ peer # "up" => ~running BY <1>1, <1>3
<1>5. QED BY <1>1, <1>2, <1>4 DEF RestsWhenDone

(* The client never hangs: when nothing moves any more, main types or has   *)
(* exited - never waits in join() - and the second thread is in run() only  *)
(* while the conversation goes on, with everything read and, unless the     *)
(* server has stopped reading, every line written.                          *)
THEOREM ClientForgetsNothing == Spec => []RestsWhenDone
<1>1. Init => SocketFollows
  BY DEF Init, SocketFollows
<1>2. IInv /\ SocketFollows /\ [Next]_vars => SocketFollows'
  BY SocketFollowsStep
<1>3. IInv /\ SocketFollows => RestsWhenDone
  BY RestIsDone DEF RestsWhenDone
<1>4. QED
  BY Invariance, <1>1, <1>2, <1>3, PTL DEF Spec

=============================================================================
