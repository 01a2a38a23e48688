------------------------------ MODULE ChatMessage ------------------------------
(***************************************************************************)
(* The wire format of the chat example: class chat_message of              *)
(* chat/chat_message.hpp.  A message is a header of HeaderLength           *)
(* characters, the decimal length of the body, followed by the body.       *)
(*                                                                         *)
(* One chat_message object is modelled: the header characters at the front *)
(* of _data, and _body_length.  The object is either filled by a sender    *)
(* (the client's main loop) or by a receiver (do_read_header of the client *)
(* and of the server's session).  The body's characters are abstracted:    *)
(* the framing depends on their number only.                               *)
(***************************************************************************)
EXTENDS Integers

CONSTANTS
  MaxBodyLength,  \* max_body_length
  SizeModulus,    \* 2 to the width of std::size_t (narrowed: TLC's integers have 32 bits)
  Chars           \* the characters a peer may put in a header

HeaderLength == 4               \* header_length
Unit == <<1000, 100, 10, 1>>    \* of the places of a header

(* The characters, by name. *)
NUL   == "nul"
Blank == "blank"
Plus  == "plus"
Minus == "minus"
Digits == <<"0", "1", "2", "3", "4", "5", "6", "7", "8", "9">>
IsDigit(c) == \E d \in 0 .. 9 : c = Digits[d + 1]
ValueOf(c) == CHOOSE d \in 0 .. 9 : c = Digits[d + 1]

ASSUME MessageAssumption ==
  /\ MaxBodyLength \in Nat /\ MaxBodyLength < 10000  \* four digits
  /\ SizeModulus \in Nat /\ MaxBodyLength < SizeModulus

VARIABLES
  header,      \* the first HeaderLength characters of _data
  bodyLength,  \* _body_length
  stage        \* the last operation applied to the object

messageVars == <<header, bodyLength, stage>>

Header == [1 .. HeaderLength -> Chars]

(* sprintf("%4d"): decimal, right-aligned, padded with blanks.              *)
Format(n) ==
  [i \in 1 .. HeaderLength |->
     IF n < Unit[i] /\ i < HeaderLength
     THEN Blank
     ELSE Digits[((n \div Unit[i]) % 10) + 1]]

(* strncat then atoi: the characters up to the first NUL; leading white     *)
(* space, at most one sign, then digits up to the first other character.    *)
AtoiStart == [at |-> "lead", negative |-> FALSE, value |-> 0]

AtoiStep(a, c) ==
  CASE a.at = "lead" /\ c = Blank ->
         a
    [] a.at = "lead" /\ c \in {Plus, Minus} ->
         [at |-> "number", negative |-> (c = Minus), value |-> a.value]
    [] a.at \in {"lead", "number"} /\ IsDigit(c) ->
         [at |-> "number", negative |-> a.negative, value |-> 10 * a.value + ValueOf(c)]
    [] OTHER ->
         [at |-> "stop", negative |-> a.negative, value |-> a.value]

Atoi(h) ==
  LET a == AtoiStep(AtoiStep(AtoiStep(AtoiStep(AtoiStart, h[1]), h[2]), h[3]), h[4])
  IN  IF a.negative THEN -a.value ELSE a.value

(* Mutant: _body_length is a signed integer. *)
ToSizeTSigned(n) == n

(* The assignment of atoi's int to the std::size_t _body_length wraps. *)
ToSizeT(n) == n % SizeModulus

DecodedLength(h) == ToSizeT(Atoi(h))

-----------------------------------------------------------------------------

MessageInit ==
  /\ header \in {[i \in 1 .. HeaderLength |-> NUL]}
  /\ bodyLength = 0
  /\ stage = "fresh"

(* body_length(n), as main calls it: n is the length of a line that fits. *)
SetBodyLength(n) ==
  /\ stage = "fresh"
  /\ bodyLength' = IF n > MaxBodyLength THEN MaxBodyLength ELSE n
  /\ stage' = "sized"
  /\ UNCHANGED header

(* Mutant: the length of the whole message is encoded. *)
EncodeTotalLength ==
  /\ stage = "sized"
  /\ header' = Format(HeaderLength + bodyLength)
  /\ stage' = "encoded"
  /\ UNCHANGED bodyLength

EncodeHeader ==
  /\ stage = "sized"
  /\ header' = Format(bodyLength)
  /\ stage' = "encoded"
  /\ UNCHANGED bodyLength

(* async_read puts HeaderLength characters of the peer's choice at data(). *)
ReadHeader(h) ==
  /\ stage \in {"fresh", "accepted"}
  /\ header' = h
  /\ stage' = "read"
  /\ UNCHANGED bodyLength

DecodeHeader ==
  /\ stage = "read"
  /\ LET n == DecodedLength(header)
     IN  \/ /\ n > MaxBodyLength
            /\ bodyLength' = 0
            /\ stage' = "rejected"
         \/ /\ n <= MaxBodyLength
            /\ bodyLength' = n
            /\ stage' = "accepted"
  /\ UNCHANGED header

(* A rejected header ends the connection, an encoded message is copied to   *)
(* the queue: either way the next message is a new object.                  *)
NewMessage ==
  /\ stage \in {"rejected", "encoded"}
  /\ header' = [i \in 1 .. HeaderLength |-> NUL]
  /\ bodyLength' = 0
  /\ stage' = "fresh"

MessageNext ==
  \/ \E n \in 0 .. MaxBodyLength : SetBodyLength(n)
  \/ EncodeHeader
  \/ \E h \in Header : ReadHeader(h)
  \/ DecodeHeader
  \/ NewMessage

MessageSpec == MessageInit /\ [][MessageNext]_messageVars

-----------------------------------------------------------------------------

(* _data has room for MaxBodyLength body characters.  Whatever characters a *)
(* peer sends as a header - signs, blanks, letters, a number above the      *)
(* limit - body() is never read or written beyond that room: this is what   *)
(* the test in decode_header and the clamp in body_length are for.          *)
BodyFits == bodyLength \in 0 .. MaxBodyLength

(* A message that goes on a wire (encoded by a client, or accepted by the   *)
(* server and forwarded character for character) carries a header that      *)
(* every receiver decodes to the number of body characters that follow it:  *)
(* one odd header never shifts the framing of the messages behind it.       *)
FramingAgrees ==
  stage \in {"encoded", "accepted"} => DecodedLength(header) = bodyLength

=============================================================================
