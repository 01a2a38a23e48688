-------------------------------- MODULE Multicast --------------------------------
(***************************************************************************)
(* Multicast/sender.cpp and Multicast/receiver.cpp: a sender numbers its   *)
(* messages and sends one a second to a group; receivers come when they    *)
(* like and print what reaches them.  The network loses, repeats and       *)
(* reorders datagrams as it likes.                                         *)
(*                                                                         *)
(* The sender has one buffer, _message, for all its messages: what a       *)
(* datagram says is decided when the kernel takes it, after async_send_to  *)
(* has returned.                                                           *)
(***************************************************************************)
EXTENDS Naturals, Sequences, Functions

CONSTANTS
  Receiver,     \* receivers
  MaxMessages,  \* max_message_count
  Copies        \* bound: datagrams that reach a receiver

ASSUME MulticastAssumption == MaxMessages \in Nat \ {0} /\ Copies \in Nat

VARIABLES
  count,     \* _message_count
  message,   \* _message: its number
  sending,   \* async_send_to: "pending", "sent", "failed", "none"
  timer,     \* _timer: "waiting", "idle"
  wire,      \* history: the datagrams sent, in order
  receiver,  \* "absent", "open" (joined the group, a receive outstanding),
             \*   "over" (an error ended its loop)
  buffer,    \* datagrams in the receive buffer of the receiver's socket
  arrived,   \* number of datagrams that reached it
  printed    \* history: what it printed

senderVars   == <<count, message, sending, timer, wire>>
receiverVars == <<receiver, buffer, arrived, printed>>
multicastVars == <<senderVars, receiverVars>>

(* The constructor calls do_send(). *)
MulticastInit ==
  /\ message = 0 /\ count = 1 /\ sending = "pending"
  /\ timer = "idle"
  /\ wire = << >>
  /\ receiver = [r \in Receiver |-> "absent"]
  /\ buffer = [r \in Receiver |-> << >>]
  /\ arrived = [r \in Receiver |-> 0]
  /\ printed = [r \in Receiver |-> << >>]

-----------------------------------------------------------------------------
(* The sender *)

(* Mutant: a timer that repeats, without regard to the send under way. *)
TimeoutRepeats ==
  /\ timer = "waiting"
  /\ message' = count /\ count' = count + 1
  /\ sending' = "pending"
  /\ UNCHANGED <<timer, wire, receiverVars>>

(* The timer expires: do_send() puts the next message into the buffer. *)
Timeout ==
  /\ timer = "waiting"
  /\ timer' = "idle"
  /\ message' = count /\ count' = count + 1
  /\ sending' = "pending"
  /\ UNCHANGED <<wire, receiverVars>>

KernelSends ==
  /\ sending = "pending"
  /\ \/ sending' = "sent" /\ wire' = Append(wire, message)
     \/ sending' = "failed" /\ UNCHANGED wire
  /\ UNCHANGED <<count, message, timer, receiverVars>>

(* Mutant: _message_count <= max_message_count. *)
SendHandlerOneMore ==
  /\ sending \in {"sent", "failed"}
  /\ timer' = IF sending = "sent" /\ count <= MaxMessages THEN "waiting" ELSE timer
  /\ sending' = "none"
  /\ UNCHANGED <<count, message, wire, receiverVars>>

(* The handler of the send: wait for the next one, unless it was the last. *)
SendHandler ==
  /\ sending \in {"sent", "failed"}
  /\ timer' = IF sending = "sent" /\ count < MaxMessages THEN "waiting" ELSE timer
  /\ sending' = "none"
  /\ UNCHANGED <<count, message, wire, receiverVars>>

Sender == Timeout \/ KernelSends \/ SendHandler

(* io_context.run() of the sender is out of work. *)
SenderDone == sending = "none" /\ timer = "idle"

-----------------------------------------------------------------------------
(* The receivers and the network *)

(* The socket is bound and has joined the group; do_receive(). *)
Join(r) ==
  /\ receiver[r] = "absent"
  /\ receiver' = [receiver EXCEPT ![r] = "open"]
  /\ UNCHANGED <<senderVars, buffer, arrived, printed>>

Arrive(r, n) ==
  /\ receiver[r] = "open" /\ arrived[r] < Copies
  /\ buffer' = [buffer EXCEPT ![r] = Append(@, n)]
  /\ arrived' = [arrived EXCEPT ![r] = @ + 1]
  /\ UNCHANGED <<senderVars, receiver, printed>>

(* Mutant: do_receive() is forgotten. *)
ReceiveOnce(r) ==
  /\ receiver[r] = "open" /\ buffer[r] # << >>
  /\ printed' = [printed EXCEPT ![r] = Append(@, Head(buffer[r]))]
  /\ buffer' = [buffer EXCEPT ![r] = Tail(@)]
  /\ receiver' = [receiver EXCEPT ![r] = "deaf"]
  /\ UNCHANGED <<senderVars, arrived>>

(* The handler prints the datagram and receives again. *)
Receive(r) ==
  /\ receiver[r] = "open" /\ buffer[r] # << >>
  /\ printed' = [printed EXCEPT ![r] = Append(@, Head(buffer[r]))]
  /\ buffer' = [buffer EXCEPT ![r] = Tail(@)]
  /\ UNCHANGED <<senderVars, receiver, arrived>>

(* An error: the handler does nothing, and run() is out of work. *)
ReceiveError(r) ==
  /\ receiver[r] = "open"
  /\ receiver' = [receiver EXCEPT ![r] = "over"]
  /\ UNCHANGED <<senderVars, buffer, arrived, printed>>

MulticastNext ==
  \/ Sender
  \/ \E r \in Receiver :
       Join(r) \/ Receive(r) \/ ReceiveError(r) \/ \E n \in Range(wire) : Arrive(r, n)

(* Time passes, and run() of every program executes the handlers. *)
MulticastFairness == WF_multicastVars(Sender) /\ \A r \in Receiver : WF_multicastVars(Receive(r))

MulticastSpec == MulticastInit /\ [][MulticastNext]_multicastVars /\ MulticastFairness

-----------------------------------------------------------------------------

(* The group is sent "Message 0", "Message 1", ... without a gap or a       *)
(* repetition: _message is not overwritten by the next number while the     *)
(* kernel has still to take it from the buffer.                             *)
NumberedInOrder == wire = [i \in 1 .. Len(wire) |-> i - 1]

(* The sender ends; it has then sent max_message_count messages - not one   *)
(* more or less - or been stopped by an error of a send.                    *)
SenderEnds ==
  <>[](SenderDone /\ (Len(wire) = MaxMessages \/ Len(wire) = message))

(* A receiver prints everything that reaches its socket, whatever is        *)
(* repeated or out of order, until an error of the socket.                  *)
EverythingIsPrinted ==
  \A r \in Receiver : \A n \in 0 .. Copies :
    arrived[r] >= n ~> (Len(printed[r]) >= n \/ receiver[r] = "over")

-----------------------------------------------------------------------------
(* Inductive invariant: what the buffer holds is the next number while a    *)
(* send is under way, and the last one sent while the timer runs.           *)

SenderTypeOK ==
  /\ sending \in {"pending", "sent", "failed", "none"}
  /\ timer \in {"waiting", "idle"}
  /\ message \in Nat /\ wire \in Seq(Nat)
  /\ count = message + 1 /\ count <= MaxMessages

OneAtATime ==
  /\ timer = "waiting" => sending = "none" /\ count < MaxMessages
  /\ sending \in {"pending", "failed"} => Len(wire) = message
  /\ sending = "sent" \/ timer = "waiting" => Len(wire) = count

(* The safety part of SenderEnds. *)
EndsWithTheLast == SenderDone => Len(wire) = MaxMessages \/ Len(wire) = message

SenderInv == SenderTypeOK /\ OneAtATime /\ NumberedInOrder /\ EndsWithTheLast
-----------------------------------------------------------------------------
(* What the receivers print.                                                *)

(* No receiver has a handler left to run. *)
ReceiversRest == \A r \in Receiver : receiver[r] = "open" => buffer[r] = << >>

(* The safety part of EverythingIsPrinted: a receiver with nothing left to  *)
(* do has printed what has arrived, or met an error.                        *)
RestsWhenPrinted ==
  ReceiversRest =>
    \A r \in Receiver : receiver[r] # "over" => Len(printed[r]) = arrived[r]

(* The receive buffer and the output hold what has arrived, and nothing     *)
(* that the sender has not sent.                                            *)
AllArrivals ==
  /\ receiver \in [Receiver -> {"absent", "open", "over"}]
  /\ arrived \in [Receiver -> Nat]
  /\ buffer \in [Receiver -> Seq(Nat)] /\ printed \in [Receiver -> Seq(Nat)]
  /\ \A r \in Receiver :
       /\ arrived[r] = Len(printed[r]) + Len(buffer[r])
       /\ receiver[r] = "absent" => arrived[r] = 0
       /\ \A k \in 1 .. Len(buffer[r]) : buffer[r][k] < Len(wire)
       /\ \A k \in 1 .. Len(printed[r]) : printed[r][k] < Len(wire)

(* Whatever the network does to the datagrams, a receiver prints only       *)
(* messages that were sent.                                                 *)
PrintsWhatWasSent ==
  \A r \in Receiver : \A k \in 1 .. Len(printed[r]) :
    printed[r][k] \in 0 .. Len(wire) - 1

=============================================================================
