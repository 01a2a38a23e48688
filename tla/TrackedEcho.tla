------------------------------- MODULE TrackedEcho -------------------------------
(***************************************************************************)
(* A session of allocation_async/server.cpp in a program built with        *)
(* custom_tracking.hpp as its BOOST_ASIO_CUSTOM_HANDLER_TRACKING: asio     *)
(* calls the hooks around each of the session's operations, which lie in   *)
(* the storage of the session one after the other.  The one thread in      *)
(* run() executes everything.                                              *)
(***************************************************************************)
EXTENDS EchoSession

Main == "main"

VARIABLES next_handler_id, handler, current, lines

trackingVars == <<next_handler_id, handler, current, lines>>
trackedVars == <<vars, trackingVars>>

Tracking ==
  INSTANCE HandlerTracking WITH
    Thread <- {Main}, Memory <- {"acceptor", "storage", "heap"}

TrackedInit == Init /\ Tracking!Init

(* The accept in whose handler the session is made. *)
AcceptStarts ==
  /\ next_handler_id = 1
  /\ Tracking!Creation(Main, "acceptor")
  /\ UNCHANGED vars

AcceptCompletes ==
  /\ called = "accept"
  /\ Tracking!Completion(Main, "acceptor")
  /\ UNCHANGED vars

(* An operation of the session completes, in whichever way. *)
TrackedCompletion ==
  /\ ReadCompletes \/ WriteCompletes \/ \E k \in Kind : Fails(k)
  /\ Tracking!Completion(Main, place)

(* BEGIN, the call of the handler, which may start an operation, and END. *)
Enter == called # "none" /\ phase = "called" /\ Tracking!InvocationBegin(Main) /\ UNCHANGED vars

TrackedBody ==
  /\ current[Main] # << >> /\ Head(current[Main]).stage = "entered"
  /\ HandlerBody
  /\ IF op' = "none" THEN UNCHANGED trackingVars ELSE Tracking!Creation(Main, place')

Leave == called # "none" /\ phase = "ended" /\ Tracking!InvocationEnd(Main) /\ UNCHANGED vars

(* The handler is destroyed, then the completion. *)
TrackedDestroyed ==
  /\ current[Main] # << >> /\ Head(current[Main]).stage = "left"
  /\ HandlerDestroyed
  /\ Tracking!CompletionGoes(Main)

TrackedRun ==
  AcceptStarts \/ AcceptCompletes \/ TrackedCompletion \/ Enter \/ TrackedBody \/ Leave \/ TrackedDestroyed

Peer == ClientSend \/ ClientLeave("half") \/ ClientLeave("reset")

TrackedNext == TrackedRun \/ (Peer /\ UNCHANGED trackingVars)

(* run() executes every handler that is ready; the client reads its echo. *)
TrackedSpec == TrackedInit /\ [][TrackedNext]_trackedVars /\ WF_trackedVars(TrackedRun)

-----------------------------------------------------------------------------

(* The lines printed for the session can be read (see HandlerTracking).     *)
LogIsReadable == Tracking!LogIsReadable

=============================================================================
