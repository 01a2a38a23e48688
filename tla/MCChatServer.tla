------------------------------ MODULE MCChatServer ------------------------------
(* The safety runs treat connections and messages as interchangeable. *)
EXTENDS ChatServer, TLC

Symmetry == Permutations(Session) \cup Permutations(Msg)

=============================================================================
