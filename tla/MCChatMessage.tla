----------------------------- MODULE MCChatMessage -----------------------------
(* Characters that take every branch of atoi: blank, both signs, digits that  *)
(* spell the limit 512 and its neighbours, a letter, the end of a string.   *)
EXTENDS ChatMessage

MCChars == {Blank, Minus, Plus, "1", "2", "5", "x", NUL}

=============================================================================
