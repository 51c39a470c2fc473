----------------------------- MODULE MCChatPage -----------------------------
(* Turns as model values. *)
EXTENDS ChatPage

CONSTANTS q1, q2, q3
Three == {q1, q2, q3}
=============================================================================
