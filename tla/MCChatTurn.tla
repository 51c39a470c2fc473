----------------------------- MODULE MCChatTurn -----------------------------
(* Requests as model values. *)
EXTENDS ChatTurn

CONSTANTS r1, r2
Two == {r1, r2}
=============================================================================
