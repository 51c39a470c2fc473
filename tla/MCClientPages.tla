--------------------------- MODULE MCClientPages ----------------------------
(* An administrator with two conversations, and a user with none. *)
EXTENDS ClientPages

CONSTANTS ann, bob, r1, r2
AnnAndBob == {ann, bob}
Ann == {ann}
TwoRequests == {r1, r2}
Two == 1..2
OwnerOf == [c \in Two |-> ann]
FirstOnly == {1}
=============================================================================
