----------------------- MODULE MCConversationHistory -----------------------
(* Instances of ConversationHistory for TLC. *)
EXTENDS ConversationHistory

CONSTANTS s1, s2, u1, u2, r1, r2, r3, r4

OneSession == {s1}
TwoSessions == {s1, s2}
TwoUsers == {u1, u2}
ThreeRequests == {r1, r2, r3}
FourRequests == {r1, r2, r3, r4}
=============================================================================
