----------------------------- MODULE MCSlaClock -----------------------------
(* The three tiers, promised days around the start, and days beyond every threshold. *)
EXTENDS SlaClock

AllTiers == {"STANDARD", "GOLD", "PLATINUM"}
Promises == {-6, 0, 2}
=============================================================================
