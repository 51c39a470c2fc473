---------------------------- MODULE MCLiveQueue ----------------------------
(* Two agents for TLC: the first takes whatever comes, the second is a worker that only       *)
(* generates or a controller that does not.                                                   *)
EXTENDS LiveQueue, TLC

CONSTANTS a1, a2

Both == {a1, a2}
Mixed == a1 :> EventTypes @@ a2 :> {"generate"}
=============================================================================
