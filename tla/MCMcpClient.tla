---------------------------- MODULE MCMcpClient -----------------------------
(* Threads as model values. *)
EXTENDS McpClient

CONSTANTS t1, t2
Two == {t1, t2}
=============================================================================
