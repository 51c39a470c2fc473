----------------------------- MODULE HistoryLog -----------------------------
(***************************************************************************)
(* What the conversation history promises, with no locks, transactions or  *)
(* in-flight requests: each session is absent or one conversation owned by *)
(* one user; a recorded turn is appended, in one step and once, to a       *)
(* conversation of its own user; a conversation disappears only as a       *)
(* whole, and what disappeared never comes back.                           *)
(***************************************************************************)
EXTENDS Naturals, Sequences

CONSTANTS Sessions,   \* session ids
          Users,      \* user e-mail addresses
          Turns,      \* identities of chat turns
          NoRow       \* a session without a conversation

VARIABLES rows,       \* session id -> its conversation, or NoRow
          erased      \* turns removed together with their conversation

logVars == <<rows, erased>>

TurnsIn(row) == IF row = NoRow THEN {} ELSE {row.turns[i] : i \in DOMAIN row.turns}

LogInit ==
    /\ rows = [s \in Sessions |-> NoRow]
    /\ erased = {}

\* A turn nobody has recorded yet opens a conversation or continues one of its user.
AppendTurn(s, u, t) ==
    /\ t \notin erased
    /\ \A q \in Sessions : t \notin TurnsIn(rows[q])
    /\ \/ /\ rows[s] = NoRow
          /\ rows' = [rows EXCEPT ![s] = [owner |-> u, turns |-> <<t>>]]
       \/ /\ rows[s] # NoRow
          /\ rows[s].owner = u
          /\ rows' = [rows EXCEPT ![s].turns = Append(@, t)]
    /\ UNCHANGED erased

Erase(s) ==
    /\ rows[s] # NoRow
    /\ rows' = [rows EXCEPT ![s] = NoRow]
    /\ erased' = erased \cup TurnsIn(rows[s])

LogNext ==
    \/ \E s \in Sessions, u \in Users, t \in Turns : AppendTurn(s, u, t)
    \/ \E s \in Sessions : Erase(s)

LogSpec == LogInit /\ [][LogNext]_logVars
=============================================================================
