------------------------ MODULE ConversationHistory ------------------------
(***************************************************************************)
(* The per-user conversation history of backend-api                        *)
(* (history/store/ConversationHistoryStore.java): concurrent HTTP request  *)
(* threads record turns and delete conversations in one H2 table.          *)
(*                                                                         *)
(* recordTurn runs find, append and commit under a monitor of the session; *)
(* delete runs find and commit in a transaction of its own and takes no    *)
(* monitor.  A transaction reads what is committed and writes at commit;   *)
(* an UPDATE or DELETE that no longer finds its row fails the transaction  *)
(* (Hibernate's row-count check).  A restart loses the monitors and the    *)
(* threads, never the committed rows.                                      *)
(***************************************************************************)
EXTENDS Naturals, Sequences

CONSTANTS Sessions,     \* session ids the clients use
          Users,        \* authenticated users (e-mail addresses)
          Requests,     \* HTTP requests; a recording request names its turn
          NoRow,        \* findById found nothing
          Nobody,       \* the monitor is free
          MaxRestarts   \* bound on restarts of the JVM

ASSUME HistoryAssumption ==
    /\ Nobody \notin Requests
    /\ NoRow \notin [owner : Users, turns : Seq(Requests)]
    /\ MaxRestarts \in Nat

VARIABLES rows,      \* table conversation_history: session -> row or NoRow
          holder,    \* sessionLocks: session -> request inside the monitor
          pc,        \* where each request is
          task,      \* what each request was asked: user and session
          seen,      \* the row the request's findById returned
          outcome,   \* how the request's transaction ended
          erased,    \* history: turns that went away with a deleted row
          restarts   \* how often the JVM was restarted

vars == <<rows, holder, pc, task, seen, outcome, erased, restarts>>

-----------------------------------------------------------------------------
(* Types *)

Conversation == [owner : Users, turns : Seq(Requests) \ {<<>>}]
Task == [user : Users, session : Sessions]

\* Program points of recordTurn; "find", "commit" and "release" are inside the monitor.
InMonitor == {"find", "commit", "release"}
Running == InMonitor \cup {"blocked", "deleteCommit"}

TypeOK ==
    /\ rows \in [Sessions -> Conversation \cup {NoRow}]
    /\ holder \in [Sessions -> Requests \cup {Nobody}]
    /\ pc \in [Requests -> Running \cup {"idle", "done", "dead"}]
    /\ task \in [Requests -> Task]
    /\ seen \in [Requests -> Conversation \cup {NoRow}]
    /\ outcome \in [Requests -> {"none", "saved", "refused", "failed",
                                 "deleted", "notFound"}]
    /\ erased \in SUBSET Requests
    /\ restarts \in 0..MaxRestarts

-----------------------------------------------------------------------------
(* State *)

TurnsIn(row) == IF row = NoRow THEN {} ELSE {row.turns[i] : i \in DOMAIN row.turns}

\* What a request asks for is fixed when it arrives; until then any task may be its own.
Init ==
    /\ rows = [s \in Sessions |-> NoRow]
    /\ holder = [s \in Sessions |-> Nobody]
    /\ pc = [r \in Requests |-> "idle"]
    /\ task \in [Requests -> Task]
    /\ seen = [r \in Requests |-> NoRow]
    /\ outcome = [r \in Requests |-> "none"]
    /\ erased = {}
    /\ restarts = 0

Goto(r, l) == pc' = [pc EXCEPT ![r] = l]
Finish(r, how) == outcome' = [outcome EXCEPT ![r] = how]

-----------------------------------------------------------------------------
(* recordTurn *)

\* recordTurn fetches the session's monitor and waits to enter it.
RecordTurn(r) ==
    /\ pc[r] = "idle"
    /\ Goto(r, "blocked")
    /\ UNCHANGED <<rows, holder, task, seen, outcome, erased, restarts>>

NoExclusion(s) == TRUE   \* Fault: every call makes a monitor object of its own.

MonitorFree(s) == holder[s] = Nobody

Enter(r) ==
    /\ pc[r] = "blocked"
    /\ MonitorFree(task[r].session)
    /\ holder' = [holder EXCEPT ![task[r].session] = r]
    /\ Goto(r, "find")
    /\ UNCHANGED <<rows, task, seen, outcome, erased, restarts>>

NoOwnerCheck(r, row) == TRUE   \* Fault: the ownership check is missing.

\* The conversation of another user is left alone: the transaction ends without a write.
MayWrite(r, row) == row = NoRow \/ row.owner = task[r].user

FindForRecord(r) ==
    /\ pc[r] = "find"
    /\ seen' = [seen EXCEPT ![r] = rows[task[r].session]]
    /\ IF MayWrite(r, seen'[r])
       THEN Goto(r, "commit") /\ UNCHANGED outcome
       ELSE Goto(r, "release") /\ Finish(r, "refused")
    /\ UNCHANGED <<rows, holder, task, erased, restarts>>

\* Fault: the entity is saved before its turn is added.
WithoutFirstTurn(r) ==
    IF seen[r] = NoRow THEN [owner |-> task[r].user, turns |-> <<>>]
    ELSE [seen[r] EXCEPT !.turns = Append(@, r)]

\* Fault: the turns are rebuilt with the newest first.
NewestFirst(r) ==
    IF seen[r] = NoRow THEN [owner |-> task[r].user, turns |-> <<r>>]
    ELSE [seen[r] EXCEPT !.turns = <<r>> \o @]

\* The entity that save() writes: the row that was read, or a new one, plus this turn.
WithTurn(r) ==
    IF seen[r] = NoRow
    THEN [owner |-> task[r].user, turns |-> <<r>>]
    ELSE [seen[r] EXCEPT !.turns = Append(@, r)]

Upsert(r) == TRUE   \* Fault: the write is not tied to the row that was read.

\* INSERT succeeds where there is no row, UPDATE where there is one.
WriteApplies(r) == (seen[r] = NoRow) = (rows[task[r].session] = NoRow)

CommitRecord(r) ==
    /\ pc[r] = "commit"
    /\ IF WriteApplies(r)
       THEN /\ rows' = [rows EXCEPT ![task[r].session] = WithTurn(r)]
            /\ Finish(r, "saved")
       ELSE UNCHANGED rows /\ Finish(r, "failed")
    /\ Goto(r, "release")
    /\ UNCHANGED <<holder, task, seen, erased, restarts>>

\* The database (or the JSON converter) throws: the transaction rolls back.
RollbackRecord(r) ==
    /\ pc[r] = "commit"
    /\ Finish(r, "failed")
    /\ Goto(r, "release")
    /\ UNCHANGED <<rows, holder, task, seen, erased, restarts>>

\* Fault: an explicit lock that is not released when the transaction threw.
KeptByFailure(r) == IF outcome[r] = "failed" THEN r ELSE Nobody

\* The synchronized block ends, also when an exception passes through it.
AfterLeaving(r) == Nobody

Leave(r) ==
    /\ pc[r] = "release"
    /\ holder' = [holder EXCEPT ![task[r].session] = AfterLeaving(r)]
    /\ Goto(r, "done")
    /\ UNCHANGED <<rows, task, seen, outcome, erased, restarts>>

-----------------------------------------------------------------------------
(* delete *)

\* The first statement of the delete transaction; someone else's row counts as absent.
FindForDelete(r) ==
    /\ pc[r] = "idle"
    /\ seen' = [seen EXCEPT ![r] = rows[task[r].session]]
    /\ IF seen'[r] # NoRow /\ seen'[r].owner = task[r].user
       THEN Goto(r, "deleteCommit") /\ UNCHANGED outcome
       ELSE Goto(r, "done") /\ Finish(r, "notFound")
    /\ UNCHANGED <<rows, holder, task, erased, restarts>>

\* DELETE by session id: it takes whatever the row holds by then, and fails without a row.
CommitDelete(r) ==
    /\ pc[r] = "deleteCommit"
    /\ IF rows[task[r].session] # NoRow
       THEN /\ erased' = erased \cup TurnsIn(rows[task[r].session])
            /\ rows' = [rows EXCEPT ![task[r].session] = NoRow]
            /\ Finish(r, "deleted")
       ELSE UNCHANGED <<rows, erased>> /\ Finish(r, "failed")
    /\ Goto(r, "done")
    /\ UNCHANGED <<holder, task, seen, restarts>>

-----------------------------------------------------------------------------
(* Restart of the backend *)

Restart ==
    /\ restarts < MaxRestarts
    /\ restarts' = restarts + 1
    /\ holder' = [s \in Sessions |-> Nobody]
    /\ pc' = [r \in Requests |-> IF pc[r] \in Running THEN "dead" ELSE pc[r]]
    /\ UNCHANGED <<rows, task, seen, outcome, erased>>

-----------------------------------------------------------------------------
(* Specification *)

Progress(r) ==
    \/ Enter(r) \/ FindForRecord(r) \/ CommitRecord(r) \/ RollbackRecord(r)
    \/ Leave(r) \/ CommitDelete(r)

Next ==
    \/ \E r \in Requests : RecordTurn(r) \/ FindForDelete(r) \/ Progress(r)
    \/ Restart

Spec == Init /\ [][Next]_vars

\* A running thread is scheduled again and again; arrivals and restarts need not happen.
FairSpec == Spec /\ \A r \in Requests : WF_vars(Progress(r))

-----------------------------------------------------------------------------
(* Properties *)

\* The turn of every recordTurn whose transaction committed is in its session's
\* conversation, unless a delete took that conversation away afterwards: no
\* concurrent recordTurn overwrites it (the lost update the monitor was added for).
NoLostTurn ==
    \A r \in Requests :
        outcome[r] = "saved" => r \in TurnsIn(rows[task[r].session]) \cup erased

\* A conversation holds turns of its owner only, whoever owned the session id before.
OwnTurnsOnly ==
    \A s \in Sessions : \A t \in TurnsIn(rows[s]) :
        task[t].user = rows[s].owner /\ task[t].session = s

\* A turn is shown only if its own transaction committed, it is shown once, and a
\* deleted turn never comes back with a write that had read the row before the delete.
NoPhantomTurn ==
    \A s \in Sessions : rows[s] # NoRow =>
        /\ TurnsIn(rows[s]) \cap erased = {}
        /\ \A t \in TurnsIn(rows[s]) : outcome[t] = "saved"
        /\ \A i, j \in DOMAIN rows[s].turns :
              rows[s].turns[i] = rows[s].turns[j] => i = j

\* Together: a conversation is, at any moment, the committed and undeleted turns of its owner
\* for its session, each of them once (ConversationHistoryStore.recordTurn, delete).
ConversationIsItsTurns == NoLostTurn /\ OwnTurnsOnly /\ NoPhantomTurn

\* Every step is an append of one turn by its user, the removal of one whole
\* conversation, or invisible: conversations are never rewritten or reordered.
Log == INSTANCE HistoryLog WITH Turns <- Requests
ImplementsLog == Log!LogSpec

\* Every request that entered recordTurn or delete returns, unless the JVM goes away:
\* the monitors are handed over whatever way the transaction before ended.
EveryRequestReturns ==
    \A r \in Requests : pc[r] \in Running ~> pc[r] \in {"done", "dead"}

\* info.md:595: "DELETE /api/chat/history/{id} allows users to delete their own
\* conversation entries" - a conversation is removed by a request of its owner only.
DeletedByOwnerOnly ==
    [][\A s \in Sessions : rows[s] # NoRow /\ rows'[s] = NoRow =>
          \E r \in Requests : /\ pc[r] = "deleteCommit" /\ pc'[r] = "done"
                              /\ task[r].session = s
                              /\ task[r].user = rows[s].owner]_vars
=============================================================================
