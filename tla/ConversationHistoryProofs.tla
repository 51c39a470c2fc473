---------------------- MODULE ConversationHistoryProofs ----------------------
(***************************************************************************)
(* Proofs about ConversationHistory, for any sets of sessions, users and   *)
(* requests and any number of restarts: its invariants, and that it        *)
(* implements HistoryLog.                                                  *)
(***************************************************************************)
EXTENDS ConversationHistory, TLAPS

\* Whoever is inside the monitor of a session is the one recorded as its holder,
\* so no two requests are inside the same monitor.
MonitorInv == \A r \in Requests : pc[r] \in InMonitor => holder[task[r].session] = r

\* Between find and commit a row can only disappear, and only by a delete.
SeenInv ==
    \A r \in Requests : pc[r] = "commit" =>
        /\ MayWrite(r, seen[r])
        /\ rows[task[r].session] \in {seen[r], NoRow}

\* A transaction that has not ended has no outcome yet.
OutcomeInv ==
    \A r \in Requests :
        pc[r] \in {"idle", "blocked", "find", "commit", "deleteCommit"} => outcome[r] = "none"

\* Only turns that were once saved are erased.
ErasedInv == \A t \in erased : outcome[t] = "saved"

IInv ==
    /\ TypeOK /\ MonitorInv /\ SeenInv /\ OutcomeInv /\ ErasedInv
    /\ NoLostTurn /\ OwnTurnsOnly /\ NoPhantomTurn

-----------------------------------------------------------------------------

\* A row is never mistaken for the answer "no row".
LEMMA RowsAreNotNoRow ==
    /\ \A c \in Conversation : c # NoRow
    /\ \A u \in Users, q \in Seq(Requests) : [owner |-> u, turns |-> q] # NoRow
BY HistoryAssumption DEF HistoryAssumption, Conversation

\* What a write adds to a conversation is the writer's turn and nothing else.
LEMMA TurnsOfWithTurn ==
    ASSUME TypeOK, NEW r \in Requests
    PROVE  /\ WithTurn(r) \in Conversation
           /\ TurnsIn(WithTurn(r)) = TurnsIn(seen[r]) \cup {r}
           /\ WithTurn(r).owner = IF seen[r] = NoRow THEN task[r].user ELSE seen[r].owner
<1>1. CASE seen[r] = NoRow
  <2>1. WithTurn(r) = [owner |-> task[r].user, turns |-> <<r>>]
    BY <1>1 DEF WithTurn
  <2>2. task[r].user \in Users /\ <<r>> \in Seq(Requests) \ {<<>>}
    BY DEF TypeOK, Task
  <2>3. WithTurn(r) \in Conversation
    BY <2>1, <2>2 DEF Conversation
  <2>4. TurnsIn(WithTurn(r)) = {r}
    <3>1. WithTurn(r) # NoRow
      BY <2>3, RowsAreNotNoRow
    <3>2. WithTurn(r).turns = <<r>>
      BY <2>1
    <3>3. {WithTurn(r).turns[i] : i \in DOMAIN WithTurn(r).turns} = {r}
      BY <3>2
    <3> QED BY <3>1, <3>3 DEF TurnsIn
  <2>5. TurnsIn(seen[r]) = {}
    BY <1>1 DEF TurnsIn
  <2> QED BY <1>1, <2>1, <2>3, <2>4, <2>5
<1>2. CASE seen[r] # NoRow
  <2> DEFINE q == seen[r].turns
  <2>1. seen[r] \in Conversation
    BY <1>2 DEF TypeOK
  <2>2. seen[r].owner \in Users /\ q \in Seq(Requests)
    BY <2>1 DEF Conversation
  <2>3. WithTurn(r) = [owner |-> seen[r].owner, turns |-> Append(q, r)]
    BY <1>2, <2>1 DEF WithTurn, Conversation
  <2>4. Append(q, r) \in Seq(Requests) \ {<<>>}
    BY <2>2
  <2>5. WithTurn(r) \in Conversation
    BY <2>2, <2>3, <2>4 DEF Conversation
  <2>6. TurnsIn(WithTurn(r)) = TurnsIn(seen[r]) \cup {r}
    <3>1. WithTurn(r) # NoRow
      BY <2>5, RowsAreNotNoRow
    <3>2. TurnsIn(WithTurn(r)) = {Append(q, r)[i] : i \in DOMAIN Append(q, r)}
      BY <3>1, <2>3 DEF TurnsIn
    <3>3. TurnsIn(seen[r]) = {q[i] : i \in DOMAIN q}
      BY <1>2 DEF TurnsIn
    <3>4. {Append(q, r)[i] : i \in DOMAIN Append(q, r)} = {q[i] : i \in DOMAIN q} \cup {r}
      <4>1. DOMAIN q = 1..Len(q) /\ Len(q) \in Nat /\ DOMAIN Append(q, r) = 1..(Len(q) + 1)
        BY <2>2
      <4>2. \A i \in 1..Len(q) : Append(q, r)[i] = q[i]
        BY <2>2
      <4>3. Append(q, r)[Len(q) + 1] = r
        BY <2>2
      <4> HIDE DEF q
      <4>4. 1..(Len(q) + 1) = (1..Len(q)) \cup {Len(q) + 1}
        BY <4>1
      <4> QED BY <4>1, <4>2, <4>3, <4>4
    <3> QED BY <3>2, <3>3, <3>4
  <2>7. WithTurn(r).owner = seen[r].owner
    BY <2>3
  <2> QED BY <1>2, <2>5, <2>6, <2>7
<1> QED BY <1>1, <1>2

-----------------------------------------------------------------------------
(* The invariant holds initially and every step preserves it. *)

LEMMA InitIInv == Init => IInv
<1> SUFFICES ASSUME Init PROVE IInv
  OBVIOUS
<1>1. TypeOK
  BY HistoryAssumption DEF Init, TypeOK, HistoryAssumption
<1>2. \A s \in Sessions : rows[s] = NoRow /\ TurnsIn(rows[s]) = {}
  BY DEF Init, TurnsIn
<1>3. MonitorInv /\ SeenInv /\ OutcomeInv /\ ErasedInv /\ NoLostTurn
  BY DEF Init, MonitorInv, SeenInv, OutcomeInv, ErasedInv, NoLostTurn, InMonitor
<1>4. OwnTurnsOnly /\ NoPhantomTurn
  BY <1>2 DEF OwnTurnsOnly, NoPhantomTurn
<1> QED BY <1>1, <1>3, <1>4 DEF IInv

\* Steps that leave the table and the turns' fate alone keep the properties of the table.
LEMMA TableUnchanged ==
    ASSUME TypeOK, NoLostTurn, OwnTurnsOnly, NoPhantomTurn, ErasedInv, OutcomeInv,
           rows' = rows, task' = task, erased' = erased,
           \A r \in Requests : outcome'[r] = outcome[r]
                                \/ (outcome[r] = "none" /\ outcome'[r] # "saved")
    PROVE  NoLostTurn' /\ OwnTurnsOnly' /\ NoPhantomTurn' /\ ErasedInv'
<1>1. \A s \in Sessions : TurnsIn(rows[s])' = TurnsIn(rows[s])
  BY DEF TurnsIn
<1>2. \A r \in Requests : (outcome[r] = "saved") = (outcome'[r] = "saved")
  OBVIOUS
<1>3. NoLostTurn'
  BY <1>1, <1>2 DEF NoLostTurn, TypeOK, Task
<1>4. OwnTurnsOnly'
  BY <1>1 DEF OwnTurnsOnly
<1>5. ErasedInv'
  BY <1>2 DEF ErasedInv, TypeOK
<1>6. NoPhantomTurn'
  <2>1. \A s \in Sessions : TurnsIn(rows[s]) \subseteq Requests
    BY DEF TurnsIn, TypeOK, Conversation
  <2> QED BY <1>1, <1>2, <2>1 DEF NoPhantomTurn
<1> QED BY <1>3, <1>4, <1>5, <1>6

LEMMA RecordTurnKeepsIInv ==
    ASSUME IInv, NEW r \in Requests, RecordTurn(r) PROVE IInv'
<1> USE DEF IInv
<1>1. TypeOK'
  BY DEF TypeOK, RecordTurn, Goto, Running, InMonitor
<1>2. MonitorInv' /\ SeenInv' /\ OutcomeInv'
  BY DEF TypeOK, RecordTurn, Goto, MonitorInv, SeenInv, OutcomeInv, InMonitor, MayWrite
<1>3. NoLostTurn' /\ OwnTurnsOnly' /\ NoPhantomTurn' /\ ErasedInv'
  BY TableUnchanged DEF RecordTurn
<1> QED BY <1>1, <1>2, <1>3

LEMMA EnterKeepsIInv ==
    ASSUME IInv, NEW r \in Requests, Enter(r) PROVE IInv'
<1> USE DEF IInv
<1>1. TypeOK'
  BY DEF TypeOK, Enter, Goto, Running, InMonitor, Task
<1>2. MonitorInv'
  <2> SUFFICES ASSUME NEW q \in Requests, pc'[q] \in InMonitor
               PROVE  holder'[task'[q].session] = q
    BY DEF MonitorInv
  <2>1. CASE q = r
    BY <2>1 DEF Enter, TypeOK, Task
  <2>2. CASE q # r
    <3>1. holder[task[q].session] = q
      BY <2>2 DEF Enter, Goto, MonitorInv, TypeOK
    <3>2. task[q].session # task[r].session
      BY <3>1, HistoryAssumption DEF Enter, MonitorFree, HistoryAssumption
    <3> QED BY <3>1, <3>2 DEF Enter, TypeOK, Task
  <2> QED BY <2>1, <2>2
<1>3. SeenInv' /\ OutcomeInv'
  BY DEF TypeOK, Enter, Goto, SeenInv, OutcomeInv, MayWrite
<1>4. NoLostTurn' /\ OwnTurnsOnly' /\ NoPhantomTurn' /\ ErasedInv'
  BY TableUnchanged DEF Enter
<1> QED BY <1>1, <1>2, <1>3, <1>4

LEMMA FindForRecordKeepsIInv ==
    ASSUME IInv, NEW r \in Requests, FindForRecord(r) PROVE IInv'
<1> USE DEF IInv
<1>1. TypeOK'
  BY DEF TypeOK, FindForRecord, Goto, Finish, Running, InMonitor, Task
<1>2. MonitorInv'
  BY DEF TypeOK, FindForRecord, Goto, MonitorInv, InMonitor
<1>3. SeenInv'
  BY DEF TypeOK, FindForRecord, Goto, SeenInv, MayWrite
<1>4. OutcomeInv'
  BY DEF TypeOK, FindForRecord, Goto, Finish, OutcomeInv
<1>5. \A q \in Requests : outcome'[q] = outcome[q]
                           \/ (outcome[q] = "none" /\ outcome'[q] # "saved")
  BY DEF TypeOK, FindForRecord, Finish, OutcomeInv
<1>6. NoLostTurn' /\ OwnTurnsOnly' /\ NoPhantomTurn' /\ ErasedInv'
  BY <1>5, TableUnchanged DEF FindForRecord
<1> QED BY <1>1, <1>2, <1>3, <1>4, <1>6

LEMMA LeaveKeepsIInv ==
    ASSUME IInv, NEW r \in Requests, Leave(r) PROVE IInv'
<1> USE DEF IInv
<1>1. TypeOK'
  BY DEF TypeOK, Leave, AfterLeaving, Goto, Running, InMonitor, Task
<1>2. MonitorInv'
  <2> SUFFICES ASSUME NEW q \in Requests, pc'[q] \in InMonitor
               PROVE  holder'[task'[q].session] = q
    BY DEF MonitorInv
  <2>1. q # r /\ pc[q] \in InMonitor
    BY DEF Leave, Goto, TypeOK, InMonitor
  <2>2. task[q].session # task[r].session
    BY <2>1 DEF MonitorInv, Leave, InMonitor
  <2> QED BY <2>1, <2>2 DEF MonitorInv, Leave, TypeOK, Task
<1>3. SeenInv' /\ OutcomeInv'
  BY DEF TypeOK, Leave, Goto, SeenInv, OutcomeInv, MayWrite
<1>4. NoLostTurn' /\ OwnTurnsOnly' /\ NoPhantomTurn' /\ ErasedInv'
  BY TableUnchanged DEF Leave
<1> QED BY <1>1, <1>2, <1>3, <1>4

LEMMA RollbackRecordKeepsIInv ==
    ASSUME IInv, NEW r \in Requests, RollbackRecord(r) PROVE IInv'
<1> USE DEF IInv
<1>1. TypeOK'
  BY DEF TypeOK, RollbackRecord, Goto, Finish, Running, InMonitor
<1>2. MonitorInv' /\ SeenInv' /\ OutcomeInv'
  BY DEF TypeOK, RollbackRecord, Goto, Finish, MonitorInv, SeenInv, OutcomeInv, InMonitor, MayWrite
<1>3. \A q \in Requests : outcome'[q] = outcome[q]
                           \/ (outcome[q] = "none" /\ outcome'[q] # "saved")
  BY DEF TypeOK, RollbackRecord, Finish, OutcomeInv
<1>4. NoLostTurn' /\ OwnTurnsOnly' /\ NoPhantomTurn' /\ ErasedInv'
  BY <1>3, TableUnchanged DEF RollbackRecord
<1> QED BY <1>1, <1>2, <1>4

LEMMA FindForDeleteKeepsIInv ==
    ASSUME IInv, NEW r \in Requests, FindForDelete(r) PROVE IInv'
<1> USE DEF IInv
<1>1. TypeOK'
  BY DEF TypeOK, FindForDelete, Goto, Finish, Running, InMonitor, Task
<1>2. MonitorInv'
  BY DEF TypeOK, FindForDelete, Goto, MonitorInv, InMonitor
<1>3. SeenInv'
  BY DEF TypeOK, FindForDelete, Goto, SeenInv, MayWrite
<1>4. OutcomeInv'
  BY DEF TypeOK, FindForDelete, Goto, Finish, OutcomeInv
<1>5. \A q \in Requests : outcome'[q] = outcome[q]
                           \/ (outcome[q] = "none" /\ outcome'[q] # "saved")
  BY DEF TypeOK, FindForDelete, Finish, OutcomeInv
<1>6. NoLostTurn' /\ OwnTurnsOnly' /\ NoPhantomTurn' /\ ErasedInv'
  BY <1>5, TableUnchanged DEF FindForDelete
<1> QED BY <1>1, <1>2, <1>3, <1>4, <1>6

LEMMA RestartKeepsIInv == ASSUME IInv, Restart PROVE IInv'
<1> USE DEF IInv
<1>1. TypeOK'
  BY HistoryAssumption DEF TypeOK, Restart, Running, InMonitor, HistoryAssumption
<1>2. MonitorInv' /\ SeenInv' /\ OutcomeInv'
  BY DEF TypeOK, Restart, MonitorInv, SeenInv, OutcomeInv, Running, InMonitor
<1>3. NoLostTurn' /\ OwnTurnsOnly' /\ NoPhantomTurn' /\ ErasedInv'
  BY TableUnchanged DEF Restart
<1> QED BY <1>1, <1>2, <1>3

\* A write that applies adds one fresh turn to the conversation as it was read.
LEMMA CommitRecordKeepsIInv ==
    ASSUME IInv, NEW r \in Requests, CommitRecord(r) PROVE IInv'
<1> DEFINE s == task[r].session
<1> USE DEF IInv
<1>0. r \in Requests /\ s \in Sessions /\ pc[r] = "commit" /\ outcome[r] = "none"
  BY DEF TypeOK, Task, CommitRecord, OutcomeInv
<1>1. CASE ~WriteApplies(r)
  <2>1. rows' = rows /\ Finish(r, "failed") /\ Goto(r, "release")
    BY <1>1 DEF CommitRecord
  <2>2. TypeOK'
    BY <2>1 DEF TypeOK, CommitRecord, Goto, Finish, Running, InMonitor
  <2>3. MonitorInv' /\ SeenInv' /\ OutcomeInv'
    BY <2>1 DEF TypeOK, CommitRecord, Goto, Finish, MonitorInv, SeenInv, OutcomeInv, InMonitor, MayWrite
  <2>4. \A q \in Requests : outcome'[q] = outcome[q]
                             \/ (outcome[q] = "none" /\ outcome'[q] # "saved")
    BY <2>1, <1>0 DEF TypeOK, Finish
  <2>5. NoLostTurn' /\ OwnTurnsOnly' /\ NoPhantomTurn' /\ ErasedInv'
    BY <2>1, <2>4, TableUnchanged DEF CommitRecord
  <2> QED BY <2>2, <2>3, <2>5
<1>2. CASE WriteApplies(r)
  <2>1. /\ rows' = [rows EXCEPT ![s] = WithTurn(r)]
        /\ outcome' = [outcome EXCEPT ![r] = "saved"]
        /\ pc' = [pc EXCEPT ![r] = "release"]
        /\ holder' = holder /\ task' = task /\ seen' = seen
        /\ erased' = erased /\ restarts' = restarts
    BY <1>2 DEF CommitRecord, Goto, Finish
  <2>2. rows[s] = seen[r]
    BY <1>2, <1>0 DEF WriteApplies, SeenInv
  <2>3. /\ WithTurn(r) \in Conversation
        /\ TurnsIn(WithTurn(r)) = TurnsIn(rows[s]) \cup {r}
        /\ WithTurn(r).owner = task[r].user
    BY <1>0, <2>2, TurnsOfWithTurn DEF SeenInv, MayWrite
  <2>4. WithTurn(r) # NoRow
    BY <2>3, RowsAreNotNoRow
  <2>5. \A q \in Sessions : rows'[q] = IF q = s THEN WithTurn(r) ELSE rows[q]
    BY <1>0, <2>1 DEF TypeOK
  <2>6. \A q \in Sessions : TurnsIn(rows'[q]) =
            IF q = s THEN TurnsIn(rows[s]) \cup {r} ELSE TurnsIn(rows[q])
    BY <2>3, <2>5
  <2>7. \A q \in Requests : outcome'[q] = IF q = r THEN "saved" ELSE outcome[q]
    BY <2>1 DEF TypeOK
  <2>8. \A q \in Sessions : TurnsIn(rows[q]) \subseteq Requests
    BY DEF TurnsIn, TypeOK, Conversation
  <2>9. \A q \in Sessions : r \notin TurnsIn(rows[q])
    <3>1. \A q \in Sessions : \A t \in TurnsIn(rows[q]) : outcome[t] = "saved"
      BY DEF NoPhantomTurn, TurnsIn
    <3> QED BY <1>0, <3>1
  <2>10. r \notin erased
    BY <1>0 DEF ErasedInv
  <2>11. TypeOK'
    <3>1. rows' \in [Sessions -> Conversation \cup {NoRow}]
      BY <1>0, <2>1, <2>3 DEF TypeOK
    <3> QED BY <3>1, <2>1, <1>0 DEF TypeOK, Running, InMonitor
  <2>12. MonitorInv'
    BY <1>0, <2>1 DEF MonitorInv, TypeOK, InMonitor
  <2>13. SeenInv'
    <3> SUFFICES ASSUME NEW q \in Requests, pc'[q] = "commit"
                 PROVE  MayWrite(q, seen[q]) /\ rows'[task[q].session] \in {seen[q], NoRow}
      BY <2>1 DEF SeenInv, MayWrite
    <3>1. q # r /\ pc[q] = "commit"
      BY <2>1 DEF TypeOK
    <3>2. task[q].session # s
      BY <1>0, <3>1 DEF MonitorInv, InMonitor
    <3>3. rows'[task[q].session] = rows[task[q].session]
      BY <2>5, <3>2 DEF TypeOK, Task
    <3> QED BY <3>1, <3>3 DEF SeenInv
  <2>14. OutcomeInv' /\ ErasedInv'
    BY <1>0, <2>1, <2>7 DEF OutcomeInv, ErasedInv, TypeOK
  <2>15. NoLostTurn'
    <3> SUFFICES ASSUME NEW q \in Requests, outcome'[q] = "saved"
                 PROVE  q \in TurnsIn(rows'[task[q].session]) \cup erased
      BY <2>1 DEF NoLostTurn, TurnsIn
    <3>1. CASE q = r
      BY <1>0, <2>6, <3>1
    <3>2. CASE q # r
      <4>1. q \in TurnsIn(rows[task[q].session]) \cup erased
        BY <2>7, <3>2 DEF NoLostTurn
      <4> QED BY <4>1, <2>6 DEF TypeOK, Task
    <3> QED BY <3>1, <3>2
  <2>16. OwnTurnsOnly'
    <3> SUFFICES ASSUME NEW q \in Sessions, NEW t \in TurnsIn(rows'[q])
                 PROVE  task[t].user = rows'[q].owner /\ task[t].session = q
      BY <2>1 DEF OwnTurnsOnly, TurnsIn
    <3>1. CASE q # s
      BY <2>5, <2>6, <3>1 DEF OwnTurnsOnly
    <3>2. CASE q = s /\ t = r
      BY <2>3, <2>5, <3>2
    <3>3. CASE q = s /\ t \in TurnsIn(rows[s])
      <4>1. task[t].user = rows[s].owner /\ task[t].session = s
        BY <1>0, <3>3 DEF OwnTurnsOnly
      <4>2. rows[s] # NoRow
        BY <3>3 DEF TurnsIn
      <4>3. rows[s].owner = task[r].user
        BY <1>0, <2>2, <4>2 DEF SeenInv, MayWrite
      <4> QED BY <3>3, <4>1, <4>3, <2>3, <2>5
    <3> QED BY <2>6, <3>1, <3>2, <3>3
  <2>17. NoPhantomTurn'
    <3> SUFFICES ASSUME NEW q \in Sessions, rows'[q] # NoRow
                 PROVE  /\ TurnsIn(rows'[q]) \cap erased = {}
                        /\ \A t \in TurnsIn(rows'[q]) : outcome'[t] = "saved"
                        /\ \A i, j \in DOMAIN rows'[q].turns :
                              rows'[q].turns[i] = rows'[q].turns[j] => i = j
      BY <2>1 DEF NoPhantomTurn, TurnsIn
    <3>1. CASE q # s
      BY <2>5, <2>7, <2>8, <3>1 DEF NoPhantomTurn
    <3>2. CASE q = s
      <4>1. TurnsIn(rows[s]) \cap erased = {} /\ \A t \in TurnsIn(rows[s]) : outcome[t] = "saved"
        BY <1>0 DEF NoPhantomTurn, TurnsIn
      <4>2. TurnsIn(rows'[q]) \cap erased = {}
        BY <4>1, <2>6, <2>10, <3>2
      <4>3. \A t \in TurnsIn(rows'[q]) : outcome'[t] = "saved"
        BY <4>1, <2>6, <2>7, <2>8, <3>2
      <4>4. CASE seen[r] = NoRow
        BY <3>2, <2>5, <4>2, <4>3, <4>4 DEF WithTurn
      <4>5. CASE seen[r] # NoRow
        <5> DEFINE old == seen[r].turns
                   new == WithTurn(r).turns
        <5>1. seen[r] \in Conversation /\ old \in Seq(Requests)
          BY <4>5 DEF TypeOK, Conversation
        <5>2. new = Append(old, r)
          BY <4>5, <5>1 DEF WithTurn, Conversation
        <5>3. \A i, j \in DOMAIN old : old[i] = old[j] => i = j
          BY <1>0, <2>2, <4>5 DEF NoPhantomTurn
        <5>4. \A i \in DOMAIN old : old[i] # r
          BY <1>0, <2>2, <2>9, <4>5 DEF TurnsIn
        <5> HIDE DEF old, new
        <5>5. \A i, j \in DOMAIN new : new[i] = new[j] => i = j
          BY <5>1, <5>2, <5>3, <5>4
        <5> QED BY <5>5, <3>2, <2>5, <4>2, <4>3 DEF new
      <4> QED BY <4>4, <4>5
    <3> QED BY <3>1, <3>2
  <2> QED BY <2>11, <2>12, <2>13, <2>14, <2>15, <2>16, <2>17
<1> QED BY <1>1, <1>2

LEMMA CommitDeleteKeepsIInv ==
    ASSUME IInv, NEW r \in Requests, CommitDelete(r) PROVE IInv'
<1> DEFINE s == task[r].session
<1> USE DEF IInv
<1>0. s \in Sessions /\ pc[r] = "deleteCommit" /\ outcome[r] = "none"
  BY DEF TypeOK, Task, CommitDelete, OutcomeInv
<1>1. CASE rows[s] = NoRow
  <2>1. /\ rows' = rows /\ erased' = erased
        /\ Finish(r, "failed") /\ Goto(r, "done")
    BY <1>1 DEF CommitDelete
  <2>2. TypeOK'
    BY <2>1 DEF TypeOK, CommitDelete, Goto, Finish, Running, InMonitor
  <2>3. MonitorInv' /\ SeenInv' /\ OutcomeInv'
    BY <2>1 DEF TypeOK, CommitDelete, Goto, Finish, MonitorInv, SeenInv, OutcomeInv, InMonitor, MayWrite
  <2>4. \A q \in Requests : outcome'[q] = outcome[q]
                             \/ (outcome[q] = "none" /\ outcome'[q] # "saved")
    BY <2>1, <1>0 DEF TypeOK, Finish
  <2>5. NoLostTurn' /\ OwnTurnsOnly' /\ NoPhantomTurn' /\ ErasedInv'
    BY <2>1, <2>4, TableUnchanged DEF CommitDelete
  <2> QED BY <2>2, <2>3, <2>5
<1>2. CASE rows[s] # NoRow
  <2>1. /\ rows' = [rows EXCEPT ![s] = NoRow]
        /\ erased' = erased \cup TurnsIn(rows[s])
        /\ outcome' = [outcome EXCEPT ![r] = "deleted"]
        /\ pc' = [pc EXCEPT ![r] = "done"]
        /\ holder' = holder /\ task' = task /\ seen' = seen /\ restarts' = restarts
    BY <1>2 DEF CommitDelete, Goto, Finish
  <2>2. \A q \in Sessions : rows'[q] = IF q = s THEN NoRow ELSE rows[q]
    BY <2>1 DEF TypeOK
  <2>3. \A q \in Sessions : TurnsIn(rows'[q]) = IF q = s THEN {} ELSE TurnsIn(rows[q])
    BY <2>2 DEF TurnsIn
  <2>4. \A q \in Requests : (outcome'[q] = "saved") = (outcome[q] = "saved")
    BY <1>0, <2>1 DEF TypeOK
  <2>5. TurnsIn(rows[s]) \subseteq Requests /\ \A t \in TurnsIn(rows[s]) : outcome[t] = "saved"
    BY <1>0 DEF TurnsIn, TypeOK, Conversation, NoPhantomTurn
  <2>6. TypeOK'
    BY <1>0, <2>1, <2>5 DEF TypeOK, Running, InMonitor
  <2>7. MonitorInv' /\ OutcomeInv'
    BY <1>0, <2>1 DEF MonitorInv, OutcomeInv, TypeOK, InMonitor
  <2>8. SeenInv'
    <3> SUFFICES ASSUME NEW q \in Requests, pc'[q] = "commit"
                 PROVE  MayWrite(q, seen[q]) /\ rows'[task[q].session] \in {seen[q], NoRow}
      BY <2>1 DEF SeenInv, MayWrite
    <3>1. pc[q] = "commit" /\ task[q].session \in Sessions
      BY <2>1 DEF TypeOK, Task
    <3> QED BY <3>1, <2>2 DEF SeenInv
  <2>9. ErasedInv'
    BY <2>1, <2>4, <2>5 DEF ErasedInv, TypeOK
  <2>10. NoLostTurn'
    <3> SUFFICES ASSUME NEW q \in Requests, outcome'[q] = "saved"
                 PROVE  q \in TurnsIn(rows'[task[q].session]) \cup erased'
      BY <2>1 DEF NoLostTurn, TurnsIn
    <3>1. q \in TurnsIn(rows[task[q].session]) \cup erased /\ task[q].session \in Sessions
      BY <2>4 DEF NoLostTurn, TypeOK, Task
    <3> QED BY <3>1, <2>1, <2>3
  <2>11. OwnTurnsOnly'
    <3> SUFFICES ASSUME NEW q \in Sessions, NEW t \in TurnsIn(rows'[q])
                 PROVE  task[t].user = rows'[q].owner /\ task[t].session = q
      BY <2>1 DEF OwnTurnsOnly, TurnsIn
    <3> QED BY <2>2, <2>3 DEF OwnTurnsOnly
  <2>12. NoPhantomTurn'
    <3> SUFFICES ASSUME NEW q \in Sessions, rows'[q] # NoRow
                 PROVE  /\ TurnsIn(rows'[q]) \cap erased' = {}
                        /\ \A t \in TurnsIn(rows'[q]) : outcome'[t] = "saved"
                        /\ \A i, j \in DOMAIN rows'[q].turns :
                              rows'[q].turns[i] = rows'[q].turns[j] => i = j
      BY DEF NoPhantomTurn, TurnsIn
    <3>1. q # s /\ rows'[q] = rows[q] /\ TurnsIn(rows'[q]) = TurnsIn(rows[q])
      BY <2>2, <2>3
    <3>2. /\ TurnsIn(rows[q]) \cap erased = {}
          /\ \A t \in TurnsIn(rows[q]) : outcome[t] = "saved"
          /\ \A i, j \in DOMAIN rows[q].turns :
                rows[q].turns[i] = rows[q].turns[j] => i = j
      BY <3>1 DEF NoPhantomTurn
    <3>3. TurnsIn(rows[q]) \cap TurnsIn(rows[s]) = {}
      BY <1>0, <3>1 DEF OwnTurnsOnly
    <3>4. TurnsIn(rows[q]) \subseteq Requests
      BY DEF TurnsIn, TypeOK, Conversation
    <3> QED BY <3>1, <3>2, <3>3, <3>4, <2>1, <2>4
  <2> QED BY <2>6, <2>7, <2>8, <2>9, <2>10, <2>11, <2>12
<1> QED BY <1>1, <1>2

LEMMA StepKeepsIInv == IInv /\ [Next]_vars => IInv'
<1> SUFFICES ASSUME IInv, [Next]_vars PROVE IInv'
  OBVIOUS
<1>1. ASSUME NEW r \in Requests, RecordTurn(r) PROVE IInv'
  BY <1>1, RecordTurnKeepsIInv
<1>2. ASSUME NEW r \in Requests, FindForDelete(r) PROVE IInv'
  BY <1>2, FindForDeleteKeepsIInv
<1>3. ASSUME NEW r \in Requests, Progress(r) PROVE IInv'
  BY <1>3, EnterKeepsIInv, FindForRecordKeepsIInv, CommitRecordKeepsIInv,
     RollbackRecordKeepsIInv, LeaveKeepsIInv, CommitDeleteKeepsIInv DEF Progress
<1>4. CASE Restart
  BY <1>4, RestartKeepsIInv
<1>5. CASE UNCHANGED vars
  <2>1. TypeOK' /\ MonitorInv' /\ SeenInv' /\ OutcomeInv' /\ ErasedInv'
    BY <1>5 DEF IInv, vars, TypeOK, MonitorInv, SeenInv, OutcomeInv, ErasedInv, MayWrite
  <2>2. NoLostTurn' /\ OwnTurnsOnly' /\ NoPhantomTurn'
    BY <1>5 DEF IInv, vars, NoLostTurn, OwnTurnsOnly, NoPhantomTurn, TurnsIn
  <2> QED BY <2>1, <2>2 DEF IInv
<1> QED BY <1>1, <1>2, <1>3, <1>4, <1>5 DEF Next

LEMMA Invariance == Spec => []IInv
BY InitIInv, StepKeepsIInv, PTL DEF Spec

-----------------------------------------------------------------------------
(* The theorems. *)

\* Every variable keeps its type; a stored conversation is never empty, which
\* HistoryService.toItemDto relies on when it shows the first question.
THEOREM TypeCorrect == Spec => []TypeOK
<1>1. IInv => TypeOK
  BY DEF IInv
<1> QED BY <1>1, Invariance, PTL

\* recordTurn loses no turn whose transaction committed, whatever else runs.
THEOREM NoTurnIsLost == Spec => []NoLostTurn
<1>1. IInv => NoLostTurn
  BY DEF IInv
<1> QED BY <1>1, Invariance, PTL

\* A conversation holds the turns of one user, its owner.
THEOREM ConversationsAreOwned == Spec => []OwnTurnsOnly
<1>1. IInv => OwnTurnsOnly
  BY DEF IInv
<1> QED BY <1>1, Invariance, PTL

\* Turns that failed, were refused or were deleted are never shown, none is shown twice.
THEOREM NoTurnIsPhantom == Spec => []NoPhantomTurn
<1>1. IInv => NoPhantomTurn
  BY DEF IInv
<1> QED BY <1>1, Invariance, PTL

\* The store with its monitors and transactions implements the append-only log.
THEOREM StoreImplementsLog == Spec => ImplementsLog
<1>1. Init => Log!LogInit
  BY DEF Init, Log!LogInit
<1>2. ASSUME IInv, [Next]_vars PROVE [Log!LogNext]_(Log!logVars)
  <2>1. ASSUME NEW r \in Requests, CommitRecord(r) PROVE [Log!LogNext]_(Log!logVars)
    <3> DEFINE s == task[r].session
    <3>0. /\ s \in Sessions /\ task[r].user \in Users
          /\ pc[r] = "commit" /\ outcome[r] = "none" /\ erased' = erased
      BY <1>2, <2>1 DEF IInv, TypeOK, Task, CommitRecord, OutcomeInv
    <3>1. CASE ~WriteApplies(r)
      BY <2>1, <3>0, <3>1 DEF CommitRecord, Log!logVars
    <3>2. CASE WriteApplies(r)
      <4>1. rows' = [rows EXCEPT ![s] = WithTurn(r)]
        BY <2>1, <3>2 DEF CommitRecord
      <4>2. rows[s] = seen[r] /\ MayWrite(r, seen[r])
        BY <1>2, <3>2, <3>0 DEF WriteApplies, SeenInv, IInv
      <4>3. r \notin erased
        BY <1>2, <3>0 DEF IInv, ErasedInv
      <4>4. \A q \in Sessions : r \notin TurnsIn(rows[q])
        <5>1. \A q \in Sessions : \A t \in TurnsIn(rows[q]) : outcome[t] = "saved"
          BY <1>2 DEF IInv, NoPhantomTurn, TurnsIn
        <5> QED BY <3>0, <5>1
      <4>5. \A q \in Sessions : r \notin Log!TurnsIn(rows[q])
        BY <4>4 DEF TurnsIn, Log!TurnsIn
      <4>6. CASE rows[s] = NoRow
        <5>1. rows' = [rows EXCEPT ![s] = [owner |-> task[r].user, turns |-> <<r>>]]
          BY <4>1, <4>2, <4>6 DEF WithTurn
        <5> QED BY <3>0, <4>3, <4>5, <4>6, <5>1 DEF Log!AppendTurn, Log!LogNext
      <4>7. CASE rows[s] # NoRow
        <5>1. rows[s].owner = task[r].user
          BY <4>2, <4>7 DEF MayWrite
        <5>2. rows' = [rows EXCEPT ![s] = [rows[s] EXCEPT !.turns = Append(rows[s].turns, r)]]
          BY <4>1, <4>2, <4>7 DEF WithTurn
        <5>3. rows' = [rows EXCEPT ![s].turns = Append(@, r)]
          BY <5>2
        <5> QED BY <3>0, <4>3, <4>5, <4>7, <5>1, <5>3 DEF Log!AppendTurn, Log!LogNext
      <4> QED BY <4>6, <4>7
    <3> QED BY <3>1, <3>2
  <2>2. ASSUME NEW r \in Requests, CommitDelete(r) PROVE [Log!LogNext]_(Log!logVars)
    <3>1. task[r].session \in Sessions
      BY <1>2 DEF IInv, TypeOK, Task
    <3> QED BY <2>2, <3>1 DEF CommitDelete, TurnsIn, Log!TurnsIn, Log!Erase, Log!LogNext, Log!logVars
  <2>3. ASSUME NEW r \in Requests,
               \/ RecordTurn(r) \/ FindForDelete(r) \/ Enter(r) \/ FindForRecord(r)
               \/ RollbackRecord(r) \/ Leave(r)
        PROVE  UNCHANGED Log!logVars
    BY <2>3 DEF RecordTurn, FindForDelete, Enter, FindForRecord, RollbackRecord, Leave, Log!logVars
  <2>4. CASE Restart \/ UNCHANGED vars
    BY <2>4 DEF Restart, vars, Log!logVars
  <2> QED BY <1>2, <2>1, <2>2, <2>3, <2>4 DEF Next, Progress
<1> QED BY <1>1, <1>2, Invariance, PTL DEF Spec, ImplementsLog, Log!LogSpec

\* A conversation is the turns of its owner that were committed and not deleted, each once
\* (ConversationHistoryService.recordTurn, delete).
THEOREM ConversationsAreRight == Spec => []ConversationIsItsTurns
<1>1. NoLostTurn /\ OwnTurnsOnly /\ NoPhantomTurn => ConversationIsItsTurns
  BY DEF ConversationIsItsTurns
<1> QED
  BY <1>1, NoTurnIsLost, ConversationsAreOwned, NoTurnIsPhantom, PTL
=============================================================================
