--------------------------- MODULE ChatTurnProofs ---------------------------
(* The safety properties of ChatTurn for any number of requests, workers and crashes. *)
EXTENDS ChatTurn, FiniteSetTheorems, TLAPS

\* A run is in the pool at most once, only after its request was submitted, and until it ends.
PoolInv ==
    /\ running \subseteq Requests /\ IsFiniteSet(running) /\ Cardinality(running) <= Workers
    /\ queue \in Seq(Requests) /\ IsInjective(queue) /\ ToSet(queue) \cap running = {}
    /\ \A r \in Requests :
          /\ InPool(r) => run[r] = "none"
          /\ ai[r] \in {"none", "arrived"} => ~InPool(r) /\ run[r] = "none"

\* What was sent is how the run had ended, or that it failed; nothing is sent twice.
ReplyInv ==
    \A r \in Requests :
        /\ reply[r] \in {"complete", "degraded"} => run[r] = reply[r]
        /\ reply[r] # "none" => ai[r] = "gone"

\* The response is the service's answer or the apology from the moment recording starts, and
\* no write happens before that moment.
ResponseOf(r) ==
    /\ \/ response[r] \in {NoResponse, Degraded}
       \/ reply[r] \in {"complete", "degraded"} /\ response[r] = FromReply(reply[r])
    /\ pc[r] \in {"recording", "auditing", "done"} => response[r] # NoResponse
    /\ pc[r] \in {"auditing", "done"} => history[r] # "none"
    /\ audit[r] # "none" <=> pc[r] = "done"
    /\ audit[r] \in {"none", "failed", DeriveStatus(response[r])}

ResponseInv == \A r \in Requests : ResponseOf(r)

\* The AI service sees nothing of a request that the backend has not sent.
AskInv == \A r \in Requests : pc[r] = "idle" => ai[r] = "none"

Fields ==
    /\ pc \in [Requests -> {"idle", "asking", "recording", "auditing", "done", "dead"}]
    /\ response \in [Requests -> Response]
    /\ history \in [Requests -> {"none", "recorded", "refused", "failed"}]
    /\ audit \in [Requests -> {"none", "failed", "SUCCESS", "PARTIAL", "ERROR"}]
    /\ ai \in [Requests -> {"none", "arrived", "waiting", "gone"}]
    /\ reply \in [Requests -> {"none"} \cup Endings]
    /\ run \in [Requests -> {"none"} \cup Endings]
    /\ crashes \in 0..MaxCrashes

Inv == Fields /\ AskInv /\ PoolInv /\ ReplyInv /\ ResponseInv

-----------------------------------------------------------------------------
(* Facts about the queue and the responses *)

\* Submitting a run adds exactly that run to the pool.
LEMMA AppendRun ==
    ASSUME NEW q \in Seq(Requests), IsInjective(q), NEW r \in Requests, r \notin ToSet(q)
    PROVE  /\ Append(q, r) \in Seq(Requests) /\ IsInjective(Append(q, r))
           /\ ToSet(Append(q, r)) = ToSet(q) \cup {r}
<1>1. /\ Append(q, r) \in Seq(Requests) /\ Len(Append(q, r)) = Len(q) + 1
      /\ Append(q, r)[Len(q) + 1] = r
      /\ \A i \in 1..Len(q) : Append(q, r)[i] = q[i]
  OBVIOUS
<1>2. /\ DOMAIN q = 1..Len(q) /\ Len(q) \in Nat
      /\ DOMAIN Append(q, r) = 1..Len(q) \cup {Len(q) + 1}
  BY <1>1
<1>3. \A i \in 1..Len(q) : q[i] # r
  BY <1>2 DEF ToSet
<1>4. IsInjective(Append(q, r))
  BY <1>1, <1>2, <1>3 DEF IsInjective
<1>5. ToSet(Append(q, r)) = ToSet(q) \cup {r}
  BY <1>1, <1>2 DEF ToSet
<1> QED
  BY <1>1, <1>4, <1>5

\* Starting a run takes it out of the queue, and it is nowhere else in the queue.
LEMMA TakeRun ==
    ASSUME NEW q \in Seq(Requests), IsInjective(q), q # <<>>
    PROVE  /\ Head(q) \in Requests
           /\ Tail(q) \in Seq(Requests) /\ IsInjective(Tail(q))
           /\ ToSet(q) = ToSet(Tail(q)) \cup {Head(q)}
           /\ Head(q) \notin ToSet(Tail(q))
<1>1. /\ Len(q) \in Nat /\ Len(q) >= 1 /\ DOMAIN q = 1..Len(q)
      /\ Head(q) = q[1] /\ Head(q) \in Requests
      /\ Tail(q) \in Seq(Requests) /\ DOMAIN Tail(q) = 1..(Len(q) - 1)
      /\ \A i \in 1..(Len(q) - 1) : Tail(q)[i] = q[i + 1]
  OBVIOUS
<1>2. IsInjective(Tail(q)) /\ Head(q) \notin ToSet(Tail(q))
  <2>1. \A i, j \in 1..(Len(q) - 1) : Tail(q)[i] = Tail(q)[j] => i = j
    BY <1>1 DEF IsInjective
  <2>2. \A i \in 1..(Len(q) - 1) : Tail(q)[i] # Head(q)
    BY <1>1 DEF IsInjective
  <2> QED
    BY <1>1, <2>1, <2>2 DEF IsInjective, ToSet
<1>3. ToSet(q) = ToSet(Tail(q)) \cup {Head(q)}
  <2>1. ASSUME NEW i \in 1..Len(q) PROVE q[i] \in ToSet(Tail(q)) \cup {Head(q)}
    <3>1. CASE i = 1
      BY <1>1, <3>1
    <3>2. CASE i # 1
      <4>1. i - 1 \in 1..(Len(q) - 1) /\ Tail(q)[i - 1] = q[i]
        BY <1>1, <3>2
      <4> QED
        BY <1>1, <4>1 DEF ToSet
    <3> QED
      BY <3>1, <3>2
  <2>2. \A i \in 1..(Len(q) - 1) : Tail(q)[i] \in ToSet(q)
    <3>1. \A i \in 1..(Len(q) - 1) : i + 1 \in 1..Len(q)
      BY <1>1
    <3> QED
      BY <1>1, <3>1 DEF ToSet
  <2>3. Head(q) \in ToSet(q)
    BY <1>1 DEF ToSet
  <2> QED
    BY <1>1, <2>1, <2>2, <2>3 DEF ToSet
<1> QED
  BY <1>1, <1>2, <1>3

\* The response a reply becomes.
LEMMA Responses ==
    /\ Degraded \in Response /\ NoResponse \in Response /\ Degraded # NoResponse
    /\ \A sent : FromReply(sent) \in Response /\ FromReply(sent) # NoResponse
    /\ FromReply("raised") = Degraded
    /\ FromReply("complete") = [answered |-> TRUE, partial |-> FALSE, error |-> FALSE]
    /\ FromReply("degraded") = [answered |-> TRUE, partial |-> TRUE, error |-> TRUE]
    /\ \A a \in Response : DeriveStatus(a) \in {"SUCCESS", "PARTIAL", "ERROR"}
BY DEF Degraded, NoResponse, Response, FromReply, DeriveStatus

-----------------------------------------------------------------------------

\* The initial state satisfies the invariant: nothing was asked.
LEMMA InitInv == Init => Inv
<1> SUFFICES ASSUME Init PROVE Inv
  OBVIOUS
<1>1. Fields
  BY Responses, PoolAssumption DEF Init, Fields
<1>2. PoolInv
  <2>1. IsFiniteSet(running) /\ Cardinality(running) = 0
    BY FS_EmptySet DEF Init
  <2>2. ToSet(queue) = {} /\ IsInjective(queue) /\ queue \in Seq(Requests)
    BY DEF Init, ToSet, IsInjective
  <2> QED
    BY <2>1, <2>2, PoolAssumption DEF Init, PoolInv, InPool
<1>3. AskInv /\ ReplyInv /\ ResponseInv
  BY DEF Init, AskInv, ReplyInv, ResponseInv, ResponseOf
<1> QED
  BY <1>1, <1>2, <1>3 DEF Inv

-----------------------------------------------------------------------------
(* The steps *)

\* The pool of runs, when the executor and the places of the requests are left alone.
LEMMA PoolKept ==
    ASSUME PoolInv, queue' = queue, running' = running, run' = run,
           \A r \in Requests : ai'[r] \in {"none", "arrived"} => ai[r] \in {"none", "arrived"}
    PROVE  PoolInv'
BY DEF PoolInv, InPool

\* Every step keeps the types of the fields, and a request is sent only by its Ask.
LEMMA FieldsStep ==
    ASSUME Inv, [Next]_vars
    PROVE  Fields' /\ AskInv'
<1> USE DEF Inv
<1>1. ASSUME NEW r \in Requests, Ask(r) PROVE Fields' /\ AskInv'
  BY <1>1 DEF Ask, pool, Fields, AskInv
<1>2. ASSUME NEW r \in Requests, Unreachable(r) PROVE Fields' /\ AskInv'
  BY <1>2, Responses DEF Unreachable, AnswerWith, pool, Fields, AskInv
<1>3. ASSUME NEW r \in Requests, Backend(r) PROVE Fields' /\ AskInv'
  <2>1. CASE Receive(r)
    BY <2>1, Responses DEF Receive, AnswerWith, pool, Fields, AskInv
  <2>2. CASE GiveUp(r)
    BY <2>2, Responses DEF GiveUp, AnswerWith, pool, Fields, AskInv
  <2>3. CASE RecordHistory(r)
    BY <2>3 DEF RecordHistory, AfterHistory, pool, Fields, AskInv
  <2>4. CASE RecordAudit(r)
    <3>1. DeriveStatus(response[r]) \in {"SUCCESS", "PARTIAL", "ERROR"}
      BY Responses DEF Fields
    <3> QED
      BY <2>4, <3>1 DEF RecordAudit, pool, Fields, AskInv
  <2> QED
    BY <1>3, <2>1, <2>2, <2>3, <2>4 DEF Backend
<1>4. ASSUME NEW r \in Requests, Handler(r) \/ Finish(r) PROVE Fields' /\ AskInv'
  <2>1. CASE Submit(r)
    BY <2>1 DEF Submit, backend, Fields, AskInv
  <2>2. CASE Reply(r)
    BY <2>2 DEF Reply, Send, backend, pool, Fields, AskInv, Endings
  <2>3. CASE TimeOut(r)
    BY <2>3 DEF TimeOut, Send, backend, Fields, AskInv, Endings
  <2>4. CASE Finish(r)
    BY <2>4 DEF Finish, backend, Fields, AskInv
  <2> QED
    BY <1>4, <2>1, <2>2, <2>3, <2>4 DEF Handler
<1>5. CASE Start
  BY <1>5 DEF Start, backend, Fields, AskInv
<1>6. CASE AiCrash
  BY <1>6, PoolAssumption DEF AiCrash, backend, Fields, AskInv
<1>7. CASE BackendCrash
  BY <1>7, PoolAssumption DEF BackendCrash, pool, Fields, AskInv
<1>8. CASE UNCHANGED vars
  BY <1>8 DEF vars, backend, pool, Fields, AskInv
<1> QED
  BY <1>1, <1>2, <1>3, <1>4, <1>5, <1>6, <1>7, <1>8 DEF Next

\* Every step keeps each run in the pool at most once and until it ends.
LEMMA PoolStep ==
    ASSUME Inv, [Next]_vars
    PROVE  PoolInv'
<1> USE DEF Inv
<1>1. ASSUME NEW r \in Requests, Ask(r) PROVE PoolInv'
  <2>1. pc[r] = "idle" /\ ai' = [ai EXCEPT ![r] = "arrived"]
    BY <1>1 DEF Ask
  <2> QED
    BY <1>1, <2>1, PoolKept DEF Ask, AskInv, pool, Fields
<1>2. ASSUME NEW r \in Requests, Unreachable(r) \/ Backend(r) PROVE PoolInv'
  BY <1>2, PoolKept
     DEF Unreachable, Backend, Receive, GiveUp, RecordHistory, RecordAudit, AnswerWith, pool
<1>3. ASSUME NEW r \in Requests, Submit(r) PROVE PoolInv'
  <2>1. r \notin running /\ r \notin ToSet(queue) /\ run[r] = "none"
    BY <1>3 DEF Submit, PoolInv, InPool
  <2>2. /\ queue' \in Seq(Requests) /\ IsInjective(queue')
        /\ ToSet(queue') = ToSet(queue) \cup {r}
    BY <1>3, <2>1, AppendRun DEF Submit, PoolInv
  <2>3. running' = running /\ run' = run /\ ai' = [ai EXCEPT ![r] = "waiting"]
    BY <1>3 DEF Submit
  <2> QED
    BY <2>1, <2>2, <2>3 DEF PoolInv, InPool, Fields
<1>4. CASE Start
  <2>1. /\ Head(queue) \in Requests /\ queue' \in Seq(Requests) /\ IsInjective(queue')
        /\ ToSet(queue) = ToSet(queue') \cup {Head(queue)} /\ Head(queue) \notin ToSet(queue')
    BY <1>4, TakeRun DEF Start, PoolInv
  <2>2. /\ running' = running \cup {Head(queue)} /\ run' = run /\ ai' = ai
        /\ Cardinality(running) < Workers
    BY <1>4 DEF Start
  <2>3. Head(queue) \notin running
    BY <2>1 DEF PoolInv
  <2>4. IsFiniteSet(running') /\ Cardinality(running') = Cardinality(running) + 1
    BY <2>2, <2>3, FS_AddElement DEF PoolInv
  <2>5. Cardinality(running') <= Workers
    BY <2>2, <2>4, FS_CardinalityType, PoolAssumption DEF PoolInv
  <2>6. \A r \in Requests : InPool(r)' <=> InPool(r)
    BY <2>1, <2>2 DEF InPool
  <2> QED
    BY <2>1, <2>2, <2>3, <2>4, <2>5, <2>6 DEF PoolInv
<1>5. ASSUME NEW r \in Requests, Finish(r) PROVE PoolInv'
  <2>1. /\ r \in running /\ running' = running \ {r} /\ queue' = queue /\ ai' = ai
        /\ \A q \in Requests : q # r => run'[q] = run[q]
    BY <1>5 DEF Finish, Freed, Fields
  <2>2. IsFiniteSet(running') /\ Cardinality(running') = Cardinality(running) - 1
    BY <2>1, FS_RemoveElement DEF PoolInv
  <2>3. Cardinality(running') <= Workers
    BY <2>2, FS_CardinalityType, PoolAssumption DEF PoolInv
  <2>4. r \notin ToSet(queue) /\ InPool(r)
    BY <2>1 DEF PoolInv, InPool
  <2> QED
    BY <2>1, <2>2, <2>3, <2>4 DEF PoolInv, InPool
<1>6. ASSUME NEW r \in Requests, Reply(r) \/ TimeOut(r) PROVE PoolInv'
  <2>1. ai' = [ai EXCEPT ![r] = "gone"] /\ queue' = queue /\ running' = running /\ run' = run
    BY <1>6 DEF Reply, TimeOut, QueueAfterTimeout, Send, pool
  <2> QED
    BY <2>1, PoolKept DEF Fields
<1>7. CASE AiCrash
  <2>1. /\ queue' = <<>> /\ running' = {} /\ run' = run
        /\ ai' = [r \in Requests |-> IF ai[r] = "none" THEN "none" ELSE "gone"]
    BY <1>7 DEF AiCrash
  <2>2. ToSet(queue') = {} /\ IsInjective(queue') /\ queue' \in Seq(Requests)
    BY <2>1 DEF ToSet, IsInjective
  <2>3. IsFiniteSet(running') /\ Cardinality(running') = 0
    BY <2>1, FS_EmptySet
  <2> QED
    BY <2>1, <2>2, <2>3, PoolAssumption DEF PoolInv, InPool
<1>8. CASE BackendCrash
  BY <1>8, PoolKept DEF BackendCrash, pool
<1>9. CASE UNCHANGED vars
  BY <1>9, PoolKept DEF vars, pool
<1> QED
  BY <1>1, <1>2, <1>3, <1>4, <1>5, <1>6, <1>7, <1>8, <1>9 DEF Next, Handler

\* Every step keeps replies true: a run that has ended does not end again.
LEMMA ReplyStep ==
    ASSUME Inv, [Next]_vars
    PROVE  ReplyInv'
<1> USE DEF Inv
<1>1. ASSUME NEW r \in Requests, Ask(r) PROVE ReplyInv'
  BY <1>1 DEF Ask, AskInv, pool, ReplyInv, Fields
<1>2. ASSUME NEW r \in Requests, Unreachable(r) \/ Backend(r) PROVE ReplyInv'
  BY <1>2 DEF Unreachable, Backend, Receive, GiveUp, RecordHistory, RecordAudit, AnswerWith,
              pool, ReplyInv
<1>3. ASSUME NEW r \in Requests, Submit(r) PROVE ReplyInv'
  BY <1>3 DEF Submit, ReplyInv, Fields
<1>4. ASSUME NEW r \in Requests, Reply(r) \/ TimeOut(r) PROVE ReplyInv'
  BY <1>4 DEF Reply, TimeOut, Send, pool, ReplyInv, Fields, Endings
<1>5. ASSUME NEW r \in Requests, Finish(r) PROVE ReplyInv'
  <2>1. run[r] = "none"
    BY <1>5 DEF Finish, PoolInv, InPool
  <2>2. reply[r] \notin {"complete", "degraded"}
    BY <2>1 DEF ReplyInv
  <2> QED
    BY <1>5, <2>2 DEF Finish, ReplyInv, Fields
<1>6. CASE Start
  BY <1>6 DEF Start, ReplyInv
<1>7. CASE AiCrash
  BY <1>7 DEF AiCrash, ReplyInv
<1>8. CASE BackendCrash
  BY <1>8 DEF BackendCrash, pool, ReplyInv
<1>9. CASE UNCHANGED vars
  BY <1>9 DEF vars, pool, ReplyInv
<1> QED
  BY <1>1, <1>2, <1>3, <1>4, <1>5, <1>6, <1>7, <1>8, <1>9 DEF Next, Handler

\* The responses are as good as the replies they were made from, when a step of the AI service
\* leaves the backend and what was sent before alone.
LEMMA ResponseKept ==
    ASSUME ResponseInv, pc' = pc, response' = response, history' = history, audit' = audit,
           \A r \in Requests : reply[r] # "none" => reply'[r] = reply[r]
    PROVE  ResponseInv'
<1> SUFFICES ASSUME NEW r \in Requests PROVE ResponseOf(r)'
  BY DEF ResponseInv
<1> QED
  BY DEF ResponseInv, ResponseOf

\* Every step keeps the responses, and the rows that were written from them.
LEMMA ResponseStep ==
    ASSUME Inv, [Next]_vars
    PROVE  ResponseInv'
<1> USE DEF Inv
<1>1. ASSUME NEW r \in Requests, Ask(r) PROVE ResponseInv'
  BY <1>1 DEF Ask, ResponseInv, ResponseOf, Fields
<1>2. ASSUME NEW r \in Requests, NEW result, result \in {Degraded, FromReply(reply[r])},
             pc[r] \in {"idle", "asking"}, AnswerWith(r, result), ai' = ai,
             result = Degraded \/ reply[r] # "none"
      PROVE  ResponseInv'
  <2>1. /\ response' = [response EXCEPT ![r] = result] /\ pc' = [pc EXCEPT ![r] = "recording"]
        /\ history' = history /\ audit' = audit /\ reply' = reply
    BY <1>2 DEF AnswerWith
  <2>2. /\ result # NoResponse
        /\ \/ result = Degraded
           \/ reply[r] \in {"complete", "degraded"} /\ result = FromReply(reply[r])
    BY <1>2, Responses DEF Fields, Endings
  <2>3. audit[r] = "none"
    BY <1>2 DEF ResponseInv, ResponseOf
  <2>4. ResponseOf(r)'
    BY <2>1, <2>2, <2>3 DEF ResponseOf, Fields
  <2>5. ASSUME NEW q \in Requests, q # r PROVE ResponseOf(q)'
    BY <2>1, <2>5 DEF ResponseInv, ResponseOf, Fields
  <2> QED
    BY <2>4, <2>5 DEF ResponseInv
<1>3. ASSUME NEW r \in Requests, Unreachable(r) \/ Receive(r) \/ GiveUp(r) PROVE ResponseInv'
  BY <1>2, <1>3 DEF Unreachable, Receive, GiveUp
<1>4. ASSUME NEW r \in Requests, RecordHistory(r) PROVE ResponseInv'
  <2>1. /\ pc[r] = "recording" /\ pc' = [pc EXCEPT ![r] = "auditing"]
        /\ \E how \in {"recorded", "refused", "failed"} : history' = [history EXCEPT ![r] = how]
        /\ response' = response /\ audit' = audit /\ reply' = reply
    BY <1>4 DEF RecordHistory, AfterHistory
  <2> SUFFICES ASSUME NEW q \in Requests PROVE ResponseOf(q)'
    BY DEF ResponseInv
  <2> QED
    BY <2>1 DEF ResponseInv, ResponseOf, Fields
<1>5. ASSUME NEW r \in Requests, RecordAudit(r) PROVE ResponseInv'
  <2>1. /\ pc[r] = "auditing" /\ pc' = [pc EXCEPT ![r] = "done"]
        /\ response' = response /\ history' = history /\ reply' = reply
    BY <1>5 DEF RecordAudit
  <2>2. PICK status \in {DeriveStatus(response[r]), "failed"} :
            audit' = [audit EXCEPT ![r] = status]
    BY <1>5 DEF RecordAudit
  <2>3. status # "none"
    BY <2>2, Responses DEF Fields
  <2> SUFFICES ASSUME NEW q \in Requests PROVE ResponseOf(q)'
    BY DEF ResponseInv
  <2> QED
    BY <2>1, <2>2, <2>3 DEF ResponseInv, ResponseOf, Fields
<1>6. ASSUME NEW r \in Requests, Handler(r) \/ Finish(r) PROVE ResponseInv'
  <2>1. pc' = pc /\ response' = response /\ history' = history /\ audit' = audit
    BY <1>6 DEF Handler, Submit, Reply, TimeOut, Finish, backend
  <2>2. \A q \in Requests : reply[q] # "none" => reply'[q] = reply[q]
    BY <1>6 DEF Handler, Submit, Reply, TimeOut, Send, Finish, ReplyInv, Fields
  <2> QED
    BY <2>1, <2>2, ResponseKept
<1>7. CASE Start \/ AiCrash
  BY <1>7, ResponseKept DEF Start, AiCrash, backend
<1>8. CASE BackendCrash
  <2>1. /\ pc' = [r \in Requests |-> IF pc[r] \in {"idle", "done"} THEN pc[r] ELSE "dead"]
        /\ response' = response /\ history' = history /\ audit' = audit /\ reply' = reply
    BY <1>8 DEF BackendCrash
  <2> SUFFICES ASSUME NEW q \in Requests PROVE ResponseOf(q)'
    BY DEF ResponseInv
  <2> QED
    BY <2>1 DEF ResponseInv, ResponseOf, Fields
<1>9. CASE UNCHANGED vars
  BY <1>9, ResponseKept DEF vars, backend
<1> QED
  BY <1>1, <1>3, <1>4, <1>5, <1>6, <1>7, <1>8, <1>9 DEF Next, Backend

\* The invariant holds throughout.
THEOREM Invariance == Spec => []Inv
<1>1. Inv /\ [Next]_vars => Inv'
  BY FieldsStep, PoolStep, ReplyStep, ResponseStep DEF Inv
<1> QED
  BY InitInv, <1>1, PTL DEF Spec

-----------------------------------------------------------------------------

\* Every variable keeps its type; a run is in the pool at most once, and no more runs than
\* there are workers are running.
THEOREM TypeCorrect == Spec => []TypeOK
<1>1. Inv => TypeOK
  BY DEF Inv, Fields, PoolInv, TypeOK
<1> QED
  BY Invariance, <1>1, PTL

\* A success in the audit log is a run that ended completely and in time.
THEOREM SuccessIsTrue == Spec => []SuccessIsComplete
<1>1. ASSUME Inv, NEW r \in Requests, audit[r] = "SUCCESS"
      PROVE  /\ run[r] = "complete" /\ reply[r] = "complete"
             /\ response[r].answered /\ ~response[r].partial
  <2>1. DeriveStatus(response[r]) = "SUCCESS" /\ response[r] # NoResponse
    BY <1>1 DEF Inv, ResponseInv, ResponseOf
  <2>2. response[r] # Degraded
    BY <2>1 DEF DeriveStatus, Degraded
  <2>3. reply[r] \in {"complete", "degraded"} /\ response[r] = FromReply(reply[r])
    BY <1>1, <2>1, <2>2 DEF Inv, ResponseInv, ResponseOf
  <2>4. reply[r] = "complete"
    BY <2>1, <2>3, Responses DEF DeriveStatus
  <2>5. response[r].answered /\ ~response[r].partial
    BY <2>3, <2>4, Responses
  <2> QED
    BY <1>1, <2>4, <2>5 DEF Inv, ReplyInv
<1>2. Inv => SuccessIsComplete
  BY <1>1 DEF SuccessIsComplete
<1> QED
  BY Invariance, <1>2, PTL

\* A failure is told to the user and to the audit log.
LEMMA FailuresAreTold == Spec => []FailureIsTold
<1>1. ASSUME Inv, NEW r \in Requests, pc[r] \in {"recording", "auditing", "done"},
             ~response[r].answered
      PROVE  /\ response[r].partial /\ response[r].error
             /\ audit[r] \in {"none", "failed", "ERROR"}
  <2>1. response[r] = Degraded
    <3>1. response[r] # NoResponse
      BY <1>1 DEF Inv, ResponseInv, ResponseOf
    <3>2. FromReply("complete").answered /\ FromReply("degraded").answered
      BY Responses
    <3> QED
      BY <1>1, <3>1, <3>2 DEF Inv, ResponseInv, ResponseOf
  <2>2. DeriveStatus(response[r]) = "ERROR"
    BY <2>1 DEF DeriveStatus, Degraded
  <2> QED
    BY <1>1, <2>1, <2>2 DEF Inv, ResponseInv, ResponseOf, Degraded
<1>2. Inv => FailureIsTold
  BY <1>1 DEF FailureIsTold
<1> QED
  BY Invariance, <1>2, PTL

\* A run enters the pool once, when its request has arrived, and starts once.
THEOREM RunsOnce == Spec => NoSecondRun
<1> DEFINE Once == \A r \in Requests :
              /\ ~InPool(r) /\ InPool(r)' => ai[r] = "arrived"
              /\ r \in running' \ running => run[r] = "none"
<1>1. ASSUME Inv, [Next]_vars PROVE Once
  <2>1. ASSUME NEW r \in Requests, Submit(r) PROVE Once
    <3>1. ai[r] = "arrived" /\ running' = running /\ queue' = Append(queue, r)
      BY <2>1 DEF Submit
    <3>2. ToSet(queue') = ToSet(queue) \cup {r}
      BY <1>1, <3>1, AppendRun DEF Inv, PoolInv, InPool
    <3> QED
      BY <3>1, <3>2 DEF InPool
  <2>2. CASE Start
    <3>1. running' = running \cup {Head(queue)} /\ ToSet(queue) = ToSet(queue') \cup {Head(queue)}
      BY <1>1, <2>2, TakeRun DEF Start, Inv, PoolInv
    <3> QED
      BY <1>1, <3>1 DEF InPool, Inv, PoolInv
  <2>3. CASE /\ running' \subseteq running
             /\ queue' = queue \/ queue' = <<>>
    BY <2>3 DEF InPool, ToSet
  <2>4. ASSUME NEW r \in Requests,
               Ask(r) \/ Unreachable(r) \/ Backend(r) \/ Reply(r) \/ TimeOut(r) \/ Finish(r)
        PROVE  running' \subseteq running /\ queue' = queue
    BY <2>4 DEF Ask, Unreachable, Backend, Receive, GiveUp, RecordHistory, RecordAudit,
                AnswerWith, Reply, TimeOut, QueueAfterTimeout, Finish, Freed, pool
  <2>5. CASE AiCrash \/ BackendCrash \/ UNCHANGED vars
    BY <2>3, <2>5 DEF AiCrash, BackendCrash, vars, pool
  <2> QED
    BY <1>1, <2>1, <2>2, <2>3, <2>4, <2>5 DEF Next, Handler
<1> QED
  BY <1>1, Invariance, PTL DEF Spec, NoSecondRun

\* Neither write is skipped because of the other.
LEMMA BothAreTried == Spec => []BothWritesTried
<1>1. Inv => BothWritesTried
  BY DEF Inv, ResponseInv, ResponseOf, BothWritesTried
<1> QED
  BY Invariance, <1>1, PTL

\* Failures reach the user and the audit row, and both records of a turn are tried, whichever
\* layer gives up (ChatController.chat, RestClientAiQueryClient.degraded).
THEOREM OutcomesAreKept == Spec => []OutcomeIsKept
<1>1. FailureIsTold /\ BothWritesTried => OutcomeIsKept
  BY DEF OutcomeIsKept
<1> QED
  BY <1>1, FailuresAreTold, BothAreTried, PTL

\* What the user is told and the audit row records is what happened to the turn
\* (ChatController.chat, deriveStatus).
THEOREM OutcomesAreTrue == Spec => []OutcomeIsTrue
<1>1. SuccessIsComplete /\ OutcomeIsKept => OutcomeIsTrue
  BY DEF OutcomeIsTrue
<1> QED
  BY <1>1, SuccessIsTrue, OutcomesAreKept, PTL
=============================================================================
