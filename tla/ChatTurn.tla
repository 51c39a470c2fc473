------------------------------ MODULE ChatTurn ------------------------------
(***************************************************************************)
(* One chat turn through the services: POST /api/chat of backend-api asks  *)
(* the AI service, then records the turn and its audit row; the AI service *)
(* runs the graph on a small pool and waits for it for a limited time.     *)
(* Giving up on a run does not end it: a run whose caller has gone keeps   *)
(* its place in the queue or its worker.  Either service may crash.        *)
(*                                                                         *)
(* The graph run is CopilotGraph's, reduced to how it ends; a history      *)
(* write is one step of HistoryLog, which ConversationHistory implements.  *)
(* Timeouts may fire at any time, so every order of the 30 s, 35 s and     *)
(* connect timeouts is among the behaviours.                               *)
(***************************************************************************)
EXTENDS Naturals, Sequences, FiniteSets, SequencesExt

CONSTANTS Requests,    \* POST /api/chat requests
          Workers,     \* threads of the graph executor (8)
          Handlers,    \* requests that the AI service handles at a time
          MaxCrashes   \* bound on crashes, of both services together

ASSUME PoolAssumption ==
    Workers \in Nat \ {0} /\ Handlers \in Nat \ {0} /\ MaxCrashes \in Nat

VARIABLES
    pc,         \* the request's thread in backend-api
    response,   \* what it will answer
    history,    \* how recording the turn ended
    audit,      \* the status in the audit row, if there is one
    ai,         \* where the AI service is with the request
    reply,      \* what the AI service sent back
    queue,      \* runs submitted to the executor and not started
    running,    \* runs that occupy a worker
    run,        \* how the run ended
    crashes

backend == <<pc, response, history, audit>>
pool == <<queue, running, run>>
vars == <<backend, ai, reply, pool, crashes>>

Endings == {"complete", "degraded", "raised"}
Response == [answered : BOOLEAN, partial : BOOLEAN, error : BOOLEAN]
NoResponse == [answered |-> FALSE, partial |-> FALSE, error |-> FALSE]

InPool(r) == r \in running \cup ToSet(queue)

Init ==
    /\ pc = [r \in Requests |-> "idle"]
    /\ response = [r \in Requests |-> NoResponse]
    /\ history = [r \in Requests |-> "none"]
    /\ audit = [r \in Requests |-> "none"]
    /\ ai = [r \in Requests |-> "none"]
    /\ reply = [r \in Requests |-> "none"]
    /\ queue = <<>>
    /\ running = {}
    /\ run = [r \in Requests |-> "none"]
    /\ crashes = 0

-----------------------------------------------------------------------------
(* backend-api: ChatController.chat *)

Ask(r) ==
    /\ pc[r] = "idle"
    /\ pc' = [pc EXCEPT ![r] = "asking"]
    /\ ai' = [ai EXCEPT ![r] = "arrived"]
    /\ UNCHANGED <<response, history, audit, reply, pool, crashes>>

\* Fault: the fallback answer carries no error.
Apology == [answered |-> FALSE, partial |-> TRUE, error |-> FALSE]

Degraded == [answered |-> FALSE, partial |-> TRUE, error |-> TRUE]

\* A 200 says itself whether the answer is partial; response_mapper sets partial exactly when
\* there is an error.
FromReply(sent) ==
    IF sent = "raised" THEN Degraded
    ELSE [answered |-> TRUE, partial |-> sent = "degraded", error |-> sent = "degraded"]

AnswerWith(r, result) ==
    /\ response' = [response EXCEPT ![r] = result]
    /\ pc' = [pc EXCEPT ![r] = "recording"]
    /\ UNCHANGED <<history, audit, reply, pool, crashes>>

\* Connection refused, or not established in time.
Unreachable(r) == pc[r] = "idle" /\ AnswerWith(r, Degraded) /\ UNCHANGED ai

Receive(r) ==
    pc[r] = "asking" /\ reply[r] # "none" /\ AnswerWith(r, FromReply(reply[r])) /\ UNCHANGED ai

\* Fault: no read timeout.
WaitsForReply(r) == FALSE

\* The read timeout, or a connection that breaks.
MayGiveUp(r) == TRUE

GiveUp(r) ==
    pc[r] = "asking" /\ MayGiveUp(r) /\ AnswerWith(r, Degraded) /\ UNCHANGED ai

\* Fault: one try block for both writes.
StopsAtFailure(how) == IF how = "failed" THEN "done" ELSE "auditing"

AfterHistory(how) == "auditing"

\* Recorded, left alone because the session is another user's, or failed and logged.
RecordHistory(r) ==
    /\ pc[r] = "recording"
    /\ \E how \in {"recorded", "refused", "failed"} :
          /\ history' = [history EXCEPT ![r] = how]
          /\ pc' = [pc EXCEPT ![r] = AfterHistory(how)]
    /\ UNCHANGED <<response, audit, ai, reply, pool, crashes>>

\* Fault: an answer that names an error is still an answer.
AnyAnswerIsSuccess(result) == IF result.answered THEN "SUCCESS" ELSE "ERROR"

DeriveStatus(result) ==
    IF result.error THEN "ERROR" ELSE IF result.partial THEN "PARTIAL" ELSE "SUCCESS"

RecordAudit(r) ==
    /\ pc[r] = "auditing"
    /\ \E status \in {DeriveStatus(response[r]), "failed"} :
          audit' = [audit EXCEPT ![r] = status]
    /\ pc' = [pc EXCEPT ![r] = "done"]
    /\ UNCHANGED <<response, history, ai, reply, pool, crashes>>

-----------------------------------------------------------------------------
(* The AI service: query, and the executor that runs the graph *)

\* A request has a thread of the service, from its start to its reply.
Handled == {q \in Requests : ai[q] = "waiting"}

Submit(r) ==
    /\ ai[r] = "arrived" /\ Cardinality(Handled) < Handlers
    /\ ai' = [ai EXCEPT ![r] = "waiting"]
    /\ queue' = Append(queue, r)
    /\ UNCHANGED <<backend, reply, running, run, crashes>>

Start ==
    /\ queue # <<>> /\ Cardinality(running) < Workers
    /\ running' = running \cup {Head(queue)}
    /\ queue' = Tail(queue)
    /\ UNCHANGED <<backend, ai, reply, run, crashes>>

\* Fault: the worker is given back by the handler, which may have gone.
FreedByHandler(r) == IF ai[r] = "waiting" THEN running \ {r} ELSE running

Freed(r) == running \ {r}

Finish(r) ==
    /\ r \in running
    /\ \E how \in Endings : run' = [run EXCEPT ![r] = how]
    /\ running' = Freed(r)
    /\ UNCHANGED <<backend, ai, reply, queue, crashes>>

Send(r, what) ==
    /\ reply' = [reply EXCEPT ![r] = what]
    /\ ai' = [ai EXCEPT ![r] = "gone"]

\* 200, or the 503 or 500 of what was raised, by the run or by mapping its final state.
Reply(r) ==
    /\ ai[r] = "waiting" /\ run[r] # "none"
    /\ \E what \in {run[r], "raised"} : Send(r, what)
    /\ UNCHANGED <<backend, pool, crashes>>

\* Fault: the run is submitted again when it was not in time.
SubmittedAgain(r) == Append(queue, r)

QueueAfterTimeout(r) == queue

\* future.result() gives up: a 504.  The future is not cancelled.
TimeOut(r) ==
    /\ ai[r] = "waiting" /\ run[r] = "none"
    /\ Send(r, "raised")
    /\ queue' = QueueAfterTimeout(r)
    /\ UNCHANGED <<backend, running, run, crashes>>

-----------------------------------------------------------------------------
(* Crashes: what a service keeps in memory is lost, committed rows are not *)

AiCrash ==
    /\ crashes < MaxCrashes
    /\ crashes' = crashes + 1
    /\ queue' = <<>>
    /\ running' = {}
    /\ ai' = [r \in Requests |-> IF ai[r] = "none" THEN "none" ELSE "gone"]
    /\ UNCHANGED <<backend, reply, run>>

BackendCrash ==
    /\ crashes < MaxCrashes
    /\ crashes' = crashes + 1
    /\ pc' = [r \in Requests |-> IF pc[r] \in {"idle", "done"} THEN pc[r] ELSE "dead"]
    /\ UNCHANGED <<response, history, audit, ai, reply, pool>>

-----------------------------------------------------------------------------

Backend(r) == Receive(r) \/ GiveUp(r) \/ RecordHistory(r) \/ RecordAudit(r)
Handler(r) == Submit(r) \/ Reply(r) \/ TimeOut(r)

Next ==
    \/ \E r \in Requests :
          Ask(r) \/ Unreachable(r) \/ Backend(r) \/ Handler(r) \/ Finish(r)
    \/ Start \/ AiCrash \/ BackendCrash

Spec == Init /\ [][Next]_vars

\* Threads run and timeouts fire; a run ends, because every wait in it has a timeout.
FairSpec ==
    /\ Spec
    /\ WF_vars(Start)
    /\ \A r \in Requests : WF_vars(Backend(r)) /\ WF_vars(Handler(r)) /\ WF_vars(Finish(r))

-----------------------------------------------------------------------------
(* Properties *)

TypeOK ==
    /\ pc \in [Requests -> {"idle", "asking", "recording", "auditing", "done", "dead"}]
    /\ response \in [Requests -> Response]
    /\ history \in [Requests -> {"none", "recorded", "refused", "failed"}]
    /\ audit \in [Requests -> {"none", "failed", "SUCCESS", "PARTIAL", "ERROR"}]
    /\ ai \in [Requests -> {"none", "arrived", "waiting", "gone"}]
    /\ reply \in [Requests -> {"none"} \cup Endings]
    /\ running \subseteq Requests /\ Cardinality(running) <= Workers
    /\ queue \in Seq(Requests) /\ IsInjective(queue) /\ ToSet(queue) \cap running = {}
    /\ run \in [Requests -> {"none"} \cup Endings]
    /\ crashes \in 0..MaxCrashes

\* A turn is audited as a success only if its own run had ended, completely, while the AI
\* service and the backend were still waiting for it: a run that ends after a 504, a read
\* timeout or a crash leaves the recorded failure alone (AuditService.deriveStatus).
SuccessIsComplete ==
    \A r \in Requests : audit[r] = "SUCCESS" =>
        /\ run[r] = "complete" /\ reply[r] = "complete"
        /\ response[r].answered /\ ~response[r].partial

\* The error behind a failed turn reaches the user, as the warning of a partial response, and
\* the audit row alike, whichever layer gave up (docs/api_contracts.md:241).
FailureIsTold ==
    \A r \in Requests : pc[r] \in {"recording", "auditing", "done"} /\ ~response[r].answered =>
        /\ response[r].partial /\ response[r].error
        /\ audit[r] \in {"none", "failed", "ERROR"}

\* Both writes are tried before the caller is answered, whatever became of the first: an answer
\* without an audit row means that the audit write itself failed (comment at ChatController:34).
BothWritesTried ==
    \A r \in Requests : pc[r] = "done" => history[r] # "none" /\ audit[r] # "none"

\* Whatever a turn came to, the user and the two records of it are not left out (ChatController).
OutcomeIsKept == FailureIsTold /\ BothWritesTried

\* Together: what the user is told and what is recorded is what happened (ChatController.chat,
\* AuditService.deriveStatus).
OutcomeIsTrue == SuccessIsComplete /\ OutcomeIsKept

\* "There is no retry at this layer" (docs/api_contracts.md:241): a question that was given up
\* or lost in a crash is never submitted again, and a run that has ended is never started.
NoSecondRun ==
    [][\A r \in Requests :
          /\ ~InPool(r) /\ InPool(r)' => ai[r] = "arrived"
          /\ r \in running' \ running => run[r] = "none"]_vars

\* Every request is answered, though its run hangs in the queue behind the runs of callers who
\* have gone, the AI service crashes, or its reply never comes.
EveryRequestReturns == \A r \in Requests : pc[r] = "asking" ~> pc[r] \in {"done", "dead"}

\* Abandoned runs do not fill the pool for good: whatever was submitted gets a worker, unless
\* the service crashes (docs/08_release_candidate_audit.md:154 tells of the pool that hung).
PoolDrains == \A r \in Requests : InPool(r) ~> ~InPool(r)

\* Together: neither the callers nor the runs they abandon wait for ever.
TurnsEnd == EveryRequestReturns /\ PoolDrains
=============================================================================
