------------------------------ MODULE ChatPage ------------------------------
(***************************************************************************)
(* The chat page of the Angular client                                     *)
(* (frontend/src/app/features/chat/pages/chat-page): it sends questions    *)
(* under a session id, restores the conversation that its URL names, and   *)
(* keeps the URL on the session it shows.  Its two kinds of requests run   *)
(* side by side; the backend may answer late, fail, or record a turn whose *)
(* caller has gone.  A reload of the page starts a new component and       *)
(* aborts the requests of the old one.                                     *)
(*                                                                         *)
(* The conversations are those of HistoryLog, reduced to the turns of one  *)
(* user.  Each load of the page mints the session id of its own number.    *)
(***************************************************************************)
EXTENDS Naturals, Sequences, FiniteSets, SequencesExt

CONSTANTS Turns,      \* questions, every send and every retry one of its own
          NoTurn,     \* the message of a failed restore
          MaxLoads,   \* bound on the loads of the page
          MaxFetches  \* bound on the restore requests at one time

ASSUME PageAssumption ==
    NoTurn \notin Turns /\ MaxLoads \in Nat \ {0} /\ MaxFetches \in Nat \ {0}

VARIABLES
    load,         \* number of the load
    url,          \* query parameter sessionId; 0 is none
    restoreId,    \* the session this load was asked to restore; 0 is none
    sessionId, messages, isLoading, isRestoring,
    fetches,      \* requests for the conversation to restore
    client,       \* what the page waits for
    backend,      \* what the backend does for a question
    sentTo,       \* session a question was sent under
    rows,         \* the recorded conversations
    mixed         \* history: this load sent a question before a restore that was still to come

page == <<url, restoreId, sessionId, messages, isLoading, isRestoring, mixed>>
vars == <<load, page, fetches, client, backend, sentTo, rows>>

Sessions == 1..MaxLoads
Fetches == 1..MaxFetches
Fetch == [stage : {"none", "asked", "found", "failed"}, turns : Seq(Turns)]
NoFetch == [stage |-> "none", turns |-> <<>>]
Message == [kind : {"user", "assistant", "error"}, turn : Turns \cup {NoTurn}]

User(t) == [kind |-> "user", turn |-> t]
Assistant(t) == [kind |-> "assistant", turn |-> t]
Error(t) == [kind |-> "error", turn |-> t]

Fetching == {i \in Fetches : fetches[i].stage # "none"}
Waiting == {t \in Turns : client[t] = "waiting"}

Init ==
    /\ load = 1 /\ url = 0 /\ restoreId = 0 /\ sessionId = 1
    /\ messages = <<>> /\ isLoading = FALSE /\ isRestoring = FALSE
    /\ fetches = [i \in Fetches |-> NoFetch]
    /\ client = [t \in Turns |-> "unused"]
    /\ backend = [t \in Turns |-> "none"]
    /\ sentTo = [t \in Turns |-> 0]
    /\ rows = [s \in Sessions |-> <<>>]
    /\ mixed = FALSE

-----------------------------------------------------------------------------
(* Sending: onSend, handleSuccess, handleError *)

\* Fault: the suggested questions may be sent while another one is under way.
MayAlwaysSend == TRUE

MaySend == ~isLoading

\* From the composer, a suggested question or a retry; only the composer is disabled while
\* the page restores.
OnSend(t) ==
    /\ client[t] = "unused" /\ MaySend
    /\ messages' = Append(messages, User(t))
    /\ isLoading' = TRUE
    /\ client' = [client EXCEPT ![t] = "waiting"]
    /\ backend' = [backend EXCEPT ![t] = "processing"]
    /\ sentTo' = [sentTo EXCEPT ![t] = sessionId]
    /\ mixed' = (mixed \/ Fetching # {})
    /\ UNCHANGED <<load, url, restoreId, sessionId, isRestoring, fetches, rows>>

\* Fault: the URL is written once and then left alone.
OnlyOnce == IF url = 0 THEN sessionId ELSE url

\* syncSessionIdToUrl
SyncedUrl == sessionId

HandleSuccess(t) ==
    /\ client[t] = "waiting" /\ backend[t] = "done"
    /\ client' = [client EXCEPT ![t] = "over"]
    /\ isLoading' = FALSE
    /\ messages' = Append(messages, Assistant(t))
    /\ url' = SyncedUrl
    /\ UNCHANGED <<load, restoreId, sessionId, isRestoring, fetches, backend, sentTo, rows,
                   mixed>>

\* Fault: only a success ends the loading state.
StaysAfterError == isLoading

LoadingAfterError == FALSE

\* An error response, or a connection that breaks at any moment.
HandleError(t) ==
    /\ client[t] = "waiting"
    /\ client' = [client EXCEPT ![t] = "over"]
    /\ isLoading' = LoadingAfterError
    /\ messages' = Append(messages, Error(t))
    /\ UNCHANGED <<load, url, restoreId, sessionId, isRestoring, fetches, backend, sentTo, rows,
                   mixed>>

-----------------------------------------------------------------------------
(* Restoring: restoreConversation *)

Conversation(turns) ==
    [i \in 1..(2 * Len(turns)) |->
        IF i % 2 = 1 THEN User(turns[(i + 1) \div 2]) ELSE Assistant(turns[i \div 2])]

\* Fault: the restored turns are shown, but the page goes on with the id it minted.
OwnSession == sessionId

SessionRestored == restoreId

Restored(i) ==
    /\ fetches[i].stage = "found"
    /\ sessionId' = SessionRestored
    /\ messages' = Conversation(fetches[i].turns)
    /\ isRestoring' = FALSE
    /\ fetches' = [fetches EXCEPT ![i] = NoFetch]
    /\ UNCHANGED <<load, url, restoreId, isLoading, client, backend, sentTo, rows, mixed>>

\* Fault: the failed restore is told, and the page goes on restoring.
StillRestoring == isRestoring

RestoringAfterError == FALSE

RestoreFailed(i) ==
    /\ fetches[i].stage = "failed"
    /\ messages' = <<Error(NoTurn)>>
    /\ isRestoring' = RestoringAfterError
    /\ fetches' = [fetches EXCEPT ![i] = NoFetch]
    /\ UNCHANGED <<load, url, restoreId, sessionId, isLoading, client, backend, sentTo, rows,
                   mixed>>

\* Fault: the retry button of any error restores the conversation again.
AnyErrorRestores == \E i \in DOMAIN messages : messages[i].kind = "error"

RestoreFailureShown == Contains(messages, Error(NoTurn))

\* The retry button of a failed restore; it stays until the conversation has come.
RetryRestore(i) ==
    /\ i \notin Fetching /\ RestoreFailureShown
    /\ fetches' = [fetches EXCEPT ![i].stage = "asked"]
    /\ isRestoring' = TRUE
    /\ mixed' = (mixed \/ Len(messages) > 1)
    /\ UNCHANGED <<load, url, restoreId, sessionId, messages, isLoading, client, backend, sentTo,
                   rows>>

-----------------------------------------------------------------------------
(* The backend, and the browser *)

\* The turn is recorded, or the history write fails; the caller may have gone.
Process(t) ==
    /\ backend[t] = "processing"
    /\ backend' = [backend EXCEPT ![t] = "done"]
    /\ rows' \in {rows, [rows EXCEPT ![sentTo[t]] = Append(@, t)]}
    /\ UNCHANGED <<load, page, fetches, client, sentTo>>

\* GET /api/chat/history/{id}: the turns recorded by then, 404 without any, or an error.
ServeFetch(i) ==
    /\ fetches[i].stage = "asked"
    /\ \/ /\ rows[restoreId] # <<>>
          /\ fetches' = [fetches EXCEPT ![i] = [stage |-> "found", turns |-> rows[restoreId]]]
       \/ fetches' = [fetches EXCEPT ![i].stage = "failed"]
    /\ UNCHANGED <<load, page, client, backend, sentTo, rows>>

\* The page is loaded again: with its URL, with that of a conversation, or without a session.
Load ==
    /\ load < MaxLoads
    /\ load' = load + 1
    /\ url' \in {url, 0} \cup {s \in Sessions : rows[s] # <<>>}
    /\ restoreId' = url'
    /\ sessionId' = load'
    /\ messages' = <<>> /\ isLoading' = FALSE /\ isRestoring' = (url' # 0)
    /\ fetches' = [i \in Fetches |->
          IF i = 1 /\ url' # 0 THEN [NoFetch EXCEPT !.stage = "asked"] ELSE NoFetch]
    /\ client' = [t \in Turns |-> IF client[t] = "waiting" THEN "over" ELSE client[t]]
    /\ mixed' = FALSE
    /\ UNCHANGED <<backend, sentTo, rows>>

-----------------------------------------------------------------------------

Answered(t) == HandleSuccess(t) \/ HandleError(t)
Settle(i) == ServeFetch(i) \/ Restored(i) \/ RestoreFailed(i)

Next ==
    \/ \E t \in Turns : OnSend(t) \/ Answered(t) \/ Process(t)
    \/ \E i \in Fetches : Settle(i) \/ RetryRestore(i)
    \/ Load

Spec == Init /\ [][Next]_vars

\* Requests end, because the backend answers or the connection breaks; users need not act.
FairSpec ==
    /\ Spec
    /\ \A t \in Turns : WF_vars(Answered(t))
    /\ \A i \in Fetches : WF_vars(Settle(i))

-----------------------------------------------------------------------------
(* Properties *)

TypeOK ==
    /\ load \in 1..MaxLoads
    /\ {url, restoreId} \subseteq 0..MaxLoads /\ sessionId \in Sessions
    /\ messages \in Seq(Message)
    /\ {isLoading, isRestoring, mixed} \subseteq BOOLEAN
    /\ fetches \in [Fetches -> Fetch]
    /\ Fetching # {} => restoreId # 0
    /\ client \in [Turns -> {"unused", "waiting", "over"}]
    /\ backend \in [Turns -> {"none", "processing", "done"}]
    /\ sentTo \in [Turns -> 0..MaxLoads]
    /\ rows \in [Sessions -> Seq(Turns)]

\* The page shows that it is loading exactly while a question is under way, and there is never
\* a second one: neither an error nor a restore in between unlocks or blocks it.
OneQuestionAtATime ==
    /\ isLoading <=> Waiting # {}
    /\ Cardinality(Waiting) <= 1

Answers == {i \in DOMAIN messages : messages[i].kind = "assistant"}

AnswersOfSession == \A i \in Answers : sentTo[messages[i].turn] = sessionId

InRecordedOrder ==
    \A i, j \in Answers : i < j =>
        \A m, n \in DOMAIN rows[sessionId] :
            rows[sessionId][m] = messages[i].turn /\ rows[sessionId][n] = messages[j].turn => m < n

\* As long as no question was sent before a restore that came later, the page shows answers of
\* one conversation only, the one it goes on with, none twice, and in the order of the history.
ShowsItsConversation == ~mixed => AnswersOfSession /\ InRecordedOrder

\* "So a mid-conversation page refresh restores it" (chat-page.component.ts:156): whenever
\* answers are shown, the URL names the session that they belong to.
RefreshRestores == ~mixed /\ Answers # {} => url = sessionId

\* Together: what the page shows is one conversation, and a refresh finds it again.
ConversationSurvives == ShowsItsConversation /\ RefreshRestores

\* Neither spinner turns for ever.
SpinnersEnd == (isLoading ~> ~isLoading) /\ (isRestoring ~> ~isRestoring)

=============================================================================
