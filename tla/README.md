# NexChain: a TLA+ verification of the co-pilot

NexChain answers questions about supply-chain orders: an Angular client talks to a Spring Boot
backend, which asks a Python AI service, which runs a LangGraph pipeline over a database, three
mock enterprise APIs (through an MCP server) and a knowledge base. This directory holds TLA+
modules of the parts where order, concurrency, failure or arithmetic decide whether the answer is
right, TLC configurations that check them on small instances, and TLAPS proofs of the safety
properties for every value of the constants. All paths below are relative to the repository.

`PROJECT.json` lists the components, runs, mutants, hazards, findings and theorems, and maps every
definition to the lines it models. A *mutant* is a definition marked "Fault:" in a module, next to
the definition it would replace: a plausible mistake in that code which makes the property fail, so
that each property is known to depend on the code it is about.

    tlc -workers 2 -config history_turns.cfg MCConversationHistory.tla
    tlapm ConversationHistoryProofs.tla

## 1. Inventory

One question travels through these parts:

    chat page --POST /api/chat--> ChatController --POST /query--> ai_service handler
      --executor--> LangGraph (supervisor -> branches -> rules -> final response)
      branches --> LLM, MCP client --> MCP server --> database, mock APIs; vector store
    and back: response_mapper -> ChatService -> history write -> audit write -> chat page

| Component | State | Operations | What makes it correct |
|---|---|---|---|
| Conversation history (`backend-api/.../history`) | H2 table of conversations, a monitor per session | `recordTurn`, `delete`, reads | no recorded turn is lost or invented, conversations belong to one user, the table is an append-only log of whole conversations |
| Chat endpoint, AI client, audit log (`backend-api`) | request threads, audit rows | `chat`, `query`, `record` | every turn is answered, failures are told to the user and the audit row alike |
| AI service boundary (`ai_service/main.py`) | executor of 8 workers, its queue | `query`, timeout, error replies | abandoned runs neither block the service for good nor are repeated |
| Copilot graph (`ai/graph`, `response_mapper.py`) | `CoPilotState` of one run | seven nodes, routing, retries | every needed source is asked once, in order; what failed is said |
| SLA rule engine (`business_rule_agent/rules.py`) | none (pure) | `evaluate` and its parts | agrees with the schema's formula, never improves with time |
| MCP client (`ai/mcp_client.py`) | one shared connection, an event-loop thread each | `call_tool`, connect, close | one connection, dead ones replaced, every call returns |
| Chunker (`ai/rag/chunker.py`) | buffer, carry, chunks | `chunk_document` | no text is lost, chunks are excerpts with the right sections |
| Ingestion, store, knowledge base agent | vectors, `INDEX.md` | `run_ingestion`, `search`, `assemble_context` | one version of a document, named sources, a bounded context |
| Chat page (`frontend`) | messages, two spinners, URL | send, retry, restore, reload | shows one conversation, a refresh brings it back, spinners end |
| History and audit pages, session and guards (`frontend`) | lists, token | load, delete, filter, log out | late answers do not undo newer ones |
| Text-to-SQL agent, tool layer, MCP server, mock APIs, LLM client | none beyond a call | generate, validate, look up | only valid SQL is run, failures are classified |
| Authentication, pagination, error bodies (`backend-api`) | key, clock | login, filter, page | a token names its user; reads change nothing |
| Live server of the vendored design tool (`.github/skills/impeccable/scripts/live*`) | event queue with leases, parked polls, durable journal, the page's session | generate, decide, poll, reply, crash, restart | one worker per event, no lost wakeup, a decision outlives a crash |

Hard behaviours, each listed with its line under "hazards" in `PROJECT.json`: threads that share a
session's row and the MCP connection (interleaving); a delete that checked an owner which is no
longer there, a session read and used after the lock (stale state); timeouts at four layers (MCP
15 s and 10 s, LLM 20 s, service 30 s, backend 35 s) that race late answers and do not cancel what
they gave up on; crashes of either service between two writes; one of several sources failing; a
page that restores and sends at the same time; requests that outlive the page and the session that
sent them; leases that expire under slow workers; the boundaries of the SLA thresholds, the chunk
sizes and the context budget; replacing a document in two steps while it is searched.

## 2. Plan

Order of work, the core of the system first:

1. **ConversationHistory** with its abstract specification **HistoryLog** and
   **ConversationHistoryProofs**: done.
2. **SlaRules**, **SlaClock** (an order ages), **CopilotGraph** (extends SlaRules, one run): done.
3. **McpClient**, and **AiServiceProofs** about it, SlaClock and CopilotGraph: done.
4. **ChatTurn** with **ChatTurnProofs**: a turn through both services. It uses a graph run reduced to
   how it ends, and a history write reduced to one step of HistoryLog: done.
5. **ChatPage** with **ChatPageProofs**: the client's conversation, over HistoryLog's conversations:
   done.
6. **Chunker** and **KnowledgeBase** with **RagProofs**, and **FoldLemmas**, the lemmas on folds that
   it and LiveQueueProofs rest on: done.
7. **ClientPages** with **ClientPagesProofs**: the session (token, interceptor, guards, router), the
   login, history and audit pages: done.
8. **LiveQueue** with **LiveQueueProofs**: the one stateful, concurrent part of the vendored design
   tool: done.

Two modules of the first plan were not built. *ReportQuery* (the generate-validate-execute loop of
the Text-to-SQL agent) and *ToolLayer* (how errors are classified at the two boundaries) keep no
state past one call, and CopilotGraph already lets each of their calls end in every way they can
end: a module of them would show what that choice allows and no more. What remains worth doing is
CopilotGraph as an implementation of an abstract "answer or say why not" specification, with the
endings of a run in ChatTurn taken from it.

## 3. Modules and the code

Names follow the source where TLA+ allows it; `map` gives the lines of every definition.

**ConversationHistory** (`ConversationHistoryStore.java`). `rows` is the table, `holder` the
`sessionLocks` monitors, `pc` a request's program point, `seen` the row its `findById` returned.
`RecordTurn`, `Enter`, `FindForRecord`, `CommitRecord`/`RollbackRecord`, `Leave` are `recordTurn`
in the order of its monitor and transaction: the monitor is left after the commit, because
`TransactionTemplate` commits inside the synchronized block. `FindForDelete`, `CommitDelete` are
`delete`, which takes no monitor. `WriteApplies` is Hibernate's row-count check: an UPDATE whose row
has gone, or an INSERT whose key is there, fails the transaction. `Restart` loses monitors and
threads, never rows. **HistoryLog** is the promise: an append-only log with whole-conversation
removal; `ImplementsLog` is the refinement (`Log == INSTANCE HistoryLog WITH Turns <- Requests`).

**SlaRules** is `rules.py` function by function; **SlaClock** lets one order age, be dispatched,
delayed, revised, delivered or cancelled by the ERP (external: the rows arrive from outside), and
asks the rule engine every day. Dates are day numbers.

**CopilotGraph** (`ai/graph`, extends SlaRules). A query is the set of cues its text contains, so
the regular expressions are abstracted to which of them match; `ClassifyByRules` keeps their order.
One action per node; `call_with_retry` is a relation between attempts counted before and after
(`CallWithRetry`); the result dictionaries are reduced to a kind each. The answer is the set of its
sentences. The one about rows is what the model returns, unchecked, so it may be blank
(`Sentences(blank)`): a blank sentence counts as one for `error` (`nodes.py:314`) but says nothing
in the response. An empty answer of the knowledge base is no sentence (`nodes.py:311`) and goes with
"abstained". `Response` is `response_mapper.state_to_fields` of the final state, `{}` standing for
the fallback text. `Crash` is an exception a node does not catch.

**McpClient** (`mcp_client.py`). `GetConnection` is the critical section under the module lock,
`Ready`/`GiveUpWaiting` the handshake wait outside it, `Submit` the window between reading
`session` and submitting to the loop, `CallFails` the except branch, `Joined` the end of `close`.
The loop thread is `Connected`, `HandshakeFails`, `StreamBreaks`, `ShutDown`, `Complete`. A
coroutine submitted to a loop that has ended is never completed; its caller times out.

**ChatTurn** (`ChatController`, `RestClientAiQueryClient`, `AuditService`, `ai_service/main.py`).
`backend` variables are a request's thread, `pool` the executor. `TimeOut` does not remove the run
from the queue or its worker, as `future.result(timeout)` does not cancel. A reply and a read
timeout may come in any order.

**ChatPage** (`chat-page.component.ts`). `OnSend`, `HandleSuccess`, `HandleError`, `Restored`,
`RestoreFailed`, `RetryRestore` are the handlers, `Load` is `ngOnInit` of a fresh page. `mixed`
remembers that a question and a restore overlapped; what is shown in those loads is excluded from
ConversationSurvives (section 7 says what happens in them).

**ClientPages** (`core/`, `features/auth`, `features/history`, `features/audit`). One tab: `token`
and `stored` are AuthService's signal and localStorage, `place` what the router shows. A request is
a record with the token it was sent with and who hears its answer: its `page`, the `app` when the
page was left through the router (nothing unsubscribes), `nobody` after a reload. `Navigate` runs
the guards where the router does (`Guarded`) and builds a page anew (`Enter`) only when the place
changes. `TokenRefused` and `SignInRefused` are the interceptor's 401 branch, `ServeRead`,
`ServeDelete`, `ServeLogin` the backend, which checks the token's user, `OtherTab` a second tab of
the same browser. The list, its filter, its pages and the delete dialog are one action per handler.

**LiveQueue** (`live-server.mjs`, `live/session-store.mjs`, `live/poll-lanes.mjs`,
`live-browser.js`, `live-poll.mjs`, `live-complete.mjs`). `queue` is `pendingEvents`, `polls` is
`pendingPolls`; every handler ends in `Flush`, as the code's do in `flushPendingPolls`. The journal
is one snapshot per session and `applyEvent` one operator per event. `Poll` claims an event before
the preflight that it then awaits (`PreflightEnds`); a lease runs out (`LeaseExpires`) and its worker
replies all the same. `Crash` loses queue and polls, `Restart` restores the queue from the journal.
Left out: the 2 ms grace of the flush timer, a `POST` of Go that is lost, the `retry` reply,
checkpoints of carbonize and publication, steering and manual edits, a second page, a `done` without
a file (`live-server.mjs:281-282` redelivers none; `reference/live.md:407` prescribes the file). A
preflight ends before the lease it started.

**Chunker** (`chunker.py`). The loops of `_build_units`, `flush` and `chunk_document` are steps, so
that a fact about every document is an invariant and not an induction over the data. A unit is its
position, heading and length; `content` is the sequence of units a chunk joins. How Markdown is cut
into sections, paragraphs and sentences is abstracted: a document is a sequence of paragraphs with
the lengths of their sentences.

**KnowledgeBase** (`loader.py`, `ingest.py`, `vector_store.py`, `knowledge_base_agent`). The delete
and the upsert of a document are two steps with searches and failures between them; a search may
return any `TopK` distinct vectors in any order, so the claims hold for any embedding.
`ChunksOf` is a constant, so the proofs hold for whatever the chunker computes.

## 4. Runs

| Run | Module | Bounds | States | Shows |
|---|---|---|---|---|
| history_turns | MCConversationHistory | 2 sessions, 2 users, 3 requests, 1 restart | 145,608 | a conversation is its committed turns (ConversationIsItsTurns); refinement of HistoryLog; every request returns |
| sla_clock | MCSlaClock | 3 tiers, promises at -6, 0, 2, days 0..11 | 17,928 | verdicts agree with docs/06_backend_schema.md section 6, somebody owns an escalation (VerdictIsSound); time alone never improves a verdict (OnlyWorsens) |
| graph_run | MCCopilotGraph | all queries of at most 3 of 11 cues, 7 orders, 1 retry | 84,867 | each source asked once and in turn, the audit's agents are the trace, one retry budget per node (RunIsAccountable); a failed source or a missing answer makes the response partial, and nothing else does; the one exception are rows phrased as nothing (ShortfallIsTold) |
| mcp_calls | MCMcpClient | 2 threads, 3 connections, 3 calls each | 40,597 | one live connection, a failed one never used again (OneUsableConnection); closed by its own calls; every call returns |
| chat_turn | MCChatTurn | 2 requests, 1 worker, 1 handler, 1 crash | 98,170 | what is told and recorded is what happened (OutcomeIsTrue); no second run; requests return and the pool drains (TurnsEnd) |
| chat_page | MCChatPage | 3 questions, 2 loads, 2 restore requests | 148,477 | one question at a time; one conversation is shown and a refresh brings it back (ConversationSurvives); spinners end |
| client_pages | MCClientPages | 2 users (one an administrator), 2 conversations, 2 entries, 2 requests, 2 tokens, pages of 1 | 445,965 | nobody sees another's data (OnlyOwnData); a refused token stays out (RefusedIsOver); the list is what exists (ListIsShown); a spinner has its request |
| live_queue | MCLiveQueue | 2 sessions, 2 agents, 1 fault | 630,997 | one worker per event, no lost wakeup, decisions stand over crashes, no page waits for what is finished, agents are sent away only when nobody is there |
| chunker | MCChunker | documents of at most 6 paragraphs, 5 sizes, 3 headings | 455,209 | nothing lost, right labels (TextAndLabelsKept); excerpts in order, no fragment left (ChunksAreWhole) |
| knowledge_base | MCKnowledgeBase | 2 documents (symmetric), 3 texts, TopK 2 | 118,134 | one version per document (OneTextPerDocument), idempotent ingestion (PassedIsCurrent), named sources and a bounded context (AnswerIsGrounded) |
| history_delete_owner | MCConversationHistory | 1 session, 2 users, 4 requests | | violation, see 7 |
| sla_delivered | MCSlaClock | as sla_clock | | violation, see 7 |

A property that names several parts (ConversationIsItsTurns, OutcomeIsTrue, RunIsAccountable, ...) is
their conjunction; each part has its own definition and comment in the module.

Why the bounds are enough for the interesting cases. *History*: a lost update needs two writers of
one session, a phantom a writer and a delete, the refusal of a foreign session two users; three
requests hold each of these plus one more, and the restart may come between any two steps.
*SLA*: days reach past every tier's threshold from every promise, below zero included. *Graph*: no
intent rule looks at more than two groups of cues, so a third cue is one that must not matter; one
retry is the value in `contracts.py`. *MCP*: two threads racing for the first connection, for its
replacement, and for the replacement's replacement. *Chat turn*: with one worker and one handler the
second request queues behind an abandoned run, which is what eight of them do to a ninth. *Chat
page*: a conversation of one load is restored in the second, twice at a time, with a question
before, during and after. *Client pages*: an administrator with two conversations on pages of one
(so that a delete or a filter takes the last page away) and a user with none; two requests are a
late one of a page or session that is gone and one of the page that is shown; two tokens are a
session and the one that replaces it, here or in another tab. The proofs lift every one of these
bounds. *Live queue*: two agents, one for everything and one that only generates, are a worker whose
lease expired and the one that took over; the second session queues behind the first; one fault is
a crash, a lost agent or a page that goes, at every point. *Chunker*: the sizes are the real ones in
scale 1:50 (target 13, minimum 10, maximum 16, overlap 2), chosen around each threshold, and six
paragraphs reach several chunks and both flushes. *Knowledge base*: an empty, a one-chunk and a
three-chunk text make documents shrink, grow and vanish, and the contents fit, overflow and exactly
fill the budget of 17.

Every bound is a CONSTANT (`MaxRestarts`, `LastDay`, `MaxConns`, `MaxCalls`, `MaxCrashes`,
`MaxLoads`, `MaxFetches`, `MaxLogins`, `MaxSession`, `MaxFaults`, and the sizes of the sets). Deadlock is not checked where the bounded
behaviour ends by itself (all requests served, the last day, the chunking done, the last token used), as each cfg says; it is
checked for CopilotGraph, which stutters explicitly when it is done, for KnowledgeBase and for
LiveQueue.

## 5. Fairness

Liveness is stated under weak fairness of the following steps and of no others:

- history_turns: the steps of a request that has entered (`Progress`): a Java thread that can run
  does run, and a monitor that is left is handed over; arrivals, deletes and restarts need not come.
- mcp_calls: the steps of a calling thread, time-outs included, because every wait has one (15 s for
  a call, 10 s for the handshake, 5 s for the join). Nothing is assumed of the server or the loop.
- chat_turn: backend and handler threads, the executor's `Start`, and `Finish`: a run ends because
  every wait in it is bounded (LLM 20 s, MCP 15 s, API and database 5 s each) and the graph visits a
  node at most once (`SourcesInTurn`). Crashes need not come and users need not ask.
- chat_page: a question or a restore request ends (`Answered`, `Settle`), because the backend
  answers or the connection breaks; users need not act.

client_pages and live_queue assume no fairness and state no liveness: users, agents and the programs
behind them need not act, and their properties say what may never be the case meanwhile
(SpinnerHasRequest, NoWakeupLost, NotStranded).

`EveryRequestReturns` of ConversationHistory uses weak fairness of each request's own steps only: a
blocked request could be overtaken by every other one, of which there are finitely many.

## 6. Proofs

Each module `XProofs` extends the modules it is about and proves, for every value of the constants
that their named assumptions admit, `Spec => []P` by an inductive invariant. A step lemma has one
case per action.

- **ConversationHistoryProofs** (assumption `HistoryAssumption`: the two null values are no
  data). `IInv` adds to the checked properties `MonitorInv` (a request in the monitor is its
  holder), `SeenInv` (between find and commit a row can only disappear) and `OutcomeInv`. `SeenInv`
  is the heart: the monitor keeps other writers out and a delete can only make the commit fail.
  From it TypeCorrect, NoTurnIsLost, ConversationsAreOwned, NoTurnIsPhantom, together
  ConversationsAreRight (ConversationIsItsTurns), and StoreImplementsLog: every step is one of
  HistoryLog or leaves `rows` and `erased` alone.
- **AiServiceProofs** extends SlaClock, CopilotGraph and McpClient; so that it can, the definitions
  of SlaClock and McpClient that every specification has (`Init`, `Next`, `Spec`, `TypeOK`, `vars`)
  carry the prefixes Clock and Mcp.
  - *SlaClock* (`NoneAssumption`: the null value is no day, tier or role; `ClockAssumption`).
    `StateOK` types the order; with it every answer is a row of the engine's matrix, given by the
    delay `d` and the threshold `m` of the tier (`Row`), so the run's three properties are facts about
    rows: a row follows the schema's formula and has an owner from High on (VerdictsAreSound), and of
    two rows of one order the later day's is at least as bad (`RowsAreOrdered`, half of an odd
    threshold included), which gives NeverImproves. ClockTypeCorrect is the third.
  - *CopilotGraph* (`RetriesAssumption`, `QueriesAssumption`; `NamesAssumption` and
    `VerdictsAssumption`: the null value is no name and no verdict). An agents' list that equals the
    trace is not inductive; `RouteInv` is: the intent and the node to run next determine which nodes
    have run, in order (`Before`), and which result fields are set (`Filled`). With `BudgetInv` (a
    node without a result has spent nothing, so its one visit starts a fresh budget), `AskedInv` and
    `ErrorInv` (an error is recorded by a run without an intent, which has no result, or by one that
    ends without a sentence, and by no other; a blank sentence stands for rows) it gives TypeCorrect, RunsAreAccountable (RunIsAccountable) and ShortfallsAreTold
    (ShortfallIsTold), for every set of queries and orders and every retry limit. `ReturnKeeps` is
    the step that the three branch nodes share, `SqlBudget` the sum of the two calls on one budget.
  - *McpClient* (`BoundsAssumption`). `McpInv` says that every connection but the current one has
    failed (`Replaced`), that a handshake that is over stays over (`ReadyIsOver`), that closed and
    failed-over connections have failed. From it McpTypeCorrect, ConnectionIsLive and
    FailedIsNeverReused, together OneConnectionInUse (OneUsableConnection), and CallsCloseTheirOwn
    (ClosedByOwnCall): no call closes a connection other than the one it used.
- **ChatTurnProofs** (`PoolAssumption`). `PoolInv` (a run is in the pool at most once, and only
  between its submission and its end), `ReplyInv` (what was sent is how the run had ended),
  `ResponseInv` (what is recorded is the reply or the apology). From them TypeCorrect,
  SuccessIsTrue and OutcomesAreKept, together OutcomesAreTrue (OutcomeIsTrue), and RunsOnce.
- **ClientPagesProofs** (`PagesAssumption`: conversations and entries are numbered from 1, every
  conversation has a user, a page has room for one). All five properties of the run are proved:
  TypeCorrect, OnlyOwnDataShown, RefusedStaysOver, SpinnersHaveRequests, ListsAreShown. `TokenInv`
  says where a token may be (held, stored, in one answer, refused, spent) and that these places do
  not overlap; `PageInv` that the requests a page hears were sent by it with the tab's token, unless
  the user changed under it; `OneLoad` that a page waits for one list; `DeletesInv` that a deleted
  conversation is back in the list only if the list was read before. The pager needs a lemma on the
  number of pages (`LastPage`): a non-empty list has a non-empty last page, for every page size.
- **ChatPageProofs** (`PageAssumption`: the null turn is no question; there is a load, and a restore
  request to each). `PageInv` adds where answers and restored turns stand in the recorded history
  (`RecordedOnce`, `FetchIsPrefix`), that the backend has heard of every question sent
  (`SentIsHeard`), and, while no question overtook a restore, that a restore is alone
  (`RestoresAlone`) and that an answer to come belongs behind those shown (`AnswersBeforeWaiting`).
  From PageIsConsistent (`[]PageInv`): TypeCorrect, SendsOneAtATime (OneQuestionAtATime) and
  ShowsOneConversation (ConversationSurvives), for any number of questions, loads and restores.
- **FoldLemmas** has what the proofs about folds share. Induction over data with an operator as a
  parameter is out of the provers' reach, but for one concrete fold the least element of a set of
  numbers (`LeastOf`, `UpTo`) and one recursion on finite sets of numbers (`RecursionOnSubsets`) are
  enough: the function inside FoldLeft exists, and after k elements it is what k steps make of the
  base (`FoldsAs`, `TraceOfFold`). What each step keeps, the fold then keeps.
- **RagProofs** extends Chunker (whose `ChunkInit`, `ChunkNext`, `ChunkSpec`, `ChunkTypeOK` are
  prefixed for that) and KnowledgeBase.
  - *Chunker* (`ChunkerAssumption`: the target is positive; the minimum, the maximum and the overlap
    may be anything). `TypeInv` adds where the loops are; `CoverInv` says that the buffer is the
    stretch of the document that ends before `next` and that every unit before it is in a chunk;
    `ResultInv` counts `chunks` against `remaining_chunks`; `ExcerptInv` that a carry ends where its
    chunk ended. From them ChunkTypeCorrect, NoTextIsLost and LabelsAreRight, together
    ChunksCarryTheText (TextAndLabelsKept), and ChunksFollowTheText (ChunksAreExcerpts), for every
    document: these are not statements about bounded inputs.
  - NoFragmentIsLeft (ChunksAreWhole) needs two hypotheses on its constants. `SizesInProportion` is
    arithmetic on the four sizes that the code's 650, 500, 800 and 100 tokens just satisfy, and
    ChunksAreWhole is false of other proportions. `SentencesFit` says that no single sentence exceeds
    the maximum; the code does not exclude one that does, and then its final merge can be needed.
    `FillInv` is the argument: before the last chunk the split has taken less than the target of each.
  - *KnowledgeBase* (`KnowledgeBaseAssumption`: finitely many documents, as `INDEX.md` lists them).
    `StoreInv` adds `Emptied` (between delete and upsert the document has no vectors) and
    `LoadedOnce` (an ingestion meets a document once, which the distinct rows of `INDEX.md` give).
    From it OneVersionOnly and IngestionIsIdempotent. `BaseInv` adds the vectors and the answer:
    TypeCorrect, and AnswersAreGrounded (AnswerIsGrounded), for which the documents found and the
    context assembled from them are followed hit by hit and document by document.
- **LiveQueueProofs** (`LiveAssumption`: the bounds are numbers, an agent polls for event types).
  All six properties of the run are proved: TypeCorrect, OneWorker, NothingIsSleptThrough,
  DecisionsStand, NoPageIsStranded, ExitsWaitForThePage. `LiveInv` adds that whoever holds an event
  has the lease of the only entry there is of it (`QueueOK`, `HeldOK`), that no generate is queued of
  a decided session (`EntryOK`), that an unanswered decision is the pending event of a session that
  is not over (`Owes`), and that agents clean up after decisions only (`AgentOK`). `flushPendingPolls`
  ends almost every handler; it is a fold whose every step makes nothing available, so a poll once
  tried in vain would be tried in vain again and after the last nothing is left for anybody
  (`FlushKeeps`). A handler need then only keep leases and polls in order before it flushes.
  LiveQueue states two removals (`Without`, `Withdraw`) by FoldLeft and RemoveAt and not by
  SelectSeq, which the provers cannot expand.

Only model-checked: all liveness (EveryRequestReturns, EveryCallReturns, TurnsEnd, SpinnersEnd), which
no installed prover reaches under fairness. Every invariant and every action property that a run
checks, and the refinement of HistoryLog, is stated by a theorem.

## 7. Findings

- **Delete checks an owner and removes a session** (run history_delete_owner,
  `ConversationHistoryStore.java:115`). `info.md:595` says users delete their own conversations.
  `delete` takes no monitor: if the row it checked is deleted by a second request and another user
  opens a conversation under the same session id, the first delete removes that one.
- **A delivered order keeps ageing** (sla_delivered, `rules.py:66`).
  `ai/knowledge_base/01_sla_policy.md:89` says an order that was delivered on or before its date is
  On Time. The engine has no delivery date: such an order is At Risk one day after its promised date
  and Breached, with an escalation, later.
Seen while modelling, without a run of its own:

- Rows that the model phrases as nothing are lost: `_describe_rows` returns `generate(prompt).strip()`
  unchecked (`nodes.py:359`), `[""]` is a truthy list (`nodes.py:314`), so `final_response` is empty
  and `error` stays None; `response_mapper.py:114` and `:124` then send the fallback text as a
  complete answer. `nodes.py:350-351` says "a degraded LLM never means a degraded answer for data
  that's already sitting right there"; only a failing call falls back to the plain rows. TLC reaches
  the case in run graph_run, and ShortfallIsTold (`FallbackIsPartial`) shows that it is the only one.
- An unknown order makes a policy answer partial: `nodes.py:200-203` says that it is no degradation,
  but its number alone counts as an operational fact (`nodes.py:310`), the knowledge base's answer is
  dropped, and the response is the fallback text with `partial` set.
- A suggested question overtakes a restore: the suggestions are not disabled while a conversation is
  restored (`chat-page.component.ts:41-43`, `:89`); a question sent then starts a session of its own
  and its answer is shown in the restored conversation.
- A revised date replaces today in the breach arithmetic (`nodes.py:220`), as the worked example of
  the SLA policy does (01_sla_policy.md:145) and its rule for revisions (01_sla_policy.md:133-136)
  forbids; the two disagree, and the code follows the example.
- The audit status PARTIAL is never written: `response_mapper` sets `partial` exactly when there is
  an error, and `deriveStatus` looks at the error first.
- `docs/05_app_flow.md:164` promises exactly one audit row for every query; a failing write is
  logged and swallowed, and a crash after the history write leaves none.
- `agents_invoked` never names the error handler, and the error of a second failed source is not
  named (only the first one is), against `docs/05_app_flow.md:140`.
- The API node resolves an order and then asks for its shipment, each with its own retries, where
  `docs/02_technical_requirements.md:128` allows one per node (SharedRetryBudget excludes it).
- A hanging MCP handshake keeps every caller waiting its full time-out, one after the other: the
  connection is neither ready nor failed, so nobody replaces it.
- A question sent after a failed restore goes to a fresh session while the Retry button still stands
  (`chat-page.component.ts:160`).
- One slow tool call that times out closes the connection under the calls of all other threads
  (`mcp_client.py:148`). Errors cross the MCP wire as text only: a transient failure whose text
  contains "not found" is taken for a permanent one (`mcp_client.py:62`), and `permission denied`,
  which `tools/db.py:115-120` says must not be retried, becomes a `ToolUnavailable`, which is.
- `generate_sql` asks the LLM up to twice itself and the node retries it once: four calls per node.
- The client's session (ClientPages): an answer that arrives after the user has left the chat, or
  after a failed page was left, still navigates; a late 401 of an earlier session, or of a failed
  sign-in, ends the session that stands, and `logout` removes the token another tab has stored since;
  `authGuard` does not run again between the pages behind it; a navigation to the page already shown
  leaves it as it is when the user changes under it (`switched`); a detail that arrives late reopens
  the drawer; a list read before a delete shows the removed conversation until the next load
  (`crossed`).
- The live server (LiveQueue): a worker whose lease expired and who then reports an error after the
  user's Accept acknowledges nothing, so the guard at `session-store.mjs:336` misses it and the
  pending accept leaves the journal; after a restart nobody is asked to carry it out
  (`reference/live.md:19` says sessions survive; DecisionStands excludes these as `blamed`). An accept
  whose answer is lost leaves two decisions in the queue if the user then discards. The page's
  handler of `error` (`live-browser.js:6491-6505`) looks at no session id. After a discard nobody
  heard of, a reload shows the decided session as generating.
- `history-page.component.html:314` says that deleting a conversation removes its audit entries;
  the backend keeps them.
- The chunker's safety net is never reached (NoFragmentLeft), though `ai/rag/README.md` describes
  it, unless one sentence alone exceeds 800 tokens: the last chunk absorbs the rest. That chunk may exceed 800 tokens, and a chunk may be just
  the overlap of the one before it.
- A document removed from `INDEX.md` stays in the store; the context budget does not count the lines
  between documents and the mark of a cut (BudgetKept says by how much); a source's snippet may show
  text the cut left out of the context.

## 8. Not modelled, and why

- *Text-to-SQL generation and validation, the tool layer, MCP server, mock APIs, LLM client*: they
  keep no state past a call, and their outcomes are free choices of CopilotGraph and McpClient, which
  allow more than they do. What they compute (one statement, one lookup) is pure or I/O.
- *The backend's signing of tokens, pagination and error bodies*: reads and checks without state;
  ClientPages has what the client's session depends on (a token is its user's, a 401 at any time).
- *The text of answers, prompts, embeddings, regular expressions, Markdown, layout, sorting and
  dates of the lists*: data that no property tells apart. The classification of errors by their
  wording (`mcp_client.py:62`) is abstracted by letting each call fail either way.
- *Presentation components*: they hold no state another part reads.
- *Evaluation and load scripts, containers, CI*: outside the running system.
- *Vendored design tooling* (`.github/skills`), by far most of the lines of the repository: linters
  that detect anti-patterns in HTML and CSS, hooks, overlays injected into a page. It is no part of
  NexChain and is mostly pure analysis of text; its live server, which is stateful and concurrent, is
  modelled (LiveQueue), its manual edits, steering and overlays are not.
