---------------------------- MODULE CopilotGraph ----------------------------
(***************************************************************************)
(* One query's run through the LangGraph of ai/graph: the supervisor       *)
(* classifies it, the branch nodes it needs run one after the other, the   *)
(* Business Rule Agent looks at the order, the Final Response Agent writes *)
(* the answer, and ai_service/response_mapper.py turns the final state     *)
(* into the wire response.  A query is the set of cues that its text holds.*)
(***************************************************************************)
EXTENDS SlaRules, FiniteSets, Sequences

CONSTANTS Queries,             \* the queries asked, each a set of Cues
          Orders,              \* what get_order may return
          Today,
          MaxRetriesPerNode    \* ai/contracts.py

ASSUME RetriesAssumption == MaxRetriesPerNode \in Nat

VARIABLES
    query,     \* raw_query
    at,        \* the node to run next
    intent,    \* intent; sub_intents is SubIntents of it
    result,    \* kb_result, sql_result, api_result and rule_result, by the node that sets them
    verdict,   \* what the rule engine said of the order, in rule_result
    retry,     \* retry_count
    answer,    \* final_response, as the set of its sentences; {} is Python's None
    error,     \* error, named by where it comes from
    trace,     \* history: the nodes that ran, in order
    resent,    \* history: the calls that each node sent again
    kbAsked    \* history: what the knowledge base was asked

run == <<intent, result, verdict, retry, answer, error>>
vars == <<query, at, run, trace, resent, kbAsked>>

Supervisor == "intent_classifier"
KB == "knowledge_base_agent"
SQL == "text_to_sql_agent"
API == "api_status_agent"
RULE == "business_rule_agent"
FINAL == "final_response_agent"
ERR == "error_handler"
Nodes == {Supervisor, KB, SQL, API, RULE, FINAL, ERR}
ResultNodes == {KB, SQL, API, RULE}

Cues == {"orderNo", "trackingNo", "reference", "reason", "sla", "escalation", "policy",
         "shipment", "orderStatus", "inventory", "aggregate"}

ASSUME QueriesAssumption == Queries \subseteq SUBSET Cues

\* "abstained" also stands for an answer without text, which is no sentence either.
Results(n) ==
    {"none", "error"} \cup
    CASE n = KB -> {"abstained", "answer"}
      [] n = SQL -> {"noSql", "rows"}
      [] n = API -> {"noReference", "noShipment", "located", "held", "heldHs"}
      [] n = RULE -> {"noOrder", "unknownOrder", "order"}

\* The results that carry an "error" key.
HasError(kind) == kind \in {"error", "noSql", "noReference", "noShipment"}
Shipment == {"located", "held", "heldHs"}
Cause == {"held", "heldHs"}    \* a shipment with a delay_reason

-----------------------------------------------------------------------------
(* Classification and routing *)

\* classify_by_rules: the first pattern that matches decides.
ClassifyByRules(q) ==
    LET Has(cues) == q \cap cues # {}
        statusRef == Has({"orderNo", "trackingNo", "reference"})
    IN  IF statusRef /\ Has({"reason"}) THEN "delay_analysis"
        ELSE IF statusRef /\ Has({"sla", "escalation"}) THEN "sla_check"
        ELSE IF Has({"policy", "escalation"}) THEN "sop_lookup"
        ELSE IF Has({"trackingNo", "shipment"}) THEN "shipment_status"
        ELSE IF Has({"orderNo", "orderStatus"}) THEN "order_status"
        ELSE IF Has({"inventory"}) THEN "inventory"
        ELSE IF Has({"aggregate"}) THEN "report"
        ELSE None

\* What the LLM may make of an ambiguous query; None is a failed or unusable reply.
LlmIntents == {"sop_lookup", "shipment_status", "report", "delay_analysis", None}

RoutingNode == [sop_lookup |-> KB, order_status |-> SQL, inventory |-> SQL, report |-> SQL,
                shipment_status |-> API]
MultiTool == {"sla_check", "delay_analysis"}
Intents == DOMAIN RoutingNode \cup MultiTool
ErrorNames == ResultNodes \cup {"classification", "noData", "unhandled"}

ASSUME NamesAssumption == None \notin Intents \cup ErrorNames \cup {"query", "cause"}

\* Fault: the knowledge base is consulted first.
SubIntentsKbFirst(i) ==
    CASE i = "sla_check" -> <<"order_status", "shipment_status">>
      [] i = "delay_analysis" -> <<"sop_lookup", "order_status", "shipment_status">>
      [] OTHER -> <<i>>

SubIntents(i) ==
    CASE i = "sla_check" -> <<"order_status", "shipment_status">>
      [] i = "delay_analysis" -> <<"order_status", "shipment_status", "sop_lookup">>
      [] OTHER -> <<i>>

\* The positions in sub_intents that need a branch: the rule agent reads the order anyway.
RequiredSteps(i) ==
    IF i \notin Intents THEN {}
    ELSE {k \in DOMAIN SubIntents(i) : i \in MultiTool => SubIntents(i)[k] # "order_status"}

RequiredNodes(i) == {RoutingNode[SubIntents(i)[k]] : k \in RequiredSteps(i)}

\* Fault: a branch that recorded an error is still pending.
NextAfterSuccess(i, res) ==
    LET NodeAt(k) == RoutingNode[SubIntents(i)[k]]
        pending == {k \in RequiredSteps(i) : res[NodeAt(k)] \in {"none", "error"}}
    IN  IF RequiredSteps(i) = {} THEN ERR
        ELSE IF pending = {} THEN RULE
        ELSE NodeAt(CHOOSE k \in pending : \A j \in pending : k <= j)

\* Fault: one branch is enough.
FirstBranchOnly(i, res) ==
    IF RequiredSteps(i) = {} THEN ERR
    ELSE IF \E n \in ResultNodes : res[n] # "none" THEN RULE
    ELSE RoutingNode[SubIntents(i)[CHOOSE k \in RequiredSteps(i) : \A j \in RequiredSteps(i) : k <= j]]

NextPendingNode(i, res) ==
    LET NodeAt(k) == RoutingNode[SubIntents(i)[k]]
        pending == {k \in RequiredSteps(i) : res[NodeAt(k)] = "none"}
    IN  IF RequiredSteps(i) = {} THEN ERR
        ELSE IF pending = {} THEN RULE
        ELSE NodeAt(CHOOSE k \in pending : \A j \in pending : k <= j)

RouteAfterSupervisor(i, res, err) == IF err # None THEN ERR ELSE NextPendingNode(i, res)

-----------------------------------------------------------------------------
(* call_with_retry *)

Transient == {"transient"}                \* how an LLM call fails
AnyFailure == {"transient", "permanent"}  \* how a tool call fails

\* Fault: attempts are compared before the failed one is counted.
OneRetryTooMany(before, failures) ==
    {[ok |-> TRUE, attempts |-> n] : n \in before..(MaxRetriesPerNode + 1)}
    \cup {[ok |-> FALSE, attempts |-> MaxRetriesPerNode + 2]}

\* What a call may come to that starts after `before` failed attempts: success after some
\* transient failures, a permanent failure after some, or one transient failure too many.
CallWithRetry(before, failures) ==
    {[ok |-> TRUE, attempts |-> n] : n \in before..MaxRetriesPerNode}
    \cup {[ok |-> FALSE, attempts |-> n + 1] :
            n \in IF "permanent" \in failures THEN before..MaxRetriesPerNode
                  ELSE {MaxRetriesPerNode}}

Resends(before, call) == call.attempts - before - (IF call.ok THEN 0 ELSE 1)

\* Fault: the database call gets retries of its own.
FreshBudget(attempts) == 0

\* The database call gets what SQL generation has left of the node's retries.
LeftoverBudget(attempts) == attempts

-----------------------------------------------------------------------------
(* The nodes *)

Init ==
    /\ query \in Queries
    /\ at = Supervisor
    /\ intent = None
    /\ result = [n \in ResultNodes |-> "none"]
    /\ verdict = None
    /\ retry = [n \in Nodes |-> 0]
    /\ answer = {}
    /\ error = None
    /\ trace = <<>>
    /\ resent = [n \in Nodes |-> 0]
    /\ kbAsked = None

Visit(n) == at = n /\ trace' = Append(trace, n) /\ UNCHANGED query

Classify ==
    /\ Visit(Supervisor)
    /\ intent' \in IF ClassifyByRules(query) # None THEN {ClassifyByRules(query)} ELSE LlmIntents
    /\ error' = IF intent' = None THEN "classification" ELSE None
    /\ at' = RouteAfterSupervisor(intent', result, error')
    /\ UNCHANGED <<result, verdict, retry, answer, resent, kbAsked>>

\* Branch node n stores its result and the attempts it counted, and the run goes on.
Return(n, kind, attempts, resends) ==
    /\ result' = [result EXCEPT ![n] = kind]
    /\ retry' = [retry EXCEPT ![n] = attempts]
    /\ resent' = [resent EXCEPT ![n] = @ + resends]
    /\ at' = NextPendingNode(intent, result')
    /\ UNCHANGED <<intent, verdict, answer, error>>

KnowledgeBaseAgent ==
    /\ Visit(KB)
    /\ kbAsked' = IF result[API] \in Cause THEN "cause" ELSE "query"
    /\ \E call \in CallWithRetry(retry[KB], Transient) :
         \E kind \in IF call.ok THEN {"abstained", "answer"} ELSE {"error"} :
            Return(KB, kind, call.attempts, Resends(retry[KB], call))

TextToSqlAgent ==
    /\ Visit(SQL)
    /\ \E gen \in CallWithRetry(retry[SQL], Transient) :
         LET again == Resends(retry[SQL], gen)
             before == LeftoverBudget(gen.attempts)
         IN  \/ ~gen.ok /\ Return(SQL, "error", gen.attempts, again)
             \/ gen.ok /\ Return(SQL, "noSql", gen.attempts, again)
             \/ /\ gen.ok
                /\ \E call \in CallWithRetry(before, AnyFailure) :
                     Return(SQL, IF call.ok THEN "rows" ELSE "error", call.attempts,
                            again + Resends(before, call))
    /\ UNCHANGED kbAsked

\* get_shipment_status, after `again` repeated look-ups of the tracking number.
ShipmentStatus(again) ==
    \E call \in CallWithRetry(retry[API], AnyFailure) :
        \E kind \in IF call.ok THEN Shipment ELSE {"error"} :
            Return(API, kind, call.attempts, again + Resends(retry[API], call))

ApiStatusAgent ==
    /\ Visit(API)
    /\ \/ "trackingNo" \in query /\ ShipmentStatus(0)
       \/ /\ "trackingNo" \notin query /\ "orderNo" \in query
          /\ \E call \in CallWithRetry(retry[API], AnyFailure) :   \* resolve_tracking_no
               LET again == Resends(retry[API], call)
               IN  \/ ~call.ok /\ Return(API, "error", call.attempts, again)
                   \/ call.ok /\ Return(API, "noShipment", retry[API], again)
                   \/ call.ok /\ ShipmentStatus(again)
       \/ query \cap {"trackingNo", "orderNo"} = {} /\ Return(API, "noReference", retry[API], 0)
    /\ UNCHANGED kbAsked

BusinessRuleAgent ==
    /\ Visit(RULE)
    /\ \/ /\ "orderNo" \notin query
          /\ result' = [result EXCEPT ![RULE] = "noOrder"]
          /\ UNCHANGED <<verdict, retry, resent>>
       \/ /\ "orderNo" \in query
          /\ \E call \in CallWithRetry(retry[RULE], AnyFailure) :
               /\ retry' = [retry EXCEPT ![RULE] = call.attempts]
               /\ resent' = [resent EXCEPT ![RULE] = @ + Resends(retry[RULE], call)]
               /\ \/ /\ result' = [result EXCEPT ![RULE] = IF call.ok THEN "unknownOrder" ELSE "error"]
                     /\ UNCHANGED verdict
                  \/ /\ call.ok
                     /\ result' = [result EXCEPT ![RULE] = "order"]
                     /\ \E o \in Orders :
                          verdict' = Evaluate(o, AsOfDate(o, Today), result[API] = "heldHs")
    /\ at' = FINAL
    /\ UNCHANGED <<intent, answer, error, kbAsked>>

HasOperationalFacts == result[RULE] \in {"order", "unknownOrder"} \/ result[API] \in Shipment

\* The sentences of the answer.  _describe_rows takes what the model returns for the rows, which
\* may be no text: then a blank sentence is appended.
Sentences(blank) ==
    LET rowsTold == result[SQL] = "rows" /\ result[RULE] # "order"
        slaKnown == result[RULE] = "order" /\ verdict.sla # "N/A"
        said == [order     |-> result[RULE] = "order",
                 rows      |-> rowsTold /\ ~blank,
                 blank     |-> rowsTold /\ blank,
                 shipment  |-> result[API] \in Shipment,
                 cause     |-> result[API] \in Cause,
                 sla       |-> slaKnown,
                 escalated |-> slaKnown /\ verdict.role # None,
                 policy    |-> result[KB] = "answer" /\ ~HasOperationalFacts]
    IN  {s \in DOMAIN said : said[s]}

\* Fault: nothing to say is no error of its own.
FinalErrorOfBranches(err, res) ==
    LET order == <<RULE, API, KB, SQL>>
        failed == {k \in DOMAIN order : HasError(res[order[k]])}
    IN  IF err # None THEN err
        ELSE IF failed = {} THEN None
        ELSE order[CHOOSE k \in failed : \A j \in failed : k <= j]

\* The first of state.error and the rule, API, KB and SQL errors.
FinalError(err, res) ==
    LET order == <<RULE, API, KB, SQL>>
        failed == {k \in DOMAIN order : HasError(res[order[k]])}
    IN  IF err # None THEN err
        ELSE IF failed = {} THEN "noData"
        ELSE order[CHOOSE k \in failed : \A j \in failed : k <= j]

FinalResponseAgent ==
    /\ Visit(FINAL)
    /\ \E blank \in BOOLEAN : answer' = Sentences(blank)
    /\ error' = IF answer' = {} THEN FinalError(error, result) ELSE error
    /\ at' = "END"
    /\ UNCHANGED <<intent, result, verdict, retry, resent, kbAsked>>

ErrorHandler ==
    /\ Visit(ERR)
    /\ answer' = {}
    /\ error' = IF error = None THEN "unhandled" ELSE error
    /\ at' = FINAL
    /\ UNCHANGED <<intent, result, verdict, retry, resent, kbAsked>>

\* A node raises something that it does not catch: invoke() raises, the caller sees a failure.
Crash ==
    /\ at \in Nodes
    /\ at' = "CRASHED"
    /\ UNCHANGED <<query, run, trace, resent, kbAsked>>

Done == at \in {"END", "CRASHED"} /\ UNCHANGED vars

Next ==
    \/ Classify \/ KnowledgeBaseAgent \/ TextToSqlAgent \/ ApiStatusAgent
    \/ BusinessRuleAgent \/ FinalResponseAgent \/ ErrorHandler \/ Crash \/ Done

Spec == Init /\ [][Next]_vars

-----------------------------------------------------------------------------
(* response_mapper.state_to_fields of the finished run *)

\* Fault: the rule result is not looked at.
FirstErrorOfBranches ==
    LET order == <<KB, SQL, API>>
        failed == {k \in DOMAIN order : HasError(result[order[k]])}
    IN  IF failed = {} THEN error
        ELSE order[CHOOSE k \in failed : \A j \in failed : k <= j]

\* Fault: the mapper looks for the error as the final node does, with its last resort.
FirstErrorOrNoData == FinalError(error, result)

FirstError ==
    LET order == <<KB, SQL, API, RULE>>
        failed == {k \in DOMAIN order : HasError(result[order[k]])}
    IN  IF failed = {} THEN error
        ELSE order[CHOOSE k \in failed : \A j \in failed : k <= j]

AgentsInvoked ==
    LET Ran(n) == IF result[n] # "none" THEN <<n>> ELSE <<>>
    IN  <<Supervisor>> \o Ran(SQL) \o Ran(API) \o Ran(KB) \o Ran(RULE) \o <<FINAL>>

\* What the sentences say; {} is the fallback answer, which is sent in place of no text.
Prose == answer \ {"blank"}

Response ==
    LET known == result[RULE] = "order"
    IN  [answer |-> Prose,
         sla |-> IF known THEN verdict.sla ELSE "N/A",
         actions |-> IF known THEN verdict.actions ELSE <<>>,
         error |-> FirstError,
         partial |-> FirstError # None,
         agents |-> AgentsInvoked]

-----------------------------------------------------------------------------
(* Properties *)

Verdicts == {Evaluate(o, AsOfDate(o, Today), hs) : o \in Orders, hs \in BOOLEAN}

ASSUME VerdictsAssumption == None \notin Verdicts

TypeOK ==
    /\ query \in Queries
    /\ at \in Nodes \cup {"END", "CRASHED"}
    /\ intent \in Intents \cup {None}
    /\ result \in [ResultNodes -> UNION {Results(n) : n \in ResultNodes}]
    /\ \A n \in ResultNodes : result[n] \in Results(n)
    /\ verdict \in Verdicts \cup {None}
    /\ result[RULE] = "order" => verdict # None
    /\ retry \in [Nodes -> 0..(MaxRetriesPerNode + 1)]
    /\ answer \subseteq {"order", "rows", "blank", "shipment", "cause", "sla", "escalated", "policy"}
    /\ error \in ErrorNames \cup {None}
    /\ trace \in Seq(Nodes)
    /\ resent \in [Nodes -> Nat]
    /\ kbAsked \in {"query", "cause", None}

\* A run never comes back to a node, whatever fails in it: the routing makes progress even
\* when a branch has only an error to record, so a run has at most one step per node.
NoNodeTwice == \A i, j \in DOMAIN trace : trace[i] = trace[j] => i = j

\* When the Business Rule Agent is reached every branch the intent needs has a result, and no
\* other branch ran.
ExactlyRequired ==
    at = RULE => {n \in {KB, SQL, API} : result[n] # "none"} = RequiredNodes(intent)

\* A source that could not be reached is never silently dropped
\* (docs/02_technical_requirements.md section 3.4): the response says it is partial.
FailureIsPartial ==
    at = "END" /\ (\E n \in ResultNodes : result[n] = "error") => Response.partial

\* The fallback answer is sent as a complete one only when the database gave rows and the model
\* phrased them as nothing (ai/graph/nodes.py:314); in every other run without an answer the
\* response is partial and says why.
FallbackIsPartial ==
    at = "END" /\ Response.answer = {} => Response.partial \/ result[SQL] = "rows"

\* "A fully successful run has both False/None" (ai_service/response_mapper.py:96-97): a run that
\* answers and of which no source reports an error is not called partial.
SuccessIsWhole ==
    /\ at = "END" /\ Response.answer # {}
    /\ \A n \in ResultNodes : ~HasError(result[n])
    => ~Response.partial

\* Whatever fails, the answer says what it lacks, a failed source or everything but rows that
\* were phrased as nothing, and it says so only then.
ShortfallIsTold == FailureIsPartial /\ FallbackIsPartial /\ SuccessIsWhole

\* What the audit log gets as agents_invoked, from a fixed table of result fields, is what the
\* graph executed, in the order it did, when classification succeeded.
AgentsAreTrace == at = "END" /\ intent # None => Response.agents = trace

\* The knowledge base is searched by the shipment's delay reason whenever the run knows one:
\* the answer never cites sources found for the raw question beside a known cause.
CauseAsked == result[API] \in Cause /\ kbAsked # None => kbAsked = "cause"

\* The routing asks every source that the intent needs, once, no other one, and the knowledge
\* base after the source that knows the cause (ai/graph/routing.py).
SourcesInTurn == NoNodeTwice /\ ExactlyRequired /\ CauseAsked

\* SQL generation and execution share one budget: the text_to_sql_agent, like every node but
\* api_status_agent, sends at most MaxRetriesPerNode calls again, whichever of them fail.
SharedRetryBudget == \A n \in Nodes \ {API} : resent[n] <= MaxRetriesPerNode

\* Together: a run asks the sources of its intent in turn, says in the audit which it asked, and
\* retries each within its budget (ai/graph/routing.py, nodes.py, response_mapper.py).
RunIsAccountable == SourcesInTurn /\ AgentsAreTrace /\ SharedRetryBudget

=============================================================================
