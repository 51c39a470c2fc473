------------------------------ MODULE SlaClock ------------------------------
(***************************************************************************)
(* One order ages while its data changes in the system of record, and the  *)
(* Business Rule Agent is asked about it on any day.  The order's own life *)
(* (an external ERP writes it; the statuses are those of the seed data)    *)
(* is the environment; what the agent says is SlaRules!Evaluate of what    *)
(* get_order returns that day.  ClockInit, ClockNext, ... carry the        *)
(* module's name, so that AiServiceProofs can extend CopilotGraph too.     *)
(***************************************************************************)
EXTENDS SlaRules

CONSTANTS LastDay,         \* bound on the days that pass
          KnownTiers,      \* tiers a customer may have (or none: the column is nullable)
          PromisedDays     \* days the order may be promised for

ASSUME ClockAssumption ==
    LastDay \in Nat /\ KnownTiers \subseteq Tiers /\ PromisedDays \subseteq Int

VARIABLES today, order, deliveredOn
clockVars == <<today, order, deliveredOn>>

Days == 0..LastDay
\* "In Transit" is treated as "Dispatched" is.
Status == {"Pending", "Dispatched", "Delayed", "Delivered", "Cancelled"}
Order == [tier : KnownTiers \cup {None}, status : Status, promised : PromisedDays,
          revised : Days \cup {None}]

ClockInit ==
    /\ today = 0
    /\ order \in {o \in Order : o.status = "Pending" /\ o.revised = None}
    /\ deliveredOn = None

\* The day changes; nothing is written to the order.
NextDay ==
    /\ today < LastDay
    /\ today' = today + 1
    /\ UNCHANGED <<order, deliveredOn>>

Move(from, to) ==
    /\ order.status \in from
    /\ order' = [order EXCEPT !.status = to]
    /\ UNCHANGED <<today, deliveredOn>>

Dispatch == Move({"Pending"}, "Dispatched")
Delay == Move({"Dispatched"}, "Delayed")
Cancel == Move({"Pending", "Dispatched", "Delayed"}, "Cancelled")

Deliver ==
    /\ order.status \in {"Dispatched", "Delayed"}
    /\ order' = [order EXCEPT !.status = "Delivered"]
    /\ deliveredOn' = today
    /\ UNCHANGED today

\* A cause-specific SOP sets a new estimate, not earlier than the day it is set.
Revise ==
    /\ order.status \in {"Dispatched", "Delayed"}
    /\ \E d \in today..LastDay : order' = [order EXCEPT !.revised = d]
    /\ UNCHANGED <<today, deliveredOn>>

ClockNext == NextDay \/ Dispatch \/ Delay \/ Cancel \/ Deliver \/ Revise

ClockSpec == ClockInit /\ [][ClockNext]_clockVars

-----------------------------------------------------------------------------
(* Properties.  The agent is asked about the order in every state. *)

\* Whether the delay is a Customs Hold for an HS code changes the action list only.
Answer == Evaluate(order, AsOfDate(order, today), FALSE)

\* The state is what the database may hold, and the answer is what the wire contract
\* (ai/contracts.py, CoPilotResponse) admits: a delay is never negative.
ClockTypeOK ==
    /\ today \in Days
    /\ order \in Order
    /\ deliveredOn \in Days \cup {None}
    /\ Answer.sla \in SlaStatuses
    /\ Answer.days \in Nat \cup {None}
    /\ Answer.role \in Roles \cup {None}

\* The breach formula of docs/06_backend_schema.md section 6 (a CASE over
\* CURRENT_DATE - promised_delivery_date) is what the agent answers for every
\* dispatched order without a revised date, on the boundary days too.
SchemaFormula ==
    LET d == today - order.promised
        m == TierRules[order.tier].max
    IN  IF d > m THEN "Breached" ELSE IF d > 0 THEN "AtRisk" ELSE "OnTime"

AnswersSchemaFormula ==
    order.status \notin NonDispatched /\ order.revised = None /\ order.tier # None =>
        /\ Answer.sla = SchemaFormula
        /\ (Answer.sla = "OnTime" <=> Answer.days = 0)

\* Somebody is responsible exactly when the matrix asks for an escalation, and the
\* actions that are recommended then include the escalation to them.
EscalationHasOwner ==
    /\ SeverityRank[Answer.severity] >= 2 <=> Answer.role # None
    /\ Answer.role # None <=> \E i \in DOMAIN Answer.actions : Answer.actions[i] = "escalate"

\* Every verdict agrees with the schema, and a severe one has somebody to act on it
\* (business_rule_agent/rules.py, evaluate).
VerdictIsSound == AnswersSchemaFormula /\ EscalationHasOwner

\* While only time passes a case is never downgraded, neither in SLA status nor in severity.
OnlyWorsens ==
    [][order' = order =>
          /\ SlaRank[Answer'.sla] >= SlaRank[Answer.sla]
          /\ SeverityRank[Answer'.severity] >= SeverityRank[Answer.severity]]_clockVars

\* ai/knowledge_base/01_sla_policy.md:89: "On Time - order has not passed
\* promised_delivery_date, or has already delivered on or before it."
DeliveredInTimeIsOnTime ==
    order.revised = None /\ order.tier # None /\ deliveredOn # None /\ deliveredOn <= order.promised
        => Answer.sla = "OnTime"
=============================================================================
