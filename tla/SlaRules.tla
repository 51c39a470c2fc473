------------------------------ MODULE SlaRules ------------------------------
(***************************************************************************)
(* The deterministic rule engine of the Business Rule Agent                *)
(* (ai/agents/business_rule_agent/rules.py): SLA status, severity,         *)
(* escalation role and corrective actions of one order.  Dates are day     *)
(* numbers; an absent value is None.                                       *)
(***************************************************************************)
EXTENDS Integers

CONSTANT None   \* Python's None

TierRules ==
    [STANDARD |-> [max |-> 3, role |-> "LogisticsCoordinator"],
     GOLD     |-> [max |-> 5, role |-> "LogisticsManager"],
     PLATINUM |-> [max |-> 7, role |-> "RegionalOperationsDirector"]]

Tiers == DOMAIN TierRules
Roles == {TierRules[t].role : t \in Tiers}

ASSUME NoneAssumption == None \notin Int \cup Tiers \cup Roles

NonDispatched == {"Pending", "Cancelled"}
SlaStatuses == {"N/A", "OnTime", "AtRisk", "Breached"}

MaxDelayDays(tier) == IF tier \in Tiers THEN TierRules[tier].max ELSE None

-----------------------------------------------------------------------------

\* Fault: a delay before the promised date counts as a negative number of days.
UnclampedDelayDays(promised, asOf) == asOf - promised

ComputeDelayDays(promised, asOf) ==
    IF asOf > promised THEN asOf - promised ELSE 0

\* Fault: the last tolerated day already counts as a breach.
EagerSlaStatus(days, max, status) ==
    IF status \in NonDispatched \/ days = None \/ max = None THEN "N/A"
    ELSE IF days >= max THEN "Breached"
    ELSE IF days > 0 THEN "AtRisk"
    ELSE "OnTime"

SlaStatus(days, max, status) ==
    IF status \in NonDispatched \/ days = None \/ max = None THEN "N/A"
    ELSE IF days > max THEN "Breached"
    ELSE IF days > 0 THEN "AtRisk"
    ELSE "OnTime"

\* Fault: the half-way test is the wrong way round.
InvertedSeverity(sla, days, max, tier) ==
    CASE sla = "N/A" -> "N/A"
      [] sla = "OnTime" -> "Low"
      [] sla = "Breached" -> IF tier = "PLATINUM" THEN "Critical" ELSE "High"
      [] OTHER -> IF 2 * days < max THEN "Medium" ELSE "Low"

Severity(sla, days, max, tier) ==
    CASE sla = "N/A" -> "N/A"
      [] sla = "OnTime" -> "Low"
      [] sla = "Breached" -> IF tier = "PLATINUM" THEN "Critical" ELSE "High"
      [] OTHER -> IF 2 * days > max THEN "Medium" ELSE "Low"

\* Fault: critical cases are forgotten.
EscalationRoleHighOnly(severity, tier) ==
    CASE severity = "Medium" -> "LogisticsCoordinator"
      [] severity = "High" /\ tier \in Tiers -> TierRules[tier].role
      [] OTHER -> None

EscalationRole(severity, tier) ==
    CASE severity = "Medium" -> "LogisticsCoordinator"
      [] severity \in {"High", "Critical"} /\ tier \in Tiers -> TierRules[tier].role
      [] OTHER -> None

\* The ordered action list, each action named by what it asks for; hsCode says that the
\* shipment is in Customs Hold for an HS code.
CorrectiveActions(sla, severity, hsCode) ==
    CASE sla = "AtRisk" /\ severity = "Medium" -> <<"escalate">>
      [] sla = "Breached" /\ hsCode -> <<"verifyHsCode", "resendInvoice", "escalate", "notify">>
      [] sla = "Breached" /\ ~hsCode -> <<"rootCause", "escalate", "notify">>
      [] OTHER -> <<>>

\* evaluate(): order is [tier, status, promised, ...], asOf the day the delay is counted to.
Evaluate(order, asOf, hsCode) ==
    LET days == IF order.status \in NonDispatched \/ order.promised = None THEN None
                ELSE ComputeDelayDays(order.promised, asOf)
        max  == MaxDelayDays(order.tier)
        sla  == SlaStatus(days, max, order.status)
        sev  == Severity(sla, days, max, order.tier)
    IN  [sla |-> sla, days |-> days, severity |-> sev,
         role |-> EscalationRole(sev, order.tier),
         actions |-> CorrectiveActions(sla, sev, hsCode)]

\* business_rule_agent_node counts to the revised date once there is one.
AsOfDate(order, today) == IF order.revised # None THEN order.revised ELSE today

\* How bad a status or a severity is.
SlaRank == [s \in SlaStatuses |-> CASE s = "N/A" -> 0 [] s = "OnTime" -> 1
                                    [] s = "AtRisk" -> 2 [] s = "Breached" -> 3]
SeverityRank == [s \in {"N/A", "Low", "Medium", "High", "Critical"} |->
                   CASE s = "N/A" -> 0 [] s = "Low" -> 1 [] s = "Medium" -> 2
                     [] s = "High" -> 3 [] s = "Critical" -> 4]
=============================================================================
