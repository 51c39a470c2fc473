-------------------------- MODULE AiServiceProofs --------------------------
(***************************************************************************)
(* Proofs about the AI service: the rule engine on the days of an order    *)
(* (SlaClock), the graph that runs a query (CopilotGraph) and the client   *)
(* its tool calls go through (McpClient).                                  *)
(*                                                                         *)
(* SlaClock: what is said of an order holds on every day, for every        *)
(* promised day and every set of tiers, and not on the sampled days alone. *)
(*                                                                         *)
(* CopilotGraph: whatever is asked, whatever fails, however often calls    *)
(* are retried and whatever the orders are, a run follows the route of its *)
(* intent.  RouteInv says it: the nodes that have run when a node is       *)
(* reached, and the result fields that are set, are determined by the      *)
(* intent and that node.                                                   *)
(*                                                                         *)
(* McpClient: a connection that is not the current one has failed, and a   *)
(* failed one never becomes usable again, because its handshake is over    *)
(* (McpInv); so there is one usable connection, and a call that fails      *)
(* closes the one it was made over.                                        *)
(*                                                                         *)
(* The specifications of SlaClock and McpClient have prefixed names, so    *)
(* that one module can extend all three.                                   *)
(***************************************************************************)
EXTENDS SlaClock, CopilotGraph, McpClient, SequenceTheorems, TLAPS

\* Every order that the database may hold, on any day.
Rows == [tier : Tiers \cup {None}, status : Status, promised : Int, revised : Int \cup {None}]

LEMMA TiersAre ==
    /\ Tiers = {"STANDARD", "GOLD", "PLATINUM"}
    /\ TierRules["STANDARD"] = [max |-> 3, role |-> "LogisticsCoordinator"]
    /\ TierRules["GOLD"] = [max |-> 5, role |-> "LogisticsManager"]
    /\ TierRules["PLATINUM"] = [max |-> 7, role |-> "RegionalOperationsDirector"]
    /\ Roles = {"LogisticsCoordinator", "LogisticsManager", "RegionalOperationsDirector"}
<1>1. Tiers = {"STANDARD", "GOLD", "PLATINUM"}
  BY DEF Tiers, TierRules
<1>2. /\ TierRules["STANDARD"] = [max |-> 3, role |-> "LogisticsCoordinator"]
      /\ TierRules["GOLD"] = [max |-> 5, role |-> "LogisticsManager"]
      /\ TierRules["PLATINUM"] = [max |-> 7, role |-> "RegionalOperationsDirector"]
  BY DEF TierRules
<1>3. /\ TierRules["STANDARD"].role = "LogisticsCoordinator"
      /\ TierRules["GOLD"].role = "LogisticsManager"
      /\ TierRules["PLATINUM"].role = "RegionalOperationsDirector"
  BY DEF TierRules
<1>4. Roles = {"LogisticsCoordinator", "LogisticsManager", "RegionalOperationsDirector"}
  BY <1>1, <1>3 DEF Roles
<1> QED BY <1>1, <1>2, <1>4

\* None is no day, no tier and no role.
LEMMA NoneIsNothing ==
    /\ None \notin Int /\ None \notin Tiers
    /\ None # "LogisticsCoordinator" /\ None # "LogisticsManager"
    /\ None # "RegionalOperationsDirector"
  BY NoneAssumption, TiersAre

-----------------------------------------------------------------------------
(* The rule engine, step by step *)

\* The delay of an order, and the threshold it is compared with.
DaysOf(o, asOf) == IF o.status \in NonDispatched THEN None ELSE ComputeDelayDays(o.promised, asOf)
SlaOf(o, asOf) == SlaStatus(DaysOf(o, asOf), MaxDelayDays(o.tier), o.status)

LEMMA DelayIsNatural ==
    ASSUME NEW o \in Rows, NEW asOf \in Int
    PROVE  /\ DaysOf(o, asOf) \in Nat \cup {None}
           /\ DaysOf(o, asOf) = None <=> o.status \in NonDispatched
           /\ o.status \notin NonDispatched =>
                DaysOf(o, asOf) = IF asOf > o.promised THEN asOf - o.promised ELSE 0
<1>1. CASE o.status \in NonDispatched
  BY <1>1, NoneIsNothing DEF DaysOf
<1>2. CASE o.status \notin NonDispatched
  <2>1. o.promised \in Int
    BY DEF Rows
  <2>2. DaysOf(o, asOf) = IF asOf > o.promised THEN asOf - o.promised ELSE 0
    BY <1>2 DEF DaysOf, ComputeDelayDays
  <2>3. DaysOf(o, asOf) \in Nat
    BY <2>1, <2>2
  <2>4. DaysOf(o, asOf) # None
    <3>1. DaysOf(o, asOf) \in Int
      BY <2>1, <2>2
    <3> QED BY <3>1, NoneIsNothing, Zenon
  <2> QED BY <1>2, <2>2, <2>3, <2>4
<1> QED BY <1>1, <1>2

LEMMA ThresholdIs ==
    ASSUME NEW o \in Rows
    PROVE  /\ o.tier \in Tiers => MaxDelayDays(o.tier) \in {3, 5, 7}
           /\ o.tier \in Tiers => MaxDelayDays(o.tier) = TierRules[o.tier].max
           /\ o.tier \notin Tiers => MaxDelayDays(o.tier) = None
<1>1. CASE o.tier \in Tiers
  <2>1. MaxDelayDays(o.tier) = TierRules[o.tier].max
    BY <1>1 DEF MaxDelayDays
  <2>2. /\ TierRules["STANDARD"].max = 3 /\ TierRules["GOLD"].max = 5
        /\ TierRules["PLATINUM"].max = 7
    BY DEF TierRules
  <2> QED BY <1>1, <2>1, <2>2, TiersAre
<1>2. CASE o.tier \notin Tiers
  BY <1>2 DEF MaxDelayDays
<1> QED BY <1>1, <1>2

LEMMA EvaluateIs ==
    ASSUME NEW o \in Rows, NEW asOf \in Int, NEW hs \in BOOLEAN
    PROVE  LET e == Evaluate(o, asOf, hs)
               sev == Severity(SlaOf(o, asOf), DaysOf(o, asOf), MaxDelayDays(o.tier), o.tier)
           IN  /\ e.days = DaysOf(o, asOf)
               /\ e.sla = SlaOf(o, asOf)
               /\ e.severity = sev
               /\ e.role = EscalationRole(sev, o.tier)
               /\ e.actions = CorrectiveActions(e.sla, sev, hs)
<1>1. o.promised # None
  BY NoneIsNothing DEF Rows
<1> QED BY <1>1 DEF Evaluate, SlaOf, DaysOf

\* The matrix of status, severity, role and actions, for a delay of d days over m tolerated.
Row(s, tier, d, m, hs) ==
    \/ /\ d = 0
       /\ s.sla = "OnTime" /\ s.severity = "Low" /\ s.role = None /\ s.actions = <<>>
    \/ /\ d > 0 /\ d <= m /\ 2 * d <= m
       /\ s.sla = "AtRisk" /\ s.severity = "Low" /\ s.role = None /\ s.actions = <<>>
    \/ /\ d > 0 /\ d <= m /\ 2 * d > m
       /\ s.sla = "AtRisk" /\ s.severity = "Medium" /\ s.role = "LogisticsCoordinator"
       /\ s.actions = <<"escalate">>
    \/ /\ d > m
       /\ s.sla = "Breached" /\ s.severity = (IF tier = "PLATINUM" THEN "Critical" ELSE "High")
       /\ s.role = TierRules[tier].role
       /\ s.actions = (IF hs THEN <<"verifyHsCode", "resendInvoice", "escalate", "notify">>
                              ELSE <<"rootCause", "escalate", "notify">>)

LEMMA SlaStatusIs ==
    ASSUME NEW d \in Nat, NEW m \in Nat, d # None, m # None,
           NEW status, status \notin NonDispatched
    PROVE  /\ d = 0 => SlaStatus(d, m, status) = "OnTime"
           /\ d > 0 /\ d <= m => SlaStatus(d, m, status) = "AtRisk"
           /\ d > m => SlaStatus(d, m, status) = "Breached"
  BY DEF SlaStatus

LEMMA RoleIs ==
    ASSUME NEW tier
    PROVE  /\ EscalationRole("N/A", tier) = None /\ EscalationRole("Low", tier) = None
           /\ EscalationRole("Medium", tier) = "LogisticsCoordinator"
           /\ tier \in Tiers => /\ EscalationRole("High", tier) = TierRules[tier].role
                               /\ EscalationRole("Critical", tier) = TierRules[tier].role
  BY DEF EscalationRole

LEMMA ActionsAre ==
    ASSUME NEW sev, NEW hs \in BOOLEAN
    PROVE  /\ CorrectiveActions("N/A", sev, hs) = <<>> /\ CorrectiveActions("OnTime", sev, hs) = <<>>
           /\ CorrectiveActions("AtRisk", "Low", hs) = <<>>
           /\ CorrectiveActions("AtRisk", "Medium", hs) = <<"escalate">>
           /\ CorrectiveActions("Breached", sev, TRUE) =
                 <<"verifyHsCode", "resendInvoice", "escalate", "notify">>
           /\ CorrectiveActions("Breached", sev, FALSE) = <<"rootCause", "escalate", "notify">>
  BY DEF CorrectiveActions

\* What is said of an order that may be late, with a delay of d days over m tolerated.
Said(status, tier, d, m, hs) ==
    LET sla == SlaStatus(d, m, status)
        sev == Severity(sla, d, m, tier)
    IN  [sla |-> sla, severity |-> sev, role |-> EscalationRole(sev, tier),
         actions |-> CorrectiveActions(sla, sev, hs)]

LEMMA MatrixIs ==
    ASSUME NEW d \in Nat, NEW m \in Nat, m > 0, NEW tier \in Tiers, NEW hs \in BOOLEAN,
           NEW status, status \notin NonDispatched
    PROVE  Row(Said(status, tier, d, m, hs), tier, d, m, hs)
<1> DEFINE s == Said(status, tier, d, m, hs)
<1>1. d # None /\ m # None
  <2>1. d \in Int /\ m \in Int
    OBVIOUS
  <2> QED BY <2>1, NoneIsNothing, Zenon
<1>2. CASE d = 0
  <2>1. SlaStatus(d, m, status) = "OnTime"
    BY <1>1, <1>2, SlaStatusIs
  <2>2. Severity(SlaStatus(d, m, status), d, m, tier) = "Low"
    BY <2>1 DEF Severity
  <2>3. s.sla = "OnTime" /\ s.severity = "Low" /\ s.role = None /\ s.actions = <<>>
    BY <2>1, <2>2, RoleIs, ActionsAre DEF Said
  <2> QED BY <1>2, <2>3 DEF Row
<1>3. CASE d > 0 /\ d <= m
  <2>1. SlaStatus(d, m, status) = "AtRisk"
    BY <1>1, <1>3, SlaStatusIs
  <2>2. CASE 2 * d > m
    <3>1. Severity(SlaStatus(d, m, status), d, m, tier) = "Medium"
      BY <2>1, <2>2 DEF Severity
    <3>2. /\ s.sla = "AtRisk" /\ s.severity = "Medium" /\ s.role = "LogisticsCoordinator"
          /\ s.actions = <<"escalate">>
      BY <2>1, <3>1, RoleIs, ActionsAre DEF Said
    <3> QED BY <1>3, <2>2, <3>2 DEF Row
  <2>3. CASE 2 * d <= m
    <3>0. ~(2 * d > m)
      BY <2>3
    <3>1. Severity(SlaStatus(d, m, status), d, m, tier) = "Low"
      BY <2>1, <3>0 DEF Severity
    <3>2. s.sla = "AtRisk" /\ s.severity = "Low" /\ s.role = None /\ s.actions = <<>>
      BY <2>1, <3>1, RoleIs, ActionsAre DEF Said
    <3> QED BY <1>3, <2>3, <3>2 DEF Row
  <2> QED BY <2>2, <2>3
<1>4. CASE d > m
  <2>1. SlaStatus(d, m, status) = "Breached"
    BY <1>1, <1>4, SlaStatusIs
  <2>2. Severity(SlaStatus(d, m, status), d, m, tier) = IF tier = "PLATINUM" THEN "Critical" ELSE "High"
    BY <2>1 DEF Severity
  <2>3. s.sla = "Breached" /\ s.severity = IF tier = "PLATINUM" THEN "Critical" ELSE "High"
    BY <2>1, <2>2 DEF Said
  <2>4. s.role = TierRules[tier].role
    BY <2>2, RoleIs DEF Said
  <2>5. s.actions = IF hs THEN <<"verifyHsCode", "resendInvoice", "escalate", "notify">>
                    ELSE <<"rootCause", "escalate", "notify">>
    BY <2>1, ActionsAre DEF Said
  <2> QED BY <1>4, <2>3, <2>4, <2>5 DEF Row
<1> QED BY <1>2, <1>3, <1>4

-----------------------------------------------------------------------------
(* What evaluate answers *)

NoVerdict(e) == e.sla = "N/A" /\ e.severity = "N/A" /\ e.role = None /\ e.actions = <<>>

\* No verdict, or a row of the matrix for the delay and the tier of the order.
LEMMA AnswerIs ==
    ASSUME NEW o \in Rows, NEW asOf \in Int, NEW hs \in BOOLEAN
    PROVE  /\ o.status \in NonDispatched \/ o.tier \notin Tiers => NoVerdict(Evaluate(o, asOf, hs))
           /\ o.status \notin NonDispatched /\ o.tier \in Tiers =>
                Row(Evaluate(o, asOf, hs), o.tier, DaysOf(o, asOf), TierRules[o.tier].max, hs)
<1> DEFINE d == DaysOf(o, asOf)
           m == MaxDelayDays(o.tier)
           e == Evaluate(o, asOf, hs)
<1>1. /\ e.sla = SlaStatus(d, m, o.status) /\ e.severity = Severity(e.sla, d, m, o.tier)
      /\ e.role = EscalationRole(e.severity, o.tier)
      /\ e.actions = CorrectiveActions(e.sla, e.severity, hs)
  BY EvaluateIs DEF SlaOf
<1>2. CASE o.status \in NonDispatched \/ o.tier \notin Tiers
  <2>1. SlaStatus(d, m, o.status) = "N/A"
    BY <1>2, ThresholdIs DEF SlaStatus
  <2>2. Severity(SlaStatus(d, m, o.status), d, m, o.tier) = "N/A"
    BY <2>1 DEF Severity
  <2>3. e.sla = "N/A" /\ e.severity = "N/A"
    BY <1>1, <2>1, <2>2
  <2> QED BY <1>1, <1>2, <2>3, RoleIs, ActionsAre DEF NoVerdict
<1>3. CASE o.status \notin NonDispatched /\ o.tier \in Tiers
  <2>1. d \in Nat
    BY <1>3, DelayIsNatural
  <2>2. m \in Nat /\ m > 0 /\ m = TierRules[o.tier].max
    BY <1>3, ThresholdIs
  <2>3. Row(Said(o.status, o.tier, d, m, hs), o.tier, d, m, hs)
    BY <1>3, <2>1, <2>2, MatrixIs
  <2>4. /\ e.sla = Said(o.status, o.tier, d, m, hs).sla
        /\ e.severity = Said(o.status, o.tier, d, m, hs).severity
        /\ e.role = Said(o.status, o.tier, d, m, hs).role
        /\ e.actions = Said(o.status, o.tier, d, m, hs).actions
    BY <1>1 DEF Said
  <2>5. Row(e, o.tier, d, m, hs)
    BY <2>3, <2>4 DEF Row
  <2> QED BY <1>3, <2>2, <2>5
<1> QED BY <1>2, <1>3

-----------------------------------------------------------------------------
(* Types *)

StateOK == today \in Days /\ order \in Order /\ deliveredOn \in Days \cup {None}

LEMMA OrdersAreRows == ASSUME StateOK PROVE order \in Rows /\ AsOfDate(order, today) \in Int
<1>1. /\ order \in [tier : KnownTiers \cup {None}, status : Status, promised : PromisedDays,
                    revised : Days \cup {None}]
      /\ today \in Days
  BY DEF StateOK, Order
<1>2. KnownTiers \subseteq Tiers /\ PromisedDays \subseteq Int /\ Days \subseteq Int
  BY ClockAssumption DEF Days
<1>3. order \in Rows
  BY <1>1, <1>2 DEF Rows
<1>4. AsOfDate(order, today) \in Int
  BY <1>1, <1>2 DEF AsOfDate
<1> QED BY <1>3, <1>4

LEMMA InitOK == ClockInit => StateOK
  BY ClockAssumption DEF ClockInit, StateOK, Days

LEMMA StepOK == StateOK /\ [ClockNext]_clockVars => StateOK'
<1> SUFFICES ASSUME StateOK, [ClockNext]_clockVars PROVE StateOK'
  OBVIOUS
<1> USE DEF StateOK
<1>0. today \in 0..LastDay /\ LastDay \in Nat
  BY ClockAssumption DEF Days
<1>1. CASE NextDay
  BY <1>0, <1>1 DEF NextDay, Days
<1>2. ASSUME NEW from, NEW to \in Status, Move(from, to) PROVE StateOK'
  BY <1>2 DEF Move, Order
<1>3. CASE Dispatch
  BY <1>2, <1>3 DEF Dispatch, Status
<1>4. CASE Delay
  BY <1>2, <1>4 DEF Delay, Status
<1>5. CASE Cancel
  BY <1>2, <1>5 DEF Cancel, Status
<1>6. CASE Deliver
  BY <1>6 DEF Deliver, Order, Status
<1>7. CASE Revise
  <2>1. PICK d \in today..LastDay : order' = [order EXCEPT !.revised = d]
    BY <1>7 DEF Revise
  <2>2. d \in Days
    BY <1>0, <2>1 DEF Days
  <2> QED BY <1>7, <2>1, <2>2 DEF Revise, Order
<1>8. CASE UNCHANGED clockVars
  BY <1>8 DEF clockVars
<1> QED BY <1>1, <1>3, <1>4, <1>5, <1>6, <1>7, <1>8 DEF ClockNext

LEMMA AlwaysOK == ClockSpec => []StateOK
  BY InitOK, StepOK, PTL DEF ClockSpec

LEMMA AnswerTyped ==
    ASSUME StateOK
    PROVE  /\ Answer.sla \in SlaStatuses
           /\ Answer.days \in Nat \cup {None}
           /\ Answer.role \in Roles \cup {None}
<1> DEFINE asOf == AsOfDate(order, today)
<1>1. order \in Rows /\ asOf \in Int
  BY OrdersAreRows
<1>2. Answer.days \in Nat \cup {None}
  BY <1>1, EvaluateIs, DelayIsNatural DEF Answer
<1>3. CASE order.status \in NonDispatched \/ order.tier \notin Tiers
  BY <1>1, <1>2, <1>3, AnswerIs DEF NoVerdict, Answer, SlaStatuses
<1>4. CASE order.status \notin NonDispatched /\ order.tier \in Tiers
  <2>1. Row(Answer, order.tier, DaysOf(order, asOf), TierRules[order.tier].max, FALSE)
    BY <1>1, <1>4, AnswerIs DEF Answer
  <2>2. TierRules[order.tier].role \in Roles /\ "LogisticsCoordinator" \in Roles
    BY <1>4, TiersAre DEF Roles
  <2> QED BY <1>2, <2>1, <2>2 DEF Row, SlaStatuses
<1> QED BY <1>3, <1>4

\* Every variable keeps its type, and every answer is one that the wire contract admits
\* (business_rule_agent/rules.py, evaluate).
THEOREM ClockTypeCorrect == ClockSpec => []ClockTypeOK
<1>1. StateOK => ClockTypeOK
  BY AnswerTyped DEF StateOK, ClockTypeOK
<1> QED BY <1>1, AlwaysOK, PTL

-----------------------------------------------------------------------------
(* Every verdict is sound *)

LEMMA FollowsSchema == ASSUME StateOK PROVE AnswersSchemaFormula
<1> SUFFICES ASSUME order.status \notin NonDispatched, order.revised = None, order.tier # None
             PROVE  Answer.sla = SchemaFormula /\ (Answer.sla = "OnTime" <=> Answer.days = 0)
  BY DEF AnswersSchemaFormula
<1> DEFINE d == DaysOf(order, today)
           m == TierRules[order.tier].max
<1>1. order \in Rows /\ AsOfDate(order, today) = today /\ today \in Int
  BY OrdersAreRows DEF AsOfDate
<1>2. order.tier \in Tiers /\ order.promised \in Int
  BY <1>1 DEF Rows
<1>3. d = IF today > order.promised THEN today - order.promised ELSE 0
  BY <1>1, DelayIsNatural
<1>4. Row(Answer, order.tier, d, m, FALSE) /\ Answer.days = d
  BY <1>1, <1>2, AnswerIs, EvaluateIs DEF Answer
<1>5. m \in {3, 5, 7}
  BY <1>1, <1>2, ThresholdIs
<1>6. SchemaFormula = IF today - order.promised > m THEN "Breached"
                      ELSE IF today - order.promised > 0 THEN "AtRisk" ELSE "OnTime"
  BY DEF SchemaFormula
<1> HIDE DEF d, m
<1>7. d \in Nat /\ (d > 0 <=> today - order.promised > 0)
                /\ (d > m <=> today - order.promised > m)
  BY <1>1, <1>2, <1>3, <1>5
<1>8. CASE d = 0
  <2>1. Answer.sla = "OnTime"
    BY <1>4, <1>5, <1>8 DEF Row
  <2> QED BY <1>4, <1>5, <1>6, <1>7, <1>8, <2>1
<1>9. CASE d > 0 /\ d <= m
  <2>1. Answer.sla = "AtRisk"
    <3>1. d # 0 /\ ~(d > m)
      BY <1>5, <1>7, <1>9
    <3> QED BY <1>4, <3>1 DEF Row
  <2> QED BY <1>4, <1>5, <1>6, <1>7, <1>9, <2>1
<1>10. CASE d > m
  <2>1. Answer.sla = "Breached"
    BY <1>4, <1>5, <1>7, <1>10 DEF Row
  <2> QED BY <1>4, <1>5, <1>6, <1>7, <1>10, <2>1
<1> QED BY <1>5, <1>7, <1>8, <1>9, <1>10

LEMMA RanksAre ==
    /\ SeverityRank["N/A"] = 0 /\ SeverityRank["Low"] = 1 /\ SeverityRank["Medium"] = 2
    /\ SeverityRank["High"] = 3 /\ SeverityRank["Critical"] = 4
    /\ SlaRank["N/A"] = 0 /\ SlaRank["OnTime"] = 1 /\ SlaRank["AtRisk"] = 2
    /\ SlaRank["Breached"] = 3
  BY DEF SeverityRank, SlaRank, SlaStatuses

LEMMA OwnerActs == ASSUME StateOK PROVE EscalationHasOwner
<1> DEFINE asOf == AsOfDate(order, today)
           escalates == \E i \in DOMAIN Answer.actions : Answer.actions[i] = "escalate"
<1>1. order \in Rows /\ asOf \in Int
  BY OrdersAreRows
<1>2. CASE order.status \in NonDispatched \/ order.tier \notin Tiers
  <2>1. Answer.severity = "N/A" /\ Answer.role = None /\ Answer.actions = <<>>
    BY <1>1, <1>2, AnswerIs DEF NoVerdict, Answer
  <2>2. ~escalates
    BY <2>1
  <2> QED BY <2>1, <2>2, RanksAre DEF EscalationHasOwner
<1>3. CASE order.status \notin NonDispatched /\ order.tier \in Tiers
  <2>1. Row(Answer, order.tier, DaysOf(order, asOf), TierRules[order.tier].max, FALSE)
    BY <1>1, <1>3, AnswerIs DEF Answer
  <2>2. CASE Answer.severity = "Low" /\ Answer.role = None /\ Answer.actions = <<>>
    <3>1. ~escalates
      BY <2>2
    <3> QED BY <2>2, <3>1, RanksAre DEF EscalationHasOwner
  <2>3. CASE /\ Answer.severity = "Medium" /\ Answer.role = "LogisticsCoordinator"
             /\ Answer.actions = <<"escalate">>
    <3>1. escalates
      BY <2>3
    <3>2. Answer.role # None
      BY <2>3, NoneIsNothing
    <3> QED BY <2>3, <3>1, <3>2, RanksAre DEF EscalationHasOwner
  <2>4. CASE /\ Answer.severity \in {"High", "Critical"}
             /\ Answer.role = TierRules[order.tier].role
             /\ Answer.actions = <<"rootCause", "escalate", "notify">>
    <3>1. escalates
      <4>1. 2 \in DOMAIN Answer.actions /\ Answer.actions[2] = "escalate"
        BY <2>4
      <4> QED BY <4>1
    <3>2. Answer.role # None
      BY <1>3, <2>4, NoneAssumption DEF Roles
    <3>3. SeverityRank[Answer.severity] >= 2
      BY <2>4, RanksAre
    <3> QED BY <3>1, <3>2, <3>3 DEF EscalationHasOwner
  <2> QED BY <2>1, <2>2, <2>3, <2>4 DEF Row
<1> QED BY <1>2, <1>3

\* On every day, whatever the promised days and the tiers, a verdict follows the formula of the
\* schema, and an escalation has somebody to act on it (business_rule_agent/rules.py).
THEOREM VerdictsAreSound == ClockSpec => []VerdictIsSound
<1>1. StateOK => VerdictIsSound
  BY FollowsSchema, OwnerActs DEF VerdictIsSound
<1> QED BY <1>1, AlwaysOK, PTL

-----------------------------------------------------------------------------
(* Time alone never improves a verdict *)

LEMMA RowsAreOrdered ==
    ASSUME NEW s, NEW t, NEW tier, NEW m \in Nat, NEW hs, m > 0,
           NEW d \in Nat, NEW e \in Nat, d <= e,
           Row(s, tier, d, m, hs), Row(t, tier, e, m, hs)
    PROVE  SlaRank[t.sla] >= SlaRank[s.sla] /\ SeverityRank[t.severity] >= SeverityRank[s.severity]
<1>1. CASE s.sla = "OnTime" /\ s.severity = "Low"
  BY <1>1, RanksAre DEF Row
<1>2. CASE s.sla = "AtRisk" /\ s.severity = "Low" /\ d > 0
  <2>1. t.sla \in {"AtRisk", "Breached"} /\ t.severity \in {"Low", "Medium", "High", "Critical"}
    BY <1>2 DEF Row
  <2> QED BY <1>2, <2>1, RanksAre
<1>3. CASE s.sla = "AtRisk" /\ s.severity = "Medium" /\ d > 0 /\ 2 * d > m
  <2>1. \/ t.sla = "AtRisk" /\ t.severity = "Medium"
        \/ t.sla = "Breached" /\ t.severity \in {"High", "Critical"}
    BY <1>3 DEF Row
  <2> QED BY <1>3, <2>1, RanksAre
<1>4. CASE s.sla = "Breached" /\ d > m
  <2>1. t.sla = "Breached" /\ t.severity = s.severity
    BY <1>4 DEF Row
  <2>2. s.severity \in {"High", "Critical"}
    BY <1>4 DEF Row
  <2> QED BY <1>4, <2>1, <2>2, RanksAre
<1> QED BY <1>1, <1>2, <1>3, <1>4 DEF Row

LEMMA WorsensWithDays ==
    ASSUME NEW o \in Rows, NEW a \in Int, NEW b \in Int, a <= b
    PROVE  /\ SlaRank[Evaluate(o, b, FALSE).sla] >= SlaRank[Evaluate(o, a, FALSE).sla]
           /\ SeverityRank[Evaluate(o, b, FALSE).severity]
                >= SeverityRank[Evaluate(o, a, FALSE).severity]
<1>1. CASE o.status \in NonDispatched \/ o.tier \notin Tiers
  <2>1. NoVerdict(Evaluate(o, a, FALSE)) /\ NoVerdict(Evaluate(o, b, FALSE))
    BY <1>1, AnswerIs
  <2>2. /\ SlaRank[Evaluate(o, a, FALSE).sla] = 0 /\ SlaRank[Evaluate(o, b, FALSE).sla] = 0
        /\ SeverityRank[Evaluate(o, a, FALSE).severity] = 0
        /\ SeverityRank[Evaluate(o, b, FALSE).severity] = 0
    BY <2>1, RanksAre, Zenon DEF NoVerdict
  <2> QED BY <2>2
<1>2. CASE o.status \notin NonDispatched /\ o.tier \in Tiers
  <2> DEFINE m == TierRules[o.tier].max
  <2>1. /\ Row(Evaluate(o, a, FALSE), o.tier, DaysOf(o, a), m, FALSE)
        /\ Row(Evaluate(o, b, FALSE), o.tier, DaysOf(o, b), m, FALSE)
    BY <1>2, AnswerIs
  <2>2. m \in Nat /\ m > 0
    BY <1>2, ThresholdIs
  <2>3. o.promised \in Int
    BY DEF Rows
  <2>4. /\ DaysOf(o, a) = IF a > o.promised THEN a - o.promised ELSE 0
        /\ DaysOf(o, b) = IF b > o.promised THEN b - o.promised ELSE 0
    BY <1>2, DelayIsNatural
  <2>5. DaysOf(o, a) \in Nat /\ DaysOf(o, b) \in Nat /\ DaysOf(o, a) <= DaysOf(o, b)
    BY <2>3, <2>4
  <2> DEFINE s == Evaluate(o, a, FALSE)
             t == Evaluate(o, b, FALSE)
             d == DaysOf(o, a)
             e == DaysOf(o, b)
  <2>6. Row(s, o.tier, d, m, FALSE) /\ Row(t, o.tier, e, m, FALSE) /\ d \in Nat /\ e \in Nat /\ d <= e
    BY <2>1, <2>5
  <2> HIDE DEF m, s, t, d, e
  <2>7. SlaRank[t.sla] >= SlaRank[s.sla] /\ SeverityRank[t.severity] >= SeverityRank[s.severity]
    BY <2>2, <2>6, RowsAreOrdered
  <2> QED BY <2>7 DEF s, t
<1> QED BY <1>1, <1>2

\* While an order is not written to, no later day answers it more mildly, in status or in
\* severity (compute_delay_days, sla_status and severity of business_rule_agent/rules.py).
THEOREM NeverImproves == ClockSpec => OnlyWorsens
<1> DEFINE A == order' = order =>
              /\ SlaRank[Answer'.sla] >= SlaRank[Answer.sla]
              /\ SeverityRank[Answer'.severity] >= SeverityRank[Answer.severity]
<1>1. ASSUME StateOK, [ClockNext]_clockVars PROVE A
  <2> SUFFICES ASSUME order' = order PROVE A
    OBVIOUS
  <2>1. today' \in {today, today + 1}
    BY <1>1 DEF ClockNext, NextDay, Dispatch, Delay, Cancel, Move, Deliver, Revise, clockVars
  <2>2. order \in Rows /\ AsOfDate(order, today) \in Int /\ today \in Int
    BY <1>1, OrdersAreRows DEF StateOK, Days
  <2>3. /\ AsOfDate(order, today') \in Int
        /\ AsOfDate(order, today) <= AsOfDate(order, today')
    BY <2>1, <2>2 DEF AsOfDate
  <2>4. Answer' = Evaluate(order, AsOfDate(order, today'), FALSE)
    BY DEF Answer
  <2> QED BY <2>2, <2>3, <2>4, WorsensWithDays DEF Answer
<1>2. ClockSpec => [][A]_clockVars
  BY <1>1, AlwaysOK, PTL DEF ClockSpec
<1> QED BY <1>2 DEF OnlyWorsens

-----------------------------------------------------------------------------
(* The graph: what its names and routes are *)

Simple == DOMAIN RoutingNode

\* The branch nodes that an intent needs, and those that ran before node n.
Needed(i) ==
    IF i = None THEN {}
    ELSE IF i = "delay_analysis" THEN {API, KB}
    ELSE IF i = "sla_check" THEN {API}
    ELSE {RoutingNode[i]}

LEMMA NamesAre ==
    /\ Simple = {"sop_lookup", "order_status", "inventory", "report", "shipment_status"}
    /\ Intents = Simple \cup {"sla_check", "delay_analysis"}
    /\ RoutingNode["sop_lookup"] = KB /\ RoutingNode["order_status"] = SQL
    /\ RoutingNode["inventory"] = SQL /\ RoutingNode["report"] = SQL
    /\ RoutingNode["shipment_status"] = API
    /\ None \notin Intents /\ None \notin ErrorNames /\ None # "query" /\ None # "cause"
  BY NamesAssumption DEF Simple, Intents, MultiTool, RoutingNode

LEMMA StepsAre ==
    /\ \A i \in Simple : RequiredSteps(i) = {1} /\ SubIntents(i)[1] = i
    /\ RequiredSteps("sla_check") = {2} /\ SubIntents("sla_check")[2] = "shipment_status"
    /\ RequiredSteps("delay_analysis") = {2, 3}
    /\ SubIntents("delay_analysis")[2] = "shipment_status"
    /\ SubIntents("delay_analysis")[3] = "sop_lookup"
    /\ RequiredSteps(None) = {}
<1>1. ASSUME NEW i \in Simple PROVE RequiredSteps(i) = {1} /\ SubIntents(i)[1] = i
  <2>1. i \in Intents /\ i \notin MultiTool
    BY NamesAre DEF MultiTool
  <2>2. SubIntents(i) = <<i>>
    BY NamesAre DEF SubIntents
  <2> QED BY <2>1, <2>2 DEF RequiredSteps
<1>2. SubIntents("sla_check") = <<"order_status", "shipment_status">>
  BY DEF SubIntents
<1>3. RequiredSteps("sla_check") = {2}
  BY <1>2, NamesAre DEF RequiredSteps, MultiTool
<1>4. SubIntents("delay_analysis") = <<"order_status", "shipment_status", "sop_lookup">>
  BY DEF SubIntents
<1>5. RequiredSteps("delay_analysis") = {2, 3}
  BY <1>4, NamesAre DEF RequiredSteps, MultiTool
<1>6. RequiredSteps(None) = {}
  BY NamesAre DEF RequiredSteps
<1> QED BY <1>1, <1>2, <1>3, <1>4, <1>5, <1>6

LEMMA NeededAre ==
    ASSUME NEW i \in Intents
    PROVE  RequiredNodes(i) = Needed(i)
<1>1. i # None
  BY NamesAre
<1>2. CASE i \in Simple
  <2>1. RequiredNodes(i) = {RoutingNode[i]}
    BY <1>2, StepsAre DEF RequiredNodes
  <2>2. i # "delay_analysis" /\ i # "sla_check"
    BY <1>2, NamesAre
  <2> QED BY <1>1, <2>1, <2>2 DEF Needed
<1>3. CASE i = "sla_check"
  BY <1>1, <1>3, StepsAre, NamesAre DEF RequiredNodes, Needed
<1>4. CASE i = "delay_analysis"
  BY <1>1, <1>4, StepsAre, NamesAre DEF RequiredNodes, Needed
<1> QED BY <1>2, <1>3, <1>4, NamesAre

\* next_pending_node, intent by intent.
LEMMA NextIs ==
    ASSUME NEW res
    PROVE  /\ \A i \in Simple : NextPendingNode(i, res) =
                IF res[RoutingNode[i]] = "none" THEN RoutingNode[i] ELSE RULE
           /\ NextPendingNode("sla_check", res) = IF res[API] = "none" THEN API ELSE RULE
           /\ NextPendingNode("delay_analysis", res) =
                IF res[API] = "none" THEN API ELSE IF res[KB] = "none" THEN KB ELSE RULE
           /\ NextPendingNode(None, res) = ERR
<1>1. ASSUME NEW i \in Simple
      PROVE  NextPendingNode(i, res) = IF res[RoutingNode[i]] = "none" THEN RoutingNode[i] ELSE RULE
  <2>1. RequiredSteps(i) = {1} /\ SubIntents(i)[1] = i
    BY StepsAre
  <2>2. CASE res[RoutingNode[i]] = "none"
    <3>1. {k \in RequiredSteps(i) : res[RoutingNode[SubIntents(i)[k]]] = "none"} = {1}
      BY <2>1, <2>2
    <3>2. (CHOOSE k \in {1} : \A j \in {1} : k <= j) = 1
      OBVIOUS
    <3> QED BY <2>1, <2>2, <3>1, <3>2 DEF NextPendingNode
  <2>3. CASE res[RoutingNode[i]] # "none"
    <3>1. {k \in RequiredSteps(i) : res[RoutingNode[SubIntents(i)[k]]] = "none"} = {}
      BY <2>1, <2>3
    <3> QED BY <2>1, <2>3, <3>1 DEF NextPendingNode
  <2> QED BY <2>2, <2>3
<1>2. NextPendingNode("sla_check", res) = IF res[API] = "none" THEN API ELSE RULE
  <2> DEFINE i == "sla_check"
  <2>1. RequiredSteps(i) = {2} /\ RoutingNode[SubIntents(i)[2]] = API
    BY StepsAre, NamesAre
  <2>2. CASE res[API] = "none"
    <3>1. {k \in RequiredSteps(i) : res[RoutingNode[SubIntents(i)[k]]] = "none"} = {2}
      BY <2>1, <2>2
    <3>2. (CHOOSE k \in {2} : \A j \in {2} : k <= j) = 2
      OBVIOUS
    <3> QED BY <2>1, <2>2, <3>1, <3>2 DEF NextPendingNode
  <2>3. CASE res[API] # "none"
    <3>1. {k \in RequiredSteps(i) : res[RoutingNode[SubIntents(i)[k]]] = "none"} = {}
      BY <2>1, <2>3
    <3> QED BY <2>1, <2>3, <3>1 DEF NextPendingNode
  <2> QED BY <2>2, <2>3
<1>3. NextPendingNode("delay_analysis", res) =
        IF res[API] = "none" THEN API ELSE IF res[KB] = "none" THEN KB ELSE RULE
  <2> DEFINE i == "delay_analysis"
             pending == {k \in RequiredSteps(i) : res[RoutingNode[SubIntents(i)[k]]] = "none"}
  <2>1. /\ RequiredSteps(i) = {2, 3}
        /\ RoutingNode[SubIntents(i)[2]] = API /\ RoutingNode[SubIntents(i)[3]] = KB
    BY StepsAre, NamesAre
  <2>2. CASE res[API] = "none"
    <3>1. 2 \in pending /\ pending \subseteq {2, 3}
      BY <2>1, <2>2
    <3> HIDE DEF pending
    <3>2. (CHOOSE k \in pending : \A j \in pending : k <= j) = 2
      <4>1. pending = {2} \/ pending = {2, 3}
        BY <3>1
      <4>2. (CHOOSE k \in {2} : \A j \in {2} : k <= j) = 2
        OBVIOUS
      <4>3. (CHOOSE k \in {2, 3} : \A j \in {2, 3} : k <= j) = 2
        OBVIOUS
      <4> QED BY <4>1, <4>2, <4>3
    <3> QED BY <2>1, <2>2, <3>1, <3>2 DEF NextPendingNode, pending
  <2>3. CASE res[API] # "none" /\ res[KB] = "none"
    <3>1. pending = {3}
      BY <2>1, <2>3
    <3>2. (CHOOSE k \in {3} : \A j \in {3} : k <= j) = 3
      OBVIOUS
    <3> QED BY <2>1, <2>3, <3>1, <3>2 DEF NextPendingNode
  <2>4. CASE res[API] # "none" /\ res[KB] # "none"
    <3>1. pending = {}
      BY <2>1, <2>4
    <3> QED BY <2>1, <2>4, <3>1 DEF NextPendingNode
  <2> QED BY <2>2, <2>3, <2>4
<1>4. NextPendingNode(None, res) = ERR
  BY StepsAre DEF NextPendingNode
<1> QED BY <1>1, <1>2, <1>3, <1>4

-----------------------------------------------------------------------------
(* call_with_retry *)

LEMMA CallIs ==
    ASSUME NEW before \in 0..MaxRetriesPerNode, NEW failures, NEW call \in CallWithRetry(before, failures)
    PROVE  /\ call.attempts \in 0..(MaxRetriesPerNode + 1)
           /\ Resends(before, call) \in Nat
           /\ before + Resends(before, call) <= MaxRetriesPerNode
           /\ call.ok => /\ call.attempts = before + Resends(before, call)
                         /\ call.attempts \in 0..MaxRetriesPerNode
<1> MaxRetriesPerNode \in Nat
  BY RetriesAssumption
<1>1. CASE call \in {[ok |-> TRUE, attempts |-> n] : n \in before..MaxRetriesPerNode}
  <2>1. PICK n \in before..MaxRetriesPerNode : call = [ok |-> TRUE, attempts |-> n]
    BY <1>1
  <2>2. call.ok /\ call.attempts = n
    BY <2>1
  <2> QED BY <2>2 DEF Resends
<1>2. CASE call \in {[ok |-> FALSE, attempts |-> n + 1] :
                       n \in IF "permanent" \in failures THEN before..MaxRetriesPerNode
                             ELSE {MaxRetriesPerNode}}
  <2>1. PICK n \in before..MaxRetriesPerNode : call = [ok |-> FALSE, attempts |-> n + 1]
    BY <1>2
  <2>2. ~call.ok /\ call.attempts = n + 1
    BY <2>1
  <2> QED BY <2>2 DEF Resends
<1> QED BY <1>1, <1>2 DEF CallWithRetry

-----------------------------------------------------------------------------
(* The route of a run *)

\* What has run when node n is reached, with intent i.
Before(i, n) ==
    CASE n = Supervisor -> <<>>
      [] n \in {SQL, API, ERR} -> <<Supervisor>>
      [] n = KB -> IF i = "delay_analysis" THEN <<Supervisor, API>> ELSE <<Supervisor>>
      [] n = RULE -> IF i = None THEN <<>>
                     ELSE IF i = "delay_analysis" THEN <<Supervisor, API, KB>>
                     ELSE IF i = "sla_check" THEN <<Supervisor, API>>
                     ELSE <<Supervisor, RoutingNode[i]>>
      [] n = FINAL -> IF i = None THEN <<Supervisor, ERR>>
                      ELSE IF i = "delay_analysis" THEN <<Supervisor, API, KB, RULE>>
                      ELSE IF i = "sla_check" THEN <<Supervisor, API, RULE>>
                      ELSE <<Supervisor, RoutingNode[i], RULE>>
      [] n = "END" -> IF i = None THEN <<Supervisor, ERR, FINAL>>
                      ELSE IF i = "delay_analysis" THEN <<Supervisor, API, KB, RULE, FINAL>>
                      ELSE IF i = "sla_check" THEN <<Supervisor, API, RULE, FINAL>>
                      ELSE <<Supervisor, RoutingNode[i], RULE, FINAL>>

\* The result fields that are set when node n is reached.
Filled(i, n) ==
    IF i = None \/ n \in {Supervisor, SQL, API, ERR} THEN {}
    ELSE IF n = KB THEN Needed(i) \ {KB}
    ELSE IF n = RULE THEN Needed(i)
    ELSE Needed(i) \cup {RULE}

\* The run is on the route of its intent, and went no further when it crashed.
RouteInv ==
    /\ at \in {Supervisor, ERR} => intent = None
    /\ at \in {KB, SQL, API} => intent # None /\ at \in Needed(intent)
    /\ at = RULE => intent # None
    /\ at # "CRASHED" =>
          /\ trace = Before(intent, at)
          /\ \A n \in ResultNodes : result[n] # "none" <=> n \in Filled(intent, at)
    /\ at = "CRASHED" => \E n \in Nodes : trace = Before(intent, n)

\* A node that has no result yet has spent nothing, so its one visit starts a fresh budget.
BudgetInv ==
    /\ \A n \in Nodes : (n \in ResultNodes => result[n] = "none") => retry[n] = 0 /\ resent[n] = 0
    /\ SharedRetryBudget

\* The knowledge base was not asked before it has a result.
AskedInv == (kbAsked # None => result[KB] # "none") /\ CauseAsked

\* There are no sentences before the end, where a blank one stands for rows.  An error is recorded
\* on the route of a query without an intent, which has no result, and by a run that ends without
\* a sentence; no other run has one.
ErrorInv ==
    /\ at # "END" => answer = {}
    /\ "blank" \in answer => result[SQL] = "rows"
    /\ at = "END" => (error # None <=> answer = {})
    /\ at \in {KB, SQL, API, RULE} => error = None
    /\ error # None => \/ at \in {"END", "CRASHED"}
                       \/ \A n \in ResultNodes : result[n] = "none"

Inv == TypeOK /\ RouteInv /\ BudgetInv /\ AskedInv /\ ErrorInv

-----------------------------------------------------------------------------
(* A route has no node twice *)

LEMMA NodesDiffer ==
    /\ Nodes = {Supervisor, KB, SQL, API, RULE, FINAL, ERR} /\ ResultNodes = {KB, SQL, API, RULE}
    /\ Supervisor \notin {KB, SQL, API, RULE, FINAL, ERR}
    /\ KB \notin {SQL, API, RULE, FINAL, ERR} /\ SQL \notin {API, RULE, FINAL, ERR}
    /\ API \notin {RULE, FINAL, ERR} /\ RULE \notin {FINAL, ERR} /\ FINAL # ERR
    /\ "END" \notin Nodes /\ "CRASHED" \notin Nodes
  BY DEF Nodes, ResultNodes, Supervisor, KB, SQL, API, RULE, FINAL, ERR

Route(s) == s \in Seq(Nodes) /\ \A j, k \in DOMAIN s : s[j] = s[k] => j = k

LEMMA TuplesAreRoutes ==
    /\ Route(<<>>)
    /\ \A a \in Nodes : Route(<<a>>)
    /\ \A a, b \in Nodes : a # b => Route(<<a, b>>)
    /\ \A a, b, c \in Nodes : a # b /\ a # c /\ b # c => Route(<<a, b, c>>)
    /\ \A a, b, c, d \in Nodes :
          a # b /\ a # c /\ b # c /\ a # d /\ b # d /\ c # d => Route(<<a, b, c, d>>)
    /\ Route(<<Supervisor, API, KB, RULE, FINAL>>)
<1>1. Route(<<>>)
  BY DEF Route
<1>2. ASSUME NEW a \in Nodes PROVE Route(<<a>>)
  BY DEF Route
<1>3. ASSUME NEW a \in Nodes, NEW b \in Nodes, a # b PROVE Route(<<a, b>>)
  BY <1>3 DEF Route
<1>4. ASSUME NEW a \in Nodes, NEW b \in Nodes, NEW c \in Nodes, a # b, a # c, b # c
      PROVE  Route(<<a, b, c>>)
  BY <1>4 DEF Route
<1>5. ASSUME NEW a \in Nodes, NEW b \in Nodes, NEW c \in Nodes, NEW d \in Nodes,
             a # b, a # c, b # c, a # d, b # d, c # d
      PROVE  Route(<<a, b, c, d>>)
  BY <1>5 DEF Route
<1>6. Route(<<Supervisor, API, KB, RULE, FINAL>>)
  BY NodesDiffer DEF Route
<1> QED BY <1>1, <1>2, <1>3, <1>4, <1>5, <1>6

LEMMA BranchNodes ==
    /\ \A i \in Simple : RoutingNode[i] \in {KB, SQL, API} /\ i \notin {"sla_check", "delay_analysis", None}
    /\ "sla_check" # "delay_analysis" /\ "sla_check" # None /\ "delay_analysis" # None
  BY NamesAre

LEMMA RoutesAre ==
    ASSUME NEW i \in Intents \cup {None}, NEW n \in Nodes \cup {"END"}
    PROVE  Route(Before(i, n))
<1>1. CASE n = Supervisor
  <2>1. Before(i, n) = <<>>
    BY <1>1, NodesDiffer DEF Before
  <2> QED BY <2>1, TuplesAreRoutes
<1>2. CASE n \in {SQL, API, ERR}
  <2>1. Before(i, n) = <<Supervisor>>
    BY <1>2, NodesDiffer DEF Before
  <2> QED BY <2>1, TuplesAreRoutes, NodesDiffer
<1>3. CASE n = KB
  <2>1. Before(i, n) \in {<<Supervisor, API>>, <<Supervisor>>}
    BY <1>3, NodesDiffer DEF Before
  <2> QED BY <2>1, TuplesAreRoutes, NodesDiffer
<1>4. CASE n = RULE
  <2>1. CASE i \in Simple
    <3>1. Before(i, n) = <<Supervisor, RoutingNode[i]>>
      BY <1>4, <2>1, NodesDiffer, BranchNodes DEF Before
    <3> QED BY <2>1, <3>1, TuplesAreRoutes, NodesDiffer, BranchNodes
  <2>2. CASE i \notin Simple
    BY <1>4, <2>2, TuplesAreRoutes, NodesDiffer, NamesAre DEF Before
  <2> QED BY <2>1, <2>2
<1>5. CASE n = FINAL
  <2>1. CASE i \in Simple
    <3>1. Before(i, n) = <<Supervisor, RoutingNode[i], RULE>>
      BY <1>5, <2>1, NodesDiffer, BranchNodes DEF Before
    <3> QED BY <2>1, <3>1, TuplesAreRoutes, NodesDiffer, BranchNodes
  <2>2. CASE i \notin Simple
    BY <1>5, <2>2, TuplesAreRoutes, NodesDiffer, NamesAre DEF Before
  <2> QED BY <2>1, <2>2
<1>6. CASE n = "END"
  <2>1. CASE i \in Simple
    <3>1. Before(i, n) = <<Supervisor, RoutingNode[i], RULE, FINAL>>
      BY <1>6, <2>1, NodesDiffer, BranchNodes DEF Before
    <3> QED BY <2>1, <3>1, TuplesAreRoutes, NodesDiffer, BranchNodes
  <2>2. CASE i \notin Simple
    BY <1>6, <2>2, TuplesAreRoutes, NodesDiffer, NamesAre DEF Before
  <2> QED BY <2>1, <2>2
<1> QED BY <1>1, <1>2, <1>3, <1>4, <1>5, <1>6, NodesDiffer

-----------------------------------------------------------------------------
(* Each step goes one node further on its route *)

LEMMA OnWithRoute ==
    /\ \A i \in Intents \cup {None} :
          /\ \A n \in {SQL, API, ERR} : Before(i, n) = Append(Before(i, Supervisor), Supervisor)
          /\ Before(i, "END") = Append(Before(i, FINAL), FINAL)
    /\ \A i \in Intents \ {"delay_analysis"} : Before(i, KB) = Append(Before(i, Supervisor), Supervisor)
    /\ \A i \in Intents : Before(i, FINAL) = Append(Before(i, RULE), RULE)
    /\ Before(None, FINAL) = Append(Before(None, ERR), ERR)
    /\ \A i \in Simple : Before(i, RULE) = Append(Before(i, RoutingNode[i]), RoutingNode[i])
    /\ Before("sla_check", RULE) = Append(Before("sla_check", API), API)
    /\ Before("delay_analysis", KB) = Append(Before("delay_analysis", API), API)
    /\ Before("delay_analysis", RULE) = Append(Before("delay_analysis", KB), KB)
<1>1. ASSUME NEW i \in Intents \cup {None}
      PROVE  /\ \A n \in {SQL, API, ERR} : Before(i, n) = Append(Before(i, Supervisor), Supervisor)
             /\ i # "delay_analysis" => Before(i, KB) = Append(Before(i, Supervisor), Supervisor)
  <2>1. Append(<<>>, Supervisor) = <<Supervisor>>
    OBVIOUS
  <2>2. Before(i, Supervisor) = <<>>
    BY NodesDiffer DEF Before
  <2>3. \A n \in {SQL, API, ERR} : Before(i, n) = <<Supervisor>>
    BY NodesDiffer DEF Before
  <2>4. i # "delay_analysis" => Before(i, KB) = <<Supervisor>>
    BY NodesDiffer DEF Before
  <2> QED BY <2>1, <2>2, <2>3, <2>4
<1>2. ASSUME NEW i \in Simple
      PROVE  /\ Before(i, RULE) = Append(Before(i, RoutingNode[i]), RoutingNode[i])
             /\ Before(i, FINAL) = Append(Before(i, RULE), RULE)
             /\ Before(i, "END") = Append(Before(i, FINAL), FINAL)
  <2> DEFINE r == RoutingNode[i]
  <2>0. r \in {KB, SQL, API} /\ i \notin {"sla_check", "delay_analysis", None}
    BY BranchNodes
  <2>1. Before(i, r) = <<Supervisor>>
    BY <2>0, NodesDiffer DEF Before
  <2>2. /\ Before(i, RULE) = <<Supervisor, r>> /\ Before(i, FINAL) = <<Supervisor, r, RULE>>
        /\ Before(i, "END") = <<Supervisor, r, RULE, FINAL>>
    BY <2>0, NodesDiffer DEF Before
  <2> HIDE DEF r
  <2>3. /\ <<Supervisor, r>> = Append(<<Supervisor>>, r)
        /\ <<Supervisor, r, RULE>> = Append(<<Supervisor, r>>, RULE)
        /\ <<Supervisor, r, RULE, FINAL>> = Append(<<Supervisor, r, RULE>>, FINAL)
    OBVIOUS
  <2>4. /\ Before(i, RULE) = Append(Before(i, r), r)
        /\ Before(i, FINAL) = Append(Before(i, RULE), RULE)
        /\ Before(i, "END") = Append(Before(i, FINAL), FINAL)
    BY <2>1, <2>2, <2>3
  <2> QED BY <2>4 DEF r
<1>3. /\ Before("sla_check", RULE) = Append(Before("sla_check", API), API)
      /\ Before("sla_check", FINAL) = Append(Before("sla_check", RULE), RULE)
      /\ Before("sla_check", "END") = Append(Before("sla_check", FINAL), FINAL)
  <2>1. /\ Before("sla_check", API) = <<Supervisor>>
        /\ Before("sla_check", RULE) = <<Supervisor, API>>
        /\ Before("sla_check", FINAL) = <<Supervisor, API, RULE>>
        /\ Before("sla_check", "END") = <<Supervisor, API, RULE, FINAL>>
    BY BranchNodes, NodesDiffer DEF Before
  <2>2. /\ <<Supervisor, API>> = Append(<<Supervisor>>, API)
        /\ <<Supervisor, API, RULE>> = Append(<<Supervisor, API>>, RULE)
        /\ <<Supervisor, API, RULE, FINAL>> = Append(<<Supervisor, API, RULE>>, FINAL)
    OBVIOUS
  <2> QED BY <2>1, <2>2
<1>4. LET i == "delay_analysis"
      IN  /\ Before(i, KB) = Append(Before(i, API), API)
          /\ Before(i, RULE) = Append(Before(i, KB), KB)
          /\ Before(i, FINAL) = Append(Before(i, RULE), RULE)
          /\ Before(i, "END") = Append(Before(i, FINAL), FINAL)
  <2> DEFINE i == "delay_analysis"
  <2>1. /\ Before(i, API) = <<Supervisor>>
        /\ Before(i, KB) = <<Supervisor, API>>
        /\ Before(i, RULE) = <<Supervisor, API, KB>>
        /\ Before(i, FINAL) = <<Supervisor, API, KB, RULE>>
        /\ Before(i, "END") = <<Supervisor, API, KB, RULE, FINAL>>
    BY BranchNodes, NodesDiffer DEF Before
  <2>2. /\ <<Supervisor, API>> = Append(<<Supervisor>>, API)
        /\ <<Supervisor, API, KB>> = Append(<<Supervisor, API>>, KB)
        /\ <<Supervisor, API, KB, RULE>> = Append(<<Supervisor, API, KB>>, RULE)
        /\ <<Supervisor, API, KB, RULE, FINAL>> = Append(<<Supervisor, API, KB, RULE>>, FINAL)
    OBVIOUS
  <2> QED BY <2>1, <2>2
<1>5. /\ Before(None, FINAL) = Append(Before(None, ERR), ERR)
      /\ Before(None, "END") = Append(Before(None, FINAL), FINAL)
  <2>1. /\ Before(None, ERR) = <<Supervisor>> /\ Before(None, FINAL) = <<Supervisor, ERR>>
        /\ Before(None, "END") = <<Supervisor, ERR, FINAL>>
    BY NodesDiffer DEF Before
  <2>2. /\ <<Supervisor, ERR>> = Append(<<Supervisor>>, ERR)
        /\ <<Supervisor, ERR, FINAL>> = Append(<<Supervisor, ERR>>, FINAL)
    OBVIOUS
  <2> QED BY <2>1, <2>2
<1> QED BY <1>1, <1>2, <1>3, <1>4, <1>5, NamesAre

-----------------------------------------------------------------------------
(* Type correctness and the parts of Inv, step by step *)

ResultKinds == UNION {Results(m) : m \in ResultNodes}

LEMMA ResultsAre ==
    /\ Results(KB) = {"none", "error", "abstained", "answer"}
    /\ Results(SQL) = {"none", "error", "noSql", "rows"}
    /\ Results(API) = {"none", "error", "noReference", "noShipment", "located", "held", "heldHs"}
    /\ Results(RULE) = {"none", "error", "noOrder", "unknownOrder", "order"}
    /\ \A n \in ResultNodes : Results(n) \subseteq ResultKinds
<1>1. /\ Results(KB) = {"none", "error"} \cup {"abstained", "answer"}
      /\ Results(SQL) = {"none", "error"} \cup {"noSql", "rows"}
      /\ Results(API) = {"none", "error"} \cup {"noReference", "noShipment", "located", "held", "heldHs"}
      /\ Results(RULE) = {"none", "error"} \cup {"noOrder", "unknownOrder", "order"}
  BY NodesDiffer DEF Results
<1> QED BY <1>1 DEF ResultKinds

LEMMA InitInv == Init => Inv
<1> SUFFICES ASSUME Init PROVE Inv
  OBVIOUS
<1>0. MaxRetriesPerNode \in Nat
  BY RetriesAssumption
<1>1. TypeOK
  <2>1. \A n \in ResultNodes : "none" \in Results(n)
    BY ResultsAre, NodesDiffer
  <2>2. result \in [ResultNodes -> ResultKinds] /\ \A n \in ResultNodes : result[n] = "none"
    BY <2>1, ResultsAre DEF Init
  <2>3. RULE \in ResultNodes /\ Supervisor \in Nodes
    BY NodesDiffer
  <2> QED BY <1>0, <2>1, <2>2, <2>3 DEF Init, TypeOK, ResultKinds
<1>2. RouteInv
  <2>1. at = Supervisor /\ intent = None /\ trace = <<>> /\ \A n \in ResultNodes : result[n] = "none"
    BY DEF Init
  <2>2. Before(intent, at) = <<>>
    BY <2>1, NodesDiffer DEF Before
  <2>3. Filled(intent, at) = {}
    BY <2>1 DEF Filled
  <2> QED BY <2>1, <2>2, <2>3, NodesDiffer DEF RouteInv
<1>3. BudgetInv
  BY <1>0 DEF Init, BudgetInv, SharedRetryBudget
<1>4. AskedInv
  BY DEF Init, AskedInv, CauseAsked
<1>5. ErrorInv
  <2>1. at = Supervisor /\ answer = {} /\ error = None
    BY DEF Init
  <2> QED BY <2>1, NodesDiffer DEF ErrorInv
<1> QED BY <1>1, <1>2, <1>3, <1>4, <1>5 DEF Inv

LEMMA ClassifyInv == Inv /\ Classify => Inv'
<1> SUFFICES ASSUME TypeOK, RouteInv, BudgetInv, AskedInv, ErrorInv, Classify PROVE Inv'
  BY DEF Inv
<1>0. /\ at = Supervisor /\ trace' = Append(trace, Supervisor) /\ query' = query
      /\ result' = result /\ verdict' = verdict /\ retry' = retry /\ answer' = answer
      /\ resent' = resent /\ kbAsked' = kbAsked
      /\ error' = IF intent' = None THEN "classification" ELSE None
      /\ at' = IF error' # None THEN ERR ELSE NextPendingNode(intent', result)
  BY DEF Classify, Visit, RouteAfterSupervisor
<1>1. intent' \in Intents \cup {None}
  <2>1. LlmIntents \subseteq Intents \cup {None}
    BY NamesAre DEF LlmIntents
  <2>2. ClassifyByRules(query) \in Intents \cup {None}
    BY NamesAre DEF ClassifyByRules
  <2> QED BY <2>1, <2>2 DEF Classify
<1>2. intent = None /\ trace = <<>> /\ \A n \in ResultNodes : result[n] = "none"
  <2>1. at # "CRASHED" /\ intent = None
    BY <1>0, NodesDiffer DEF RouteInv
  <2>2. Before(intent, at) = <<>>
    BY <1>0, NodesDiffer DEF Before
  <2>3. Filled(intent, at) = {}
    BY <1>0 DEF Filled
  <2> QED BY <2>1, <2>2, <2>3 DEF RouteInv
<1>3. /\ intent' = None => error' = "classification" /\ at' = ERR
      /\ intent' # None => error' = None /\ at' = NextPendingNode(intent', result)
  <2>1. "classification" # None
    BY NamesAssumption DEF ErrorNames
  <2> QED BY <1>0, <2>1
<1>4. \/ intent' = None /\ at' = ERR
      \/ intent' \in Simple /\ at' = RoutingNode[intent']
      \/ intent' \in {"sla_check", "delay_analysis"} /\ at' = API
  <2>1. result[KB] = "none" /\ result[SQL] = "none" /\ result[API] = "none"
    BY <1>2, NodesDiffer
  <2>2. CASE intent' = None
    BY <1>3, <2>2
  <2>3. CASE intent' \in Simple
    <3>1. RoutingNode[intent'] \in {KB, SQL, API} /\ intent' # None
      BY <2>3, BranchNodes
    <3>2. result[RoutingNode[intent']] = "none"
      BY <2>1, <3>1
    <3>3. NextPendingNode(intent', result) = RoutingNode[intent']
      BY <2>3, <3>2, NextIs
    <3> QED BY <1>3, <2>3, <3>1, <3>3
  <2>4. CASE intent' \in {"sla_check", "delay_analysis"}
    <3>1. NextPendingNode(intent', result) = API
      BY <2>1, <2>4, NextIs
    <3> QED BY <1>3, <2>4, <3>1, BranchNodes
  <2> QED BY <1>1, <2>2, <2>3, <2>4, NamesAre
<1>5. at' \in {KB, SQL, API, ERR}
  BY <1>4, BranchNodes
<1>6. TypeOK'
  <2>1. at' \in Nodes
    BY <1>5, NodesDiffer
  <2>2. error' \in ErrorNames \cup {None}
    BY <1>3 DEF ErrorNames
  <2>3. trace' \in Seq(Nodes)
    BY <1>0, NodesDiffer DEF TypeOK
  <2> QED BY <1>0, <1>1, <2>1, <2>2, <2>3 DEF TypeOK
<1>7. RouteInv'
  <2>1. trace' = Append(Before(intent', Supervisor), Supervisor)
    <3>1. Before(intent', Supervisor) = <<>>
      BY NodesDiffer DEF Before
    <3> QED BY <1>0, <1>2, <3>1
  <2>2. at' = KB => intent' # "delay_analysis"
    BY <1>4, NodesDiffer, BranchNodes
  <2>3. trace' = Before(intent', at')
    <3>1. CASE at' = KB
      <4>1. intent' \in Intents \ {"delay_analysis"}
        <5>1. intent' \in Simple
          BY <1>4, <3>1, NodesDiffer
        <5> QED BY <5>1, BranchNodes, NamesAre
      <4> QED BY <2>1, <3>1, <4>1, OnWithRoute
    <3>2. CASE at' \in {SQL, API, ERR}
      BY <1>1, <2>1, <3>2, OnWithRoute
    <3> QED BY <1>5, <3>1, <3>2
  <2>4. Filled(intent', at') = {}
    <3>1. CASE at' = KB
      <4>1. intent' \in Simple /\ RoutingNode[intent'] = KB
        BY <1>4, <3>1, NodesDiffer
      <4>2. Needed(intent') = {KB}
        BY <4>1, BranchNodes DEF Needed
      <4> QED BY <3>1, <4>2 DEF Filled
    <3>2. CASE at' \in {SQL, API, ERR}
      BY <3>2 DEF Filled
    <3> QED BY <1>5, <3>1, <3>2
  <2>5. at' \in {KB, SQL, API} => intent' # None /\ at' \in Needed(intent')
    BY <1>4, NodesDiffer, BranchNodes DEF Needed
  <2>6. at' = ERR => intent' = None
    BY <1>4, NodesDiffer, BranchNodes
  <2>7. at' # Supervisor /\ at' # RULE /\ at' # "CRASHED"
    BY <1>5, NodesDiffer
  <2>8. \A n \in ResultNodes : result'[n] = "none"
    BY <1>0, <1>2
  <2> QED BY <2>3, <2>4, <2>5, <2>6, <2>7, <2>8 DEF RouteInv
<1>8. BudgetInv'
  BY <1>0 DEF BudgetInv, SharedRetryBudget
<1>9. AskedInv'
  BY <1>0 DEF AskedInv, CauseAsked
<1>10. ErrorInv'
  <2>1. at # "END" /\ answer = {}
    BY <1>0, NodesDiffer DEF ErrorInv
  <2>2. at' # "END" /\ at' # RULE /\ answer' = {}
    BY <1>0, <1>5, <2>1, NodesDiffer
  <2>3. at' \in {KB, SQL, API} => error' = None
    BY <1>3, NodesDiffer
  <2>4. \A n \in ResultNodes : result'[n] = "none"
    BY <1>0, <1>2
  <2> QED BY <2>2, <2>3, <2>4 DEF ErrorInv
<1> QED BY <1>6, <1>7, <1>8, <1>9, <1>10 DEF Inv

\* The branch nodes: what all of them keep, whatever their calls come to.
LEMMA ReturnKeeps ==
    ASSUME TypeOK, RouteInv, BudgetInv, AskedInv, ErrorInv,
           NEW n \in {KB, SQL, API}, NEW kind \in Results(n) \ {"none"},
           NEW attempts \in 0..(MaxRetriesPerNode + 1), NEW resends \in Nat,
           n # API => resends <= MaxRetriesPerNode,
           Visit(n), Return(n, kind, attempts, resends),
           kbAsked' = IF n = KB THEN IF result[API] \in Cause THEN "cause" ELSE "query"
                      ELSE kbAsked
    PROVE  Inv'
<1>0. /\ at = n /\ trace' = Append(trace, n) /\ query' = query /\ intent' = intent
      /\ result' = [result EXCEPT ![n] = kind] /\ retry' = [retry EXCEPT ![n] = attempts]
      /\ resent' = [resent EXCEPT ![n] = @ + resends] /\ verdict' = verdict
      /\ answer' = answer /\ error' = error /\ at' = NextPendingNode(intent, result')
  BY DEF Visit, Return
<1>1. /\ n \in Nodes /\ n \in ResultNodes /\ n # RULE /\ n # Supervisor /\ n # "CRASHED"
  BY NodesDiffer
<1>2. /\ intent \in Intents /\ intent # None /\ n \in Needed(intent) /\ trace = Before(intent, n)
      /\ \A m \in ResultNodes : result[m] # "none" <=> m \in Filled(intent, n)
  BY <1>0, <1>1 DEF TypeOK, RouteInv
<1>3. /\ result'[n] = kind /\ kind # "none" /\ \A m \in ResultNodes \ {n} : result'[m] = result[m]
  BY <1>0, <1>1 DEF TypeOK
<1>4. n \notin Filled(intent, n) /\ result[n] = "none"
  <2>1. n \notin Filled(intent, n)
    BY NodesDiffer DEF Filled
  <2> QED BY <1>1, <1>2, <2>1
<1>5. retry[n] = 0 /\ resent[n] = 0 /\ resent'[n] = resends
  <2>1. retry[n] = 0 /\ resent[n] = 0
    BY <1>1, <1>4 DEF BudgetInv
  <2>2. resent'[n] = resent[n] + resends
    BY <1>0, <1>1 DEF TypeOK
  <2> QED BY <2>1, <2>2
<1>6. \/ intent \in Simple /\ n = RoutingNode[intent] /\ at' = RULE
      \/ intent = "sla_check" /\ n = API /\ at' = RULE
      \/ intent = "delay_analysis" /\ n = API /\ at' = KB
      \/ intent = "delay_analysis" /\ n = KB /\ at' = RULE
  <2>1. CASE intent \in Simple
    <3>1. n = RoutingNode[intent]
      BY <1>2, <2>1, BranchNodes DEF Needed
    <3>2. NextPendingNode(intent, result') = RULE
      BY <1>3, <2>1, <3>1, NextIs
    <3> QED BY <1>0, <2>1, <3>1, <3>2
  <2>2. CASE intent = "sla_check"
    <3>1. n = API
      BY <1>2, <2>2, BranchNodes DEF Needed
    <3>2. NextPendingNode(intent, result') = RULE
      BY <1>3, <2>2, <3>1, NextIs
    <3> QED BY <1>0, <2>2, <3>1, <3>2
  <2>3. CASE intent = "delay_analysis" /\ n = API
    <3>1. KB \in ResultNodes \ {n} /\ KB \notin Filled(intent, n)
      BY <2>3, NodesDiffer DEF Filled
    <3>2. result'[KB] = "none"
      BY <1>2, <1>3, <3>1
    <3>3. NextPendingNode("delay_analysis", result') =
            IF result'[API] = "none" THEN API ELSE IF result'[KB] = "none" THEN KB ELSE RULE
      BY NextIs
    <3>4. NextPendingNode(intent, result') = KB
      BY <1>3, <2>3, <3>2, <3>3
    <3> QED BY <1>0, <2>3, <3>4
  <2>4. CASE intent = "delay_analysis" /\ n = KB
    <3>1. API \in ResultNodes \ {n} /\ API \in Filled(intent, n)
      BY <2>4, NodesDiffer, BranchNodes DEF Filled, Needed
    <3>2. result'[API] # "none"
      BY <1>2, <1>3, <3>1
    <3>3. NextPendingNode("delay_analysis", result') =
            IF result'[API] = "none" THEN API ELSE IF result'[KB] = "none" THEN KB ELSE RULE
      BY NextIs
    <3>4. NextPendingNode(intent, result') = RULE
      BY <1>3, <2>4, <3>2, <3>3
    <3> QED BY <1>0, <2>4, <3>4
  <2>5. intent = "delay_analysis" => n = API \/ n = KB
    BY <1>2, BranchNodes DEF Needed
  <2> QED BY <1>2, <2>1, <2>2, <2>3, <2>4, <2>5, NamesAre
<1>7. at' \in {RULE, KB}
  BY <1>6
<1>8. TypeOK'
  <2>1. result' \in [ResultNodes -> ResultKinds]
    <3>1. kind \in ResultKinds
      BY <1>1, ResultsAre
    <3> QED BY <1>0, <3>1 DEF TypeOK, ResultKinds
  <2>2. \A m \in ResultNodes : result'[m] \in Results(m)
    BY <1>3 DEF TypeOK
  <2>3. result'[RULE] = result[RULE]
    BY <1>1, <1>3, NodesDiffer
  <2>4. at' \in Nodes /\ trace' \in Seq(Nodes)
    BY <1>0, <1>1, <1>7, NodesDiffer DEF TypeOK
  <2>5. retry' \in [Nodes -> 0..(MaxRetriesPerNode + 1)]
    BY <1>0 DEF TypeOK
  <2>6. resent' \in [Nodes -> Nat]
    <3>1. resent[n] + resends \in Nat
      BY <1>5
    <3> QED BY <1>0, <3>1 DEF TypeOK
  <2>7. kbAsked' \in {"query", "cause", None}
    BY DEF TypeOK
  <2> QED BY <1>0, <2>1, <2>2, <2>3, <2>4, <2>5, <2>6, <2>7 DEF TypeOK, ResultKinds
<1>9. RouteInv'
  <2>1. trace' = Before(intent, at')
    <3>1. trace' = Append(Before(intent, n), n)
      BY <1>0, <1>2
    <3> QED BY <1>6, <3>1, OnWithRoute
  <2>2. Filled(intent, at') = Filled(intent, n) \cup {n}
    <3>1. CASE intent \in Simple
      <4>1. n = RoutingNode[intent] /\ at' = RULE /\ Needed(intent) = {n}
        BY <1>6, <3>1, BranchNodes DEF Needed
      <4>2. Filled(intent, RULE) = {n}
        BY <1>2, <4>1, NodesDiffer DEF Filled
      <4>3. Filled(intent, n) = {}
        BY <4>1 DEF Filled
      <4> QED BY <4>1, <4>2, <4>3
    <3>2. CASE intent = "sla_check"
      <4>1. n = API /\ at' = RULE /\ Needed(intent) = {API}
        BY <1>6, <3>2, BranchNodes DEF Needed
      <4>2. Filled(intent, RULE) = {API} /\ Filled(intent, API) = {}
        BY <1>2, <4>1, NodesDiffer DEF Filled
      <4> QED BY <4>1, <4>2
    <3>3. CASE intent = "delay_analysis"
      <4>1. Needed(intent) = {API, KB}
        BY <3>3, BranchNodes DEF Needed
      <4>2. /\ Filled(intent, RULE) = {API, KB} /\ Filled(intent, API) = {}
            /\ Filled(intent, KB) = {API}
        BY <1>2, <4>1, NodesDiffer DEF Filled
      <4>3. (n = API /\ at' = KB) \/ (n = KB /\ at' = RULE)
        BY <1>6, <3>3, BranchNodes
      <4> QED BY <4>2, <4>3
    <3> QED BY <1>2, <3>1, <3>2, <3>3, NamesAre
  <2>3. \A m \in ResultNodes : result'[m] # "none" <=> m \in Filled(intent, at')
    BY <1>2, <1>3, <2>2
  <2>4. at' = KB => KB \in Needed(intent)
    BY <1>6, NodesDiffer, BranchNodes DEF Needed
  <2>5. at' \notin {Supervisor, ERR, SQL, API, "CRASHED"}
    BY <1>7, NodesDiffer
  <2> QED BY <1>0, <1>2, <2>1, <2>3, <2>4, <2>5 DEF RouteInv
<1>10. BudgetInv'
  <2>1. ASSUME NEW m \in Nodes, m # n PROVE retry'[m] = retry[m] /\ resent'[m] = resent[m]
    BY <1>0, <2>1 DEF TypeOK
  <2>2. ASSUME NEW m \in Nodes, m \in ResultNodes => result'[m] = "none"
        PROVE  retry'[m] = 0 /\ resent'[m] = 0
    <3>1. m # n
      BY <1>1, <1>3, <2>2
    <3>2. m \in ResultNodes => result[m] = "none"
      BY <1>3, <2>2, <3>1
    <3> QED BY <2>1, <3>1, <3>2 DEF BudgetInv
  <2>3. ASSUME NEW m \in Nodes \ {API} PROVE resent'[m] <= MaxRetriesPerNode
    BY <1>5, <2>1 DEF BudgetInv, SharedRetryBudget
  <2> QED BY <2>2, <2>3 DEF BudgetInv, SharedRetryBudget
<1>11. AskedInv'
  <2>1. CASE n = KB
    <3>1. result'[API] = result[API] /\ result'[KB] # "none"
      BY <1>3, <2>1, NodesDiffer
    <3>2. kbAsked' = IF result[API] \in Cause THEN "cause" ELSE "query"
      BY <2>1
    <3> QED BY <3>1, <3>2 DEF AskedInv, CauseAsked
  <2>2. CASE n # KB
    <3>1. kbAsked' = kbAsked
      BY <2>2
    <3>2. result[KB] = "none"
      <4>1. KB \in ResultNodes /\ KB \notin Filled(intent, n)
        BY <2>2, NodesDiffer DEF Filled
      <4> QED BY <1>2, <4>1
    <3>3. kbAsked = None
      BY <3>2 DEF AskedInv
    <3> QED BY <3>1, <3>3 DEF AskedInv, CauseAsked
  <2> QED BY <2>1, <2>2
<1>12. ErrorInv'
  <2>1. error = None /\ answer = {}
    BY <1>0, NodesDiffer DEF ErrorInv
  <2>2. at' # "END" /\ error' = None /\ answer' = {}
    BY <1>0, <1>7, <2>1, NodesDiffer
  <2> QED BY <2>2 DEF ErrorInv
<1> QED BY <1>8, <1>9, <1>10, <1>11, <1>12 DEF Inv

LEMMA KnowledgeBaseAgentInv == Inv /\ KnowledgeBaseAgent => Inv'
<1> SUFFICES ASSUME Inv, KnowledgeBaseAgent PROVE Inv'
  OBVIOUS
<1>1. PICK call \in CallWithRetry(retry[KB], Transient) :
         \E kind \in IF call.ok THEN {"abstained", "answer"} ELSE {"error"} :
            Return(KB, kind, call.attempts, Resends(retry[KB], call))
  BY DEF KnowledgeBaseAgent
<1>2. PICK kind \in IF call.ok THEN {"abstained", "answer"} ELSE {"error"} :
         Return(KB, kind, call.attempts, Resends(retry[KB], call))
  BY <1>1
<1>3. kind \in Results(KB) \ {"none"}
  BY ResultsAre
<1>4. retry[KB] = 0
  BY NodesDiffer DEF Inv, RouteInv, BudgetInv, Filled, KnowledgeBaseAgent, Visit
<1>5. /\ call.attempts \in 0..(MaxRetriesPerNode + 1) /\ Resends(retry[KB], call) \in Nat
      /\ Resends(retry[KB], call) <= MaxRetriesPerNode
  <2>1. MaxRetriesPerNode \in Nat /\ 0 \in 0..MaxRetriesPerNode
    BY RetriesAssumption
  <2>2. call \in CallWithRetry(0, Transient)
    BY <1>1, <1>4
  <2>3. Resends(0, call) \in Nat /\ 0 + Resends(0, call) <= MaxRetriesPerNode
    BY <2>1, <2>2, CallIs
  <2>4. call.attempts \in 0..(MaxRetriesPerNode + 1)
    BY <2>1, <2>2, CallIs
  <2> QED BY <1>4, <2>1, <2>3, <2>4
<1>6. /\ Visit(KB) /\ kbAsked' = IF result[API] \in Cause THEN "cause" ELSE "query"
  BY DEF KnowledgeBaseAgent
<1> HIDE DEF Inv
<1> QED BY <1>2, <1>3, <1>5, <1>6, ReturnKeeps DEF Inv

LEMMA SqlBudget ==
    ASSUME NEW gen \in CallWithRetry(0, Transient), gen.ok,
           NEW call \in CallWithRetry(LeftoverBudget(gen.attempts), AnyFailure)
    PROVE  LET resends == Resends(0, gen) + Resends(LeftoverBudget(gen.attempts), call)
           IN  /\ call.attempts \in 0..(MaxRetriesPerNode + 1)
               /\ resends \in Nat /\ resends <= MaxRetriesPerNode
<1> DEFINE before == LeftoverBudget(gen.attempts)
           again == Resends(0, gen)
           more == Resends(before, call)
<1>0. MaxRetriesPerNode \in Nat /\ 0 \in 0..MaxRetriesPerNode
  BY RetriesAssumption
<1>1. again \in Nat /\ gen.attempts = 0 + again /\ gen.attempts \in 0..MaxRetriesPerNode
  BY <1>0, CallIs
<1>2. before = again /\ before \in 0..MaxRetriesPerNode
  BY <1>1 DEF LeftoverBudget
<1> HIDE DEF before, again
<1>3. call.attempts \in 0..(MaxRetriesPerNode + 1) /\ more \in Nat /\ before + more <= MaxRetriesPerNode
  <2>1. call \in CallWithRetry(before, AnyFailure)
    BY DEF before
  <2> QED BY <1>2, <2>1, CallIs
<1> HIDE DEF more
<1>4. again + more \in Nat /\ again + more <= MaxRetriesPerNode
  BY <1>0, <1>1, <1>2, <1>3
<1> QED BY <1>3, <1>4 DEF before, again, more

LEMMA TextToSqlAgentInv == Inv /\ TextToSqlAgent => Inv'
<1> SUFFICES ASSUME Inv, TextToSqlAgent PROVE Inv'
  OBVIOUS
<1>0. MaxRetriesPerNode \in Nat /\ 0 \in 0..MaxRetriesPerNode
  BY RetriesAssumption
<1>1. retry[SQL] = 0
  BY NodesDiffer DEF Inv, RouteInv, BudgetInv, Filled, TextToSqlAgent, Visit
<1>2. Visit(SQL) /\ kbAsked' = kbAsked /\ SQL # KB /\ SQL # API /\ SQL \in {KB, SQL, API}
  BY NodesDiffer DEF TextToSqlAgent
<1>3. PICK gen \in CallWithRetry(0, Transient) :
         LET again == Resends(0, gen)
             before == LeftoverBudget(gen.attempts)
         IN  \/ ~gen.ok /\ Return(SQL, "error", gen.attempts, again)
             \/ gen.ok /\ Return(SQL, "noSql", gen.attempts, again)
             \/ /\ gen.ok
                /\ \E call \in CallWithRetry(before, AnyFailure) :
                     Return(SQL, IF call.ok THEN "rows" ELSE "error", call.attempts,
                            again + Resends(before, call))
  BY <1>1 DEF TextToSqlAgent
<1>4. ASSUME NEW kind \in {"error", "noSql", "rows"}, NEW attempts \in 0..(MaxRetriesPerNode + 1),
             NEW resends \in Nat, resends <= MaxRetriesPerNode, Return(SQL, kind, attempts, resends)
      PROVE  Inv'
  <2>1. kind \in Results(SQL) \ {"none"}
    BY ResultsAre
  <2>2. TypeOK /\ RouteInv /\ BudgetInv /\ AskedInv /\ ErrorInv
    BY DEF Inv
  <2> QED BY <1>2, <1>4, <2>1, <2>2, ReturnKeeps
<1>5. /\ gen.attempts \in 0..(MaxRetriesPerNode + 1) /\ Resends(0, gen) \in Nat
      /\ Resends(0, gen) <= MaxRetriesPerNode
  <2>1. Resends(0, gen) \in Nat /\ 0 + Resends(0, gen) <= MaxRetriesPerNode
    BY <1>0, CallIs
  <2>2. gen.attempts \in 0..(MaxRetriesPerNode + 1)
    BY <1>0, CallIs
  <2> QED BY <1>0, <2>1, <2>2
<1>6. CASE Return(SQL, "error", gen.attempts, Resends(0, gen))
  BY <1>4, <1>5, <1>6
<1>7. CASE Return(SQL, "noSql", gen.attempts, Resends(0, gen))
  BY <1>4, <1>5, <1>7
<1>8. ASSUME gen.ok, NEW call \in CallWithRetry(LeftoverBudget(gen.attempts), AnyFailure),
             Return(SQL, IF call.ok THEN "rows" ELSE "error", call.attempts,
                    Resends(0, gen) + Resends(LeftoverBudget(gen.attempts), call))
      PROVE  Inv'
  <2> DEFINE resends == Resends(0, gen) + Resends(LeftoverBudget(gen.attempts), call)
             kind == IF call.ok THEN "rows" ELSE "error"
  <2>1. /\ call.attempts \in 0..(MaxRetriesPerNode + 1) /\ resends \in Nat
        /\ resends <= MaxRetriesPerNode
    BY <1>8, SqlBudget
  <2>2. kind \in {"error", "noSql", "rows"}
    OBVIOUS
  <2>3. Return(SQL, kind, call.attempts, resends)
    BY <1>8
  <2> HIDE DEF resends, kind
  <2> QED BY <1>4, <2>1, <2>2, <2>3
<1> QED BY <1>3, <1>6, <1>7, <1>8

LEMMA ApiStatusAgentInv == Inv /\ ApiStatusAgent => Inv'
<1> SUFFICES ASSUME Inv, ApiStatusAgent PROVE Inv'
  OBVIOUS
<1>0. MaxRetriesPerNode \in Nat /\ 0 \in 0..MaxRetriesPerNode
  BY RetriesAssumption
<1>1. retry[API] = 0
  BY NodesDiffer DEF Inv, RouteInv, BudgetInv, Filled, ApiStatusAgent, Visit
<1>2. Visit(API) /\ kbAsked' = kbAsked /\ API # KB /\ API \in {KB, SQL, API}
  BY NodesDiffer DEF ApiStatusAgent
<1>3. ASSUME NEW kind \in Results(API) \ {"none"}, NEW attempts \in 0..(MaxRetriesPerNode + 1),
             NEW resends \in Nat, Return(API, kind, attempts, resends)
      PROVE  Inv'
  <2>1. TypeOK /\ RouteInv /\ BudgetInv /\ AskedInv /\ ErrorInv
    BY DEF Inv
  <2> QED BY <1>2, <1>3, <2>1, ReturnKeeps
<1>4. ASSUME NEW call \in CallWithRetry(0, AnyFailure)
      PROVE  call.attempts \in 0..(MaxRetriesPerNode + 1) /\ Resends(0, call) \in Nat
  BY <1>0, CallIs
<1>5. ASSUME NEW again \in Nat, ShipmentStatus(again) PROVE Inv'
  <2>1. PICK call \in CallWithRetry(0, AnyFailure) :
           \E kind \in IF call.ok THEN Shipment ELSE {"error"} :
              Return(API, kind, call.attempts, again + Resends(0, call))
    BY <1>1, <1>5 DEF ShipmentStatus
  <2>2. PICK kind \in IF call.ok THEN Shipment ELSE {"error"} :
           Return(API, kind, call.attempts, again + Resends(0, call))
    BY <2>1
  <2>3. kind \in Results(API) \ {"none"}
    BY ResultsAre DEF Shipment
  <2>4. again + Resends(0, call) \in Nat
    BY <1>4
  <2> QED BY <1>3, <1>4, <2>2, <2>3, <2>4
<1>6. CASE ShipmentStatus(0)
  BY <1>5, <1>6
<1>7. ASSUME NEW call \in CallWithRetry(0, AnyFailure),
             LET again == Resends(0, call)
             IN  \/ ~call.ok /\ Return(API, "error", call.attempts, again)
                 \/ call.ok /\ Return(API, "noShipment", 0, again)
                 \/ call.ok /\ ShipmentStatus(again)
      PROVE  Inv'
  <2>1. {"error", "noShipment"} \subseteq Results(API) \ {"none"} /\ 0 \in 0..(MaxRetriesPerNode + 1)
    BY <1>0, ResultsAre
  <2>2. CASE Return(API, "error", call.attempts, Resends(0, call))
    BY <1>3, <1>4, <2>1, <2>2
  <2>3. CASE Return(API, "noShipment", 0, Resends(0, call))
    BY <1>3, <1>4, <2>1, <2>3
  <2>4. CASE ShipmentStatus(Resends(0, call))
    BY <1>4, <1>5, <2>4
  <2> QED BY <1>7, <2>2, <2>3, <2>4
<1>8. CASE Return(API, "noReference", 0, 0)
  <2>1. "noReference" \in Results(API) \ {"none"} /\ 0 \in 0..(MaxRetriesPerNode + 1)
    BY <1>0, ResultsAre
  <2> QED BY <1>3, <1>8, <2>1
<1>9. \/ ShipmentStatus(0)
      \/ \E call \in CallWithRetry(0, AnyFailure) :
             LET again == Resends(0, call)
             IN  \/ ~call.ok /\ Return(API, "error", call.attempts, again)
                 \/ call.ok /\ Return(API, "noShipment", 0, again)
                 \/ call.ok /\ ShipmentStatus(again)
      \/ Return(API, "noReference", 0, 0)
  BY <1>1 DEF ApiStatusAgent
<1> QED BY <1>6, <1>7, <1>8, <1>9

LEMMA VerdictOf ==
    ASSUME NEW o \in Orders, NEW hs \in BOOLEAN
    PROVE  Evaluate(o, AsOfDate(o, Today), hs) \in Verdicts
<1> DEFINE v == Evaluate(o, AsOfDate(o, Today), hs)
<1>1. \E p \in Orders, h \in BOOLEAN : v = Evaluate(p, AsOfDate(p, Today), h)
  BY Zenon
<1> HIDE DEF v
<1>2. v \in Verdicts
  BY <1>1 DEF Verdicts
<1> QED BY <1>2 DEF v

LEMMA BusinessRuleAgentInv == Inv /\ BusinessRuleAgent => Inv'
<1> SUFFICES ASSUME TypeOK, RouteInv, BudgetInv, AskedInv, ErrorInv, BusinessRuleAgent PROVE Inv'
  BY DEF Inv
<1>0. /\ at = RULE /\ trace' = Append(trace, RULE) /\ query' = query /\ intent' = intent
      /\ answer' = answer /\ error' = error /\ kbAsked' = kbAsked /\ at' = FINAL
      /\ MaxRetriesPerNode \in Nat /\ 0 \in 0..MaxRetriesPerNode
  BY RetriesAssumption DEF BusinessRuleAgent, Visit
<1>1. /\ intent \in Intents /\ intent # None /\ trace = Before(intent, RULE)
      /\ \A m \in ResultNodes : result[m] # "none" <=> m \in Filled(intent, RULE)
  BY <1>0, NodesDiffer DEF TypeOK, RouteInv
<1>2. Filled(intent, RULE) = Needed(intent) /\ Filled(intent, FINAL) = Needed(intent) \cup {RULE}
  BY <1>1, NodesDiffer DEF Filled
<1>3. retry[RULE] = 0 /\ resent[RULE] = 0 /\ RULE \in ResultNodes /\ RULE \in Nodes
  <2>1. RULE \notin Needed(intent)
    BY <1>1, NodesDiffer, BranchNodes, NamesAre DEF Needed
  <2> QED BY <1>1, <1>2, <2>1, NodesDiffer DEF BudgetInv
<1>4. PICK kind \in Results(RULE) \ {"none"} :
         /\ result' = [result EXCEPT ![RULE] = kind]
         /\ kind = "order" => verdict' # None
  <2>1. {"noOrder", "unknownOrder", "error", "order"} \subseteq Results(RULE) \ {"none"}
    BY ResultsAre
  <2>2. CASE result' = [result EXCEPT ![RULE] = "noOrder"]
    BY <2>1, <2>2
  <2>3. CASE \E ok : result' = [result EXCEPT ![RULE] = IF ok THEN "unknownOrder" ELSE "error"]
    BY <2>1, <2>3
  <2>4. CASE /\ result' = [result EXCEPT ![RULE] = "order"]
             /\ \E o \in Orders : verdict' = Evaluate(o, AsOfDate(o, Today), result[API] = "heldHs")
    <3>1. PICK o \in Orders : verdict' = Evaluate(o, AsOfDate(o, Today), result[API] = "heldHs")
      BY <2>4
    <3>2. (result[API] = "heldHs") \in BOOLEAN
      OBVIOUS
    <3>3. verdict' \in Verdicts
      BY <3>1, <3>2, VerdictOf, Zenon
    <3>4. verdict' # None
      BY <3>3, VerdictsAssumption
    <3> QED BY <2>1, <2>4, <3>4
  <2> QED BY <2>2, <2>3, <2>4 DEF BusinessRuleAgent
<1>5. verdict' \in Verdicts \cup {None}
  <2>1. CASE verdict' = verdict
    BY <2>1 DEF TypeOK
  <2>2. CASE \E o \in Orders : verdict' = Evaluate(o, AsOfDate(o, Today), result[API] = "heldHs")
    <3>1. PICK o \in Orders : verdict' = Evaluate(o, AsOfDate(o, Today), result[API] = "heldHs")
      BY <2>2
    <3>2. (result[API] = "heldHs") \in BOOLEAN
      OBVIOUS
    <3> QED BY <3>1, <3>2, VerdictOf, Zenon
  <2> QED BY <2>1, <2>2 DEF BusinessRuleAgent
<1>6. PICK attempts \in 0..(MaxRetriesPerNode + 1), resends \in 0..MaxRetriesPerNode :
         /\ retry' = [retry EXCEPT ![RULE] = attempts]
         /\ resent' = [resent EXCEPT ![RULE] = @ + resends]
  <2>1. CASE retry' = retry /\ resent' = resent
    <3>1. /\ retry' = [retry EXCEPT ![RULE] = 0]
          /\ resent' = [resent EXCEPT ![RULE] = @ + 0]
      BY <1>3, <2>1 DEF TypeOK
    <3>2. 0 \in 0..(MaxRetriesPerNode + 1) /\ 0 \in 0..MaxRetriesPerNode
      BY <1>0
    <3> QED BY <3>1, <3>2, Zenon
  <2>2. CASE \E call \in CallWithRetry(0, AnyFailure) :
               /\ retry' = [retry EXCEPT ![RULE] = call.attempts]
               /\ resent' = [resent EXCEPT ![RULE] = @ + Resends(0, call)]
    <3>1. PICK call \in CallWithRetry(0, AnyFailure) :
               /\ retry' = [retry EXCEPT ![RULE] = call.attempts]
               /\ resent' = [resent EXCEPT ![RULE] = @ + Resends(0, call)]
      BY <2>2
    <3>2. call.attempts \in 0..(MaxRetriesPerNode + 1)
      BY <1>0, CallIs
    <3>3. Resends(0, call) \in Nat /\ 0 + Resends(0, call) <= MaxRetriesPerNode
      BY <1>0, CallIs
    <3>4. Resends(0, call) \in 0..MaxRetriesPerNode
      BY <1>0, <3>3
    <3> QED BY <3>1, <3>2, <3>4
  <2>3. \/ retry' = retry /\ resent' = resent
        \/ \E call \in CallWithRetry(0, AnyFailure) :
               /\ retry' = [retry EXCEPT ![RULE] = call.attempts]
               /\ resent' = [resent EXCEPT ![RULE] = @ + Resends(0, call)]
    BY <1>3, Zenon DEF BusinessRuleAgent
  <2> QED BY <2>1, <2>2, <2>3, Zenon
<1>7. /\ result'[RULE] = kind /\ resent'[RULE] = resends
      /\ \A m \in ResultNodes \ {RULE} : result'[m] = result[m]
      /\ \A m \in Nodes \ {RULE} : retry'[m] = retry[m] /\ resent'[m] = resent[m]
  BY <1>3, <1>4, <1>6 DEF TypeOK
<1>8. TypeOK'
  <2>1. result' \in [ResultNodes -> ResultKinds] /\ \A m \in ResultNodes : result'[m] \in Results(m)
    <3>1. kind \in ResultKinds
      BY <1>3, <1>4, ResultsAre
    <3> QED BY <1>4, <1>7, <3>1 DEF TypeOK, ResultKinds
  <2>2. result'[RULE] = "order" => verdict' # None
    BY <1>4, <1>7
  <2>3. at' \in Nodes /\ trace' \in Seq(Nodes)
    BY <1>0, <1>3, NodesDiffer DEF TypeOK
  <2>4. retry' \in [Nodes -> 0..(MaxRetriesPerNode + 1)]
    BY <1>6 DEF TypeOK
  <2>5. resent' \in [Nodes -> Nat]
    <3>1. resent[RULE] + resends \in Nat
      BY <1>3
    <3> QED BY <1>6, <3>1 DEF TypeOK
  <2> QED BY <1>0, <1>5, <2>1, <2>2, <2>3, <2>4, <2>5 DEF TypeOK, ResultKinds
<1>9. RouteInv'
  <2>1. trace' = Before(intent, FINAL)
    BY <1>0, <1>1, OnWithRoute
  <2>2. \A m \in ResultNodes : result'[m] # "none" <=> m \in Filled(intent, FINAL)
    BY <1>1, <1>2, <1>4, <1>7
  <2>3. FINAL \notin {Supervisor, ERR, KB, SQL, API, RULE, "CRASHED"}
    BY NodesDiffer
  <2> QED BY <1>0, <2>1, <2>2, <2>3 DEF RouteInv
<1>10. BudgetInv'
  <2>1. ASSUME NEW m \in Nodes, m \in ResultNodes => result'[m] = "none"
        PROVE  retry'[m] = 0 /\ resent'[m] = 0
    <3>1. m # RULE
      BY <1>3, <1>4, <1>7, <2>1
    <3>2. m \in ResultNodes => result[m] = "none"
      BY <1>7, <2>1, <3>1
    <3> QED BY <1>7, <3>1, <3>2 DEF BudgetInv
  <2>2. ASSUME NEW m \in Nodes \ {API} PROVE resent'[m] <= MaxRetriesPerNode
    BY <1>0, <1>7 DEF BudgetInv, SharedRetryBudget
  <2> QED BY <2>1, <2>2 DEF BudgetInv, SharedRetryBudget
<1>11. AskedInv'
  <2>1. result'[KB] = result[KB] /\ result'[API] = result[API]
    BY <1>7, NodesDiffer
  <2> QED BY <1>0, <2>1 DEF AskedInv, CauseAsked
<1>12. ErrorInv'
  <2>1. error = None /\ answer = {}
    BY <1>0, NodesDiffer DEF ErrorInv
  <2>2. at' # "END" /\ error' = None /\ answer' = {}
    BY <1>0, <2>1, NodesDiffer
  <2> QED BY <2>2 DEF ErrorInv
<1> QED BY <1>8, <1>9, <1>10, <1>11, <1>12 DEF Inv

\* The earliest of up to four positions is one of them.
LEMMA FirstIsOne ==
    ASSUME NEW S \in SUBSET (1..4), S # {}
    PROVE  (CHOOSE k \in S : \A j \in S : k <= j) \in S
<1>1. \E k \in S : \A j \in S : k <= j
  <2>1. CASE 1 \in S
    BY <2>1
  <2>2. CASE 1 \notin S /\ 2 \in S
    BY <2>2
  <2>3. CASE 1 \notin S /\ 2 \notin S /\ 3 \in S
    BY <2>3
  <2>4. CASE 1 \notin S /\ 2 \notin S /\ 3 \notin S
    <3>1. \A k \in S : k = 4
      BY <2>4
    <3>2. 4 \in S
      BY <3>1
    <3> QED BY <3>1, <3>2
  <2> QED BY <2>1, <2>2, <2>3, <2>4
<1> QED BY <1>1

LEMMA FinalErrorIs ==
    ASSUME NEW err \in ErrorNames \cup {None}, NEW res
    PROVE  FinalError(err, res) \in ErrorNames
<1> DEFINE searched == <<RULE, API, KB, SQL>>
           failed == {k \in DOMAIN searched : HasError(res[searched[k]])}
<1>1. failed \subseteq 1..4
  OBVIOUS
<1>2. \A k \in 1..4 : searched[k] \in ResultNodes
  BY NodesDiffer
<1> HIDE DEF searched, failed
<1>3. CASE err # None
  BY <1>3 DEF FinalError, searched, failed
<1>4. CASE err = None /\ failed = {}
  BY <1>4 DEF FinalError, ErrorNames, searched, failed
<1>5. CASE err = None /\ failed # {}
  <2> DEFINE first == CHOOSE k \in failed : \A j \in failed : k <= j
  <2>1. first \in 1..4
    BY <1>1, <1>5, FirstIsOne
  <2>2. FinalError(err, res) = searched[first]
    BY <1>5 DEF FinalError, searched, failed
  <2> HIDE DEF first
  <2> QED BY <1>2, <2>1, <2>2 DEF ErrorNames
<1> QED BY <1>3, <1>4, <1>5

\* Without results there is no sentence, and a blank sentence is one about rows.
LEMMA NothingToSay ==
    ASSUME NEW blank \in BOOLEAN, result[KB] = "none", result[SQL] = "none",
           result[API] = "none", result[RULE] = "none"
    PROVE  Sentences(blank) = {}
<1> DEFINE rowsTold == result[SQL] = "rows" /\ result[RULE] # "order"
           slaKnown == result[RULE] = "order" /\ verdict.sla # "N/A"
           escalated == slaKnown /\ verdict.role # None
           policy == result[KB] = "answer" /\ ~HasOperationalFacts
           shipment == result[API] \in Shipment
           cause == result[API] \in Cause
           ordered == result[RULE] = "order"
           rows == rowsTold /\ ~blank
           blankTold == rowsTold /\ blank
           said == [order |-> ordered, rows |-> rows, blank |-> blankTold,
                    shipment |-> shipment, cause |-> cause,
                    sla |-> slaKnown, escalated |-> escalated, policy |-> policy]
<1>1. /\ ordered = FALSE /\ rows = FALSE /\ blankTold = FALSE /\ slaKnown = FALSE
      /\ escalated = FALSE /\ policy = FALSE
  OBVIOUS
<1>2. shipment = FALSE /\ cause = FALSE
  BY DEF Shipment, Cause
<1>3. Sentences(blank) = {s \in DOMAIN said : said[s]}
  BY Zenon DEF Sentences
<1> HIDE DEF ordered, rows, blankTold, slaKnown, escalated, policy, shipment, cause
<1>4. \A s \in DOMAIN said : said[s] = FALSE
  <2>1. said = [order |-> FALSE, rows |-> FALSE, blank |-> FALSE, shipment |-> FALSE, cause |-> FALSE,
                sla |-> FALSE, escalated |-> FALSE, policy |-> FALSE]
    BY <1>1, <1>2
  <2> HIDE DEF said
  <2> QED BY <2>1
<1> HIDE DEF said
<1> QED BY <1>3, <1>4

LEMMA BlankIsRows ==
    ASSUME NEW blank \in BOOLEAN, "blank" \in Sentences(blank)
    PROVE  result[SQL] = "rows"
  BY DEF Sentences

LEMMA FinalResponseAgentInv == Inv /\ FinalResponseAgent => Inv'
<1> SUFFICES ASSUME TypeOK, RouteInv, BudgetInv, AskedInv, ErrorInv, FinalResponseAgent PROVE Inv'
  BY DEF Inv
<1>0. /\ at = FINAL /\ trace' = Append(trace, FINAL) /\ query' = query /\ intent' = intent
      /\ result' = result /\ verdict' = verdict /\ retry' = retry /\ resent' = resent
      /\ kbAsked' = kbAsked /\ at' = "END"
      /\ error' = IF answer' = {} THEN FinalError(error, result) ELSE error
  BY DEF FinalResponseAgent, Visit
<1> PICK blank \in BOOLEAN : answer' = Sentences(blank)
  BY DEF FinalResponseAgent
<1>1. trace = Before(intent, FINAL) /\ intent \in Intents \cup {None}
  BY <1>0, NodesDiffer DEF RouteInv, TypeOK
<1>2. error \in ErrorNames \cup {None}
  BY DEF TypeOK
<1>3. FinalError(error, result) \in ErrorNames
  BY <1>2, FinalErrorIs
<1>4. TypeOK'
  <2>1. error' \in ErrorNames \cup {None}
    BY <1>0, <1>2, <1>3
  <2>2. answer' \subseteq {"order", "rows", "blank", "shipment", "cause", "sla", "escalated", "policy"}
    BY DEF Sentences
  <2>3. trace' \in Seq(Nodes) /\ at' \in Nodes \cup {"END", "CRASHED"}
    BY <1>0, NodesDiffer DEF TypeOK
  <2> QED BY <1>0, <2>1, <2>2, <2>3 DEF TypeOK
<1>5. RouteInv'
  <2>1. trace' = Before(intent, "END")
    BY <1>0, <1>1, OnWithRoute
  <2>2. Filled(intent, "END") = Filled(intent, FINAL)
    BY NodesDiffer DEF Filled
  <2>3. \A m \in ResultNodes : result[m] # "none" <=> m \in Filled(intent, FINAL)
    BY <1>0, NodesDiffer DEF RouteInv
  <2>4. "END" \notin Nodes /\ "END" # "CRASHED" /\ {Supervisor, ERR, KB, SQL, API, RULE} \subseteq Nodes
    BY NodesDiffer
  <2> QED BY <1>0, <2>1, <2>2, <2>3, <2>4 DEF RouteInv
<1>6. BudgetInv'
  BY <1>0 DEF BudgetInv, SharedRetryBudget
<1>7. AskedInv'
  BY <1>0 DEF AskedInv, CauseAsked
<1>8. ErrorInv'
  <2>1. FinalError(error, result) # None
    BY <1>3, NamesAre
  <2>2. error # None => answer' = {}
    <3> SUFFICES ASSUME error # None PROVE answer' = {}
      OBVIOUS
    <3>1. result[KB] = "none" /\ result[SQL] = "none" /\ result[API] = "none" /\ result[RULE] = "none"
      BY <1>0, NodesDiffer DEF ErrorInv
    <3> QED BY <3>1, NothingToSay
  <2>3. "blank" \in answer' => result'[SQL] = "rows"
    BY <1>0, BlankIsRows
  <2>4. error' # None <=> answer' = {}
    BY <1>0, <2>1, <2>2
  <2>5. at' = "END" /\ "END" \notin {KB, SQL, API, RULE}
    BY <1>0, NodesDiffer
  <2> QED BY <2>3, <2>4, <2>5 DEF ErrorInv
<1> QED BY <1>4, <1>5, <1>6, <1>7, <1>8 DEF Inv

LEMMA ErrorHandlerInv == Inv /\ ErrorHandler => Inv'
<1> SUFFICES ASSUME TypeOK, RouteInv, BudgetInv, AskedInv, ErrorInv, ErrorHandler PROVE Inv'
  BY DEF Inv
<1>0. /\ at = ERR /\ trace' = Append(trace, ERR) /\ query' = query /\ intent' = intent
      /\ result' = result /\ verdict' = verdict /\ retry' = retry /\ resent' = resent
      /\ kbAsked' = kbAsked /\ at' = FINAL /\ answer' = {}
      /\ error' = IF error = None THEN "unhandled" ELSE error
  BY DEF ErrorHandler, Visit
<1>1. /\ intent = None /\ trace = Before(None, ERR)
      /\ \A m \in ResultNodes : result[m] # "none" <=> m \in Filled(None, ERR)
  BY <1>0, NodesDiffer DEF RouteInv
<1>2. TypeOK'
  <2>1. error' \in ErrorNames \cup {None}
    BY <1>0 DEF TypeOK, ErrorNames
  <2>2. trace' \in Seq(Nodes) /\ at' \in Nodes
    BY <1>0, NodesDiffer DEF TypeOK
  <2> QED BY <1>0, <2>1, <2>2 DEF TypeOK
<1>3. RouteInv'
  <2>1. trace' = Before(None, FINAL)
    BY <1>0, <1>1, OnWithRoute
  <2>2. Filled(None, FINAL) = Filled(None, ERR)
    BY DEF Filled
  <2>3. FINAL \notin {Supervisor, ERR, KB, SQL, API, RULE, "CRASHED"}
    BY NodesDiffer
  <2> QED BY <1>0, <1>1, <2>1, <2>2, <2>3 DEF RouteInv
<1>4. BudgetInv'
  BY <1>0 DEF BudgetInv, SharedRetryBudget
<1>5. AskedInv'
  BY <1>0 DEF AskedInv, CauseAsked
<1>6. ErrorInv'
  <2>1. \A n \in ResultNodes : result'[n] = "none"
    BY <1>0, <1>1 DEF Filled
  <2>2. at' # "END" /\ answer' = {} /\ at' \notin {KB, SQL, API, RULE}
    BY <1>0, NodesDiffer
  <2> QED BY <2>1, <2>2 DEF ErrorInv
<1> QED BY <1>2, <1>3, <1>4, <1>5, <1>6 DEF Inv

LEMMA CrashInv == Inv /\ Crash => Inv'
<1> SUFFICES ASSUME Inv, Crash PROVE Inv'
  OBVIOUS
<1>0. /\ at \in Nodes /\ at' = "CRASHED" /\ query' = query /\ intent' = intent
      /\ result' = result /\ verdict' = verdict /\ retry' = retry /\ answer' = answer
      /\ error' = error /\ trace' = trace /\ resent' = resent /\ kbAsked' = kbAsked
  BY DEF Crash, run
<1>1. TypeOK'
  BY <1>0 DEF Inv, TypeOK
<1>2. RouteInv'
  <2>1. trace = Before(intent, at)
    BY <1>0, NodesDiffer DEF Inv, RouteInv
  <2>2. "CRASHED" \notin {Supervisor, ERR, KB, SQL, API, RULE}
    BY NodesDiffer
  <2> QED BY <1>0, <2>1, <2>2 DEF RouteInv
<1>3. BudgetInv'
  BY <1>0 DEF Inv, BudgetInv, SharedRetryBudget
<1>4. AskedInv'
  BY <1>0 DEF Inv, AskedInv, CauseAsked
<1>5. ErrorInv'
  <2>1. answer = {}
    BY <1>0, NodesDiffer DEF Inv, ErrorInv
  <2>2. at' = "CRASHED" /\ "CRASHED" \notin {KB, SQL, API, RULE} /\ answer' = {}
    BY <1>0, <2>1, NodesDiffer
  <2> QED BY <2>2 DEF ErrorInv
<1> QED BY <1>1, <1>2, <1>3, <1>4, <1>5 DEF Inv

LEMMA StutterInv == Inv /\ UNCHANGED vars => Inv'
<1> SUFFICES ASSUME Inv, UNCHANGED vars PROVE Inv'
  OBVIOUS
<1>0. /\ at' = at /\ query' = query /\ intent' = intent
      /\ result' = result /\ verdict' = verdict /\ retry' = retry /\ answer' = answer
      /\ error' = error /\ trace' = trace /\ resent' = resent /\ kbAsked' = kbAsked
  BY DEF vars, run
<1>1. TypeOK'
  BY <1>0 DEF Inv, TypeOK
<1>2. RouteInv'
  BY <1>0 DEF Inv, RouteInv
<1>3. BudgetInv'
  BY <1>0 DEF Inv, BudgetInv, SharedRetryBudget
<1>4. AskedInv'
  BY <1>0 DEF Inv, AskedInv, CauseAsked
<1>5. ErrorInv'
  BY <1>0 DEF Inv, ErrorInv
<1> QED BY <1>1, <1>2, <1>3, <1>4, <1>5 DEF Inv

\* The strengthening that the theorems below rest on is an invariant of every run.
THEOREM AlwaysInv == Spec => []Inv
<1>1. Init => Inv
  BY InitInv
<1>2. Inv /\ [Next]_vars => Inv'
  <2>1. Next \/ UNCHANGED vars <=>
          \/ Classify \/ KnowledgeBaseAgent \/ TextToSqlAgent \/ ApiStatusAgent
          \/ BusinessRuleAgent \/ FinalResponseAgent \/ ErrorHandler \/ Crash
          \/ UNCHANGED vars
    BY DEF Next, Done
  <2> QED BY <2>1, ClassifyInv, KnowledgeBaseAgentInv, TextToSqlAgentInv, ApiStatusAgentInv,
             BusinessRuleAgentInv, FinalResponseAgentInv, ErrorHandlerInv, CrashInv, StutterInv
<1> QED BY <1>1, <1>2, PTL DEF Spec

-----------------------------------------------------------------------------
(* What the invariant says of the properties *)

LEMMA RunsOnce == TypeOK /\ RouteInv => NoNodeTwice
<1> SUFFICES ASSUME TypeOK, RouteInv PROVE NoNodeTwice
  OBVIOUS
<1>1. intent \in Intents \cup {None} /\ at \in Nodes \cup {"END", "CRASHED"}
  BY DEF TypeOK
<1>2. \E n \in Nodes \cup {"END"} : trace = Before(intent, n)
  BY <1>1 DEF RouteInv
<1>3. Route(trace)
  BY <1>1, <1>2, RoutesAre
<1> QED BY <1>3 DEF Route, NoNodeTwice

LEMMA RunsWhatIsNeeded == TypeOK /\ RouteInv => ExactlyRequired
<1> SUFFICES ASSUME TypeOK, RouteInv, at = RULE
             PROVE  {n \in {KB, SQL, API} : result[n] # "none"} = RequiredNodes(intent)
  BY DEF ExactlyRequired
<1>1. /\ intent \in Intents /\ intent # None
      /\ \A m \in ResultNodes : result[m] # "none" <=> m \in Filled(intent, RULE)
  BY NodesDiffer DEF TypeOK, RouteInv
<1>2. Filled(intent, RULE) = Needed(intent) /\ RequiredNodes(intent) = Needed(intent)
  BY <1>1, NodesDiffer, NeededAre DEF Filled
<1>3. Needed(intent) \subseteq {KB, SQL, API} /\ {KB, SQL, API} \subseteq ResultNodes
  BY <1>1, NodesDiffer, BranchNodes, NamesAre DEF Needed
<1> QED BY <1>1, <1>2, <1>3

\* The table of response_mapper joined up: one branch in each of its places, or two.
Join(a, b, c, d, e, f) == a \o b \o c \o d \o e \o f

LEMMA TwoJoined ==
    ASSUME NEW a, NEW b, NEW c, NEW d, NEW e
    PROVE  Join(<<a>>, <<>>, <<b>>, <<c>>, <<d>>, <<e>>) = <<a, b, c, d, e>>
<1> DEFINE S == {a, b, c, d, e}
<1>1. /\ <<a>> \in Seq(S) /\ <<a, b>> \in Seq(S) /\ <<a, b, c>> \in Seq(S)
      /\ <<a, b, c, d>> \in Seq(S)
  OBVIOUS
<1>2. a \in S /\ b \in S /\ c \in S /\ d \in S /\ e \in S
  OBVIOUS
<1>3. /\ <<a, b>> = Append(<<a>>, b) /\ <<a, b, c>> = Append(<<a, b>>, c)
      /\ <<a, b, c, d>> = Append(<<a, b, c>>, d) /\ <<a, b, c, d, e>> = Append(<<a, b, c, d>>, e)
  OBVIOUS
<1> HIDE DEF S
<1>4. /\ Append(<<a>>, b) = <<a>> \o <<b>> /\ Append(<<a, b>>, c) = <<a, b>> \o <<c>>
      /\ Append(<<a, b, c>>, d) = <<a, b, c>> \o <<d>>
      /\ Append(<<a, b, c, d>>, e) = <<a, b, c, d>> \o <<e>>
  BY <1>1, <1>2, AppendIsConcat
<1>5. <<a>> \o <<>> = <<a>>
  BY <1>1, ConcatEmptySeq
<1>6. <<a>> \o <<>> \o <<b>> \o <<c>> \o <<d>> \o <<e>> = <<a, b, c, d, e>>
  BY <1>3, <1>4, <1>5, Zenon
<1> QED BY <1>6, Zenon DEF Join

LEMMA OneJoined ==
    ASSUME NEW a, NEW b, NEW c, NEW d
    PROVE  /\ Join(<<a>>, <<b>>, <<>>, <<>>, <<c>>, <<d>>) = <<a, b, c, d>>
           /\ Join(<<a>>, <<>>, <<b>>, <<>>, <<c>>, <<d>>) = <<a, b, c, d>>
           /\ Join(<<a>>, <<>>, <<>>, <<b>>, <<c>>, <<d>>) = <<a, b, c, d>>
<1> DEFINE S == {a, b, c, d}
<1>1. <<a>> \in Seq(S) /\ <<a, b>> \in Seq(S) /\ <<a, b, c>> \in Seq(S)
  OBVIOUS
<1>2. a \in S /\ b \in S /\ c \in S /\ d \in S
  OBVIOUS
<1>3. /\ <<a, b>> = Append(<<a>>, b) /\ <<a, b, c>> = Append(<<a, b>>, c)
      /\ <<a, b, c, d>> = Append(<<a, b, c>>, d)
  OBVIOUS
<1> HIDE DEF S
<1>4. /\ Append(<<a>>, b) = <<a>> \o <<b>> /\ Append(<<a, b>>, c) = <<a, b>> \o <<c>>
      /\ Append(<<a, b, c>>, d) = <<a, b, c>> \o <<d>>
  BY <1>1, <1>2, AppendIsConcat
<1>5. <<a>> \o <<>> = <<a>> /\ <<a, b>> \o <<>> = <<a, b>>
  BY <1>1, ConcatEmptySeq
<1>6. <<a>> \o <<b>> \o <<>> \o <<>> \o <<c>> \o <<d>> = <<a, b, c, d>>
  BY <1>3, <1>4, <1>5, Zenon
<1>7. <<a>> \o <<>> \o <<b>> \o <<>> \o <<c>> \o <<d>> = <<a, b, c, d>>
  BY <1>3, <1>4, <1>5, Zenon
<1>8. <<a>> \o <<>> \o <<>> \o <<b>> \o <<c>> \o <<d>> = <<a, b, c, d>>
  BY <1>3, <1>4, <1>5, Zenon
<1> QED BY <1>6, <1>7, <1>8, Zenon DEF Join

LEMMA TellsWhatRan == TypeOK /\ RouteInv => AgentsAreTrace
<1> SUFFICES ASSUME TypeOK, RouteInv, at = "END", intent # None PROVE Response.agents = trace
  BY DEF AgentsAreTrace
<1> DEFINE Ran(n) == IF result[n] # "none" THEN <<n>> ELSE <<>>
<1>1. /\ intent \in Intents /\ trace = Before(intent, "END")
      /\ \A m \in ResultNodes : result[m] # "none" <=> m \in Filled(intent, "END")
  BY NodesDiffer DEF TypeOK, RouteInv
<1>2. Filled(intent, "END") = Needed(intent) \cup {RULE}
  BY NodesDiffer DEF Filled
<1>3. \A m \in ResultNodes : Ran(m) = IF m \in Needed(intent) \cup {RULE} THEN <<m>> ELSE <<>>
  BY <1>1, <1>2
<1>4. Response.agents = Join(<<Supervisor>>, Ran(SQL), Ran(API), Ran(KB), Ran(RULE), <<FINAL>>)
  BY DEF Response, AgentsInvoked, Join
<1>5. Ran(RULE) = <<RULE>> /\ {SQL, API, KB, RULE} \subseteq ResultNodes
  BY <1>3, NodesDiffer
<1> HIDE DEF Ran
<1>6. CASE intent \in Simple
  <2> DEFINE r == RoutingNode[intent]
  <2>1. /\ Needed(intent) = {r} /\ r \in {KB, SQL, API}
        /\ trace = <<Supervisor, r, RULE, FINAL>>
    BY <1>1, <1>6, BranchNodes, NodesDiffer DEF Needed, Before
  <2> HIDE DEF r
  <2>2. \A m \in {SQL, API, KB} : Ran(m) = IF m = r THEN <<m>> ELSE <<>>
    BY <1>3, <1>5, <2>1, NodesDiffer
  <2>3. CASE r = SQL
    <3>1. Ran(SQL) = <<SQL>> /\ Ran(API) = <<>> /\ Ran(KB) = <<>>
      BY <2>2, <2>3, NodesDiffer
    <3>2. Join(<<Supervisor>>, <<SQL>>, <<>>, <<>>, <<RULE>>, <<FINAL>>)
            = <<Supervisor, SQL, RULE, FINAL>>
      BY OneJoined, Zenon
    <3> QED BY <1>4, <1>5, <2>1, <2>3, <3>1, <3>2, Zenon
  <2>4. CASE r = API
    <3>1. Ran(SQL) = <<>> /\ Ran(API) = <<API>> /\ Ran(KB) = <<>>
      BY <2>2, <2>4, NodesDiffer
    <3>2. Join(<<Supervisor>>, <<>>, <<API>>, <<>>, <<RULE>>, <<FINAL>>)
            = <<Supervisor, API, RULE, FINAL>>
      BY OneJoined, Zenon
    <3> QED BY <1>4, <1>5, <2>1, <2>4, <3>1, <3>2, Zenon
  <2>5. CASE r = KB
    <3>1. Ran(SQL) = <<>> /\ Ran(API) = <<>> /\ Ran(KB) = <<KB>>
      BY <2>2, <2>5, NodesDiffer
    <3>2. Join(<<Supervisor>>, <<>>, <<>>, <<KB>>, <<RULE>>, <<FINAL>>)
            = <<Supervisor, KB, RULE, FINAL>>
      BY OneJoined, Zenon
    <3> QED BY <1>4, <1>5, <2>1, <2>5, <3>1, <3>2, Zenon
  <2> QED BY <2>1, <2>3, <2>4, <2>5
<1>7. CASE intent = "sla_check"
  <2>1. Needed(intent) = {API} /\ trace = <<Supervisor, API, RULE, FINAL>>
    BY <1>1, <1>7, BranchNodes, NodesDiffer DEF Needed, Before
  <2>2. Ran(SQL) = <<>> /\ Ran(API) = <<API>> /\ Ran(KB) = <<>>
    BY <1>3, <1>5, <2>1, NodesDiffer
  <2>3. Join(<<Supervisor>>, <<>>, <<API>>, <<>>, <<RULE>>, <<FINAL>>)
          = <<Supervisor, API, RULE, FINAL>>
    BY OneJoined, Zenon
  <2> QED BY <1>4, <1>5, <2>1, <2>2, <2>3, Zenon
<1>8. CASE intent = "delay_analysis"
  <2>1. Needed(intent) = {API, KB} /\ trace = <<Supervisor, API, KB, RULE, FINAL>>
    BY <1>1, <1>8, BranchNodes, NodesDiffer DEF Needed, Before
  <2>2. Ran(SQL) = <<>> /\ Ran(API) = <<API>> /\ Ran(KB) = <<KB>>
    BY <1>3, <1>5, <2>1, NodesDiffer
  <2>3. Join(<<Supervisor>>, <<>>, <<API>>, <<KB>>, <<RULE>>, <<FINAL>>)
          = <<Supervisor, API, KB, RULE, FINAL>>
    BY TwoJoined, Zenon
  <2> QED BY <1>4, <1>5, <2>1, <2>2, <2>3, Zenon
<1> QED BY <1>1, <1>6, <1>7, <1>8, NamesAre

LEMMA FirstErrorIs ==
    /\ (\E n \in ResultNodes : result[n] = "error") => FirstError \in ResultNodes
    /\ FirstError \in ResultNodes \cup {error}
    /\ (\A n \in ResultNodes : ~HasError(result[n])) => FirstError = error
<1> DEFINE searched == <<KB, SQL, API, RULE>>
           failed == {k \in DOMAIN searched : HasError(result[searched[k]])}
<1>1. failed \subseteq 1..4
  OBVIOUS
<1>2. \A k \in 1..4 : searched[k] \in ResultNodes
  BY NodesDiffer
<1>3. (\E n \in ResultNodes : result[n] = "error") => failed # {}
  <2> SUFFICES ASSUME NEW n \in ResultNodes, result[n] = "error" PROVE failed # {}
    OBVIOUS
  <2>1. HasError(result[n])
    BY DEF HasError
  <2>2. DOMAIN searched = 1..4 /\ searched[1] = KB /\ searched[2] = SQL /\ searched[3] = API /\ searched[4] = RULE
    OBVIOUS
  <2> HIDE DEF searched
  <2>3. \E k \in DOMAIN searched : searched[k] = n
    BY <2>2, NodesDiffer
  <2> QED BY <2>1, <2>3
<1>6. (\A n \in ResultNodes : ~HasError(result[n])) => failed = {}
  BY <1>2
<1> HIDE DEF searched, failed
<1>4. CASE failed = {}
  <2>1. FirstError = error
    BY <1>4 DEF FirstError, searched, failed
  <2> QED BY <1>3, <1>4, <2>1
<1>5. CASE failed # {}
  <2> DEFINE first == CHOOSE k \in failed : \A j \in failed : k <= j
  <2>1. first \in 1..4
    BY <1>1, <1>5, FirstIsOne
  <2>2. FirstError = searched[first]
    BY <1>5 DEF FirstError, searched, failed
  <2> HIDE DEF first
  <2> QED BY <1>2, <1>5, <1>6, <2>1, <2>2
<1> QED BY <1>4, <1>5

LEMMA TellsItsShortfall == ErrorInv => ShortfallIsTold
<1> SUFFICES ASSUME ErrorInv PROVE FailureIsPartial /\ FallbackIsPartial /\ SuccessIsWhole
  BY DEF ShortfallIsTold
<1>1. Response.partial <=> FirstError # None
  BY DEF Response
<1>2. None \notin ResultNodes
  BY NamesAre DEF ErrorNames
<1>3. FailureIsPartial
  <2> SUFFICES ASSUME \E n \in ResultNodes : result[n] = "error" PROVE Response.partial
    BY DEF FailureIsPartial
  <2>1. FirstError \in ResultNodes
    BY FirstErrorIs
  <2> QED BY <1>1, <1>2, <2>1
<1>4. Response.answer = answer \ {"blank"}
  BY DEF Response, Prose
<1>5. FallbackIsPartial
  <2> SUFFICES ASSUME at = "END", Response.answer = {}, result[SQL] # "rows" PROVE Response.partial
    BY DEF FallbackIsPartial
  <2>1. "blank" \notin answer
    BY DEF ErrorInv
  <2>2. answer = {}
    BY <1>4, <2>1
  <2>3. error # None
    BY <2>2 DEF ErrorInv
  <2> QED BY <1>1, <1>2, <2>3, FirstErrorIs
<1>6. SuccessIsWhole
  <2> SUFFICES ASSUME at = "END", Response.answer # {},
                      \A n \in ResultNodes : ~HasError(result[n])
               PROVE  ~Response.partial
    BY DEF SuccessIsWhole
  <2>1. answer # {}
    BY <1>4
  <2>2. error = None
    BY <2>1 DEF ErrorInv
  <2>3. FirstError = error
    BY FirstErrorIs
  <2> QED BY <1>1, <2>2, <2>3
<1> QED BY <1>3, <1>5, <1>6

-----------------------------------------------------------------------------
(* The theorems *)

\* Every run keeps its state in its types: each result field holds only what the node that sets
\* it may return, and an order in rule_result comes with a verdict of the rule engine.
THEOREM TypeCorrect == Spec => []TypeOK
<1>1. Inv => TypeOK
  BY DEF Inv
<1> QED BY <1>1, AlwaysInv, PTL

\* Whatever is asked and whatever fails, a run asks the sources of its intent in turn, each once,
\* the audit log is told which, and every node but api_status_agent stays within one retry budget
\* (ai/graph/routing.py, nodes.py, ai_service/response_mapper.py).
THEOREM RunsAreAccountable == Spec => []RunIsAccountable
<1>1. Inv => RunIsAccountable
  BY RunsOnce, RunsWhatIsNeeded, TellsWhatRan
     DEF Inv, AskedInv, BudgetInv, RunIsAccountable, SourcesInTurn
<1> QED BY <1>1, AlwaysInv, PTL

\* Whatever fails, a response that lacks a source is partial, the fallback is too unless the
\* database gave rows, and a run that answers while no source reports an error is not
\* (ai/graph/nodes.py, ai_service/response_mapper.py).
THEOREM ShortfallsAreTold == Spec => []ShortfallIsTold
<1>1. Inv => ShortfallIsTold
  BY TellsItsShortfall DEF Inv
<1> QED BY <1>1, AlwaysInv, PTL

-----------------------------------------------------------------------------
(* The MCP client, for any number of threads, connections and calls *)

\* What has ended or been closed is behind the caller: an old connection has failed, and a
\* failed one can never become usable, because its handshake is over.
Replaced == \A c \in 1..made : c # current => Failed(c)

ReadyIsOver == \A c \in Conns : conn[c].ready <=> conn[c].loop \in {"open", "ended"}

\* A call in flight was submitted over a connection whose handshake had succeeded.
CallersAreReady == \A t \in Threads : pc[t] \in {"ready", "inFlight"} => conn[using[t]].ready

FailedOverFailed == \A c \in failedOver : Failed(c)

\* A loop is told to end only after its connection was taken out of use.
ClosedIsFailed == \A c \in Conns : conn[c].shutdown => Failed(c)

McpInv ==
    /\ McpTypeOK /\ DeadIsFailed /\ Replaced /\ ReadyIsOver
    /\ ClosedIsFailed /\ CallersAreReady /\ FailedOverFailed

\* The initial state satisfies the invariant: there is no connection.
LEMMA McpInitInv == McpInit => McpInv
<1> SUFFICES ASSUME McpInit PROVE McpInv
  OBVIOUS
<1>0. /\ Absent \in Connection /\ Absent.loop = "absent"
      /\ ~Absent.ready /\ ~Absent.session /\ ~Absent.shutdown
  BY DEF Absent, New, Connection
<1>1. \A c \in Conns : conn[c] = Absent
  BY DEF McpInit
<1>2. conn \in [Conns -> Connection]
  BY <1>0 DEF McpInit
<1>3. McpTypeOK
  BY <1>0, <1>1, <1>2, BoundsAssumption DEF McpInit, McpTypeOK, Conns
<1>4. DeadIsFailed /\ Replaced /\ ReadyIsOver /\ ClosedIsFailed
  BY <1>0, <1>1 DEF McpInit, Conns, DeadIsFailed, Replaced, ReadyIsOver, ClosedIsFailed
<1>5. CallersAreReady /\ FailedOverFailed
  BY DEF McpInit, CallersAreReady, FailedOverFailed
<1> QED
  BY <1>3, <1>4, <1>5 DEF McpInv

\* A thread's step that leaves the connections alone keeps the invariant if the thread goes
\* on only over a connection that is ready.
LEMMA QuietStep ==
    ASSUME McpInv,
           conn' = conn, current' = current, made' = made, using' = using,
           failedOver' = failedOver, calls' = calls,
           NEW t \in Threads, NEW place \in {"idle", "ready", "inFlight"},
           NEW fate \in {"none", "pending", "answered", "raised"},
           pc[t] # "idle",
           pc' = [pc EXCEPT ![t] = place], future' = [future EXCEPT ![t] = fate],
           fate # "none" <=> place = "inFlight",
           place # "idle" => conn[using[t]].ready
    PROVE  McpInv'
<1>1. McpTypeOK'
  <2>1. /\ \A s \in Threads : pc'[s] # "idle" => using'[s] \in 1..made'
        /\ \A s \in Threads : future'[s] # "none" <=> pc'[s] = "inFlight"
    BY DEF McpInv, McpTypeOK
  <2> QED
    BY <2>1 DEF McpInv, McpTypeOK
<1>2. DeadIsFailed' /\ Replaced' /\ ReadyIsOver' /\ ClosedIsFailed' /\ FailedOverFailed'
  BY DEF McpInv, DeadIsFailed, Replaced, ReadyIsOver, ClosedIsFailed, FailedOverFailed, Failed
<1>3. CallersAreReady'
  BY DEF McpInv, McpTypeOK, CallersAreReady
<1> QED
  BY <1>1, <1>2, <1>3 DEF McpInv

\* A step that changes connection c1 only, for a connection that exists, and fails no more than
\* it: loop steps, and the close after a failed call.
LEMMA ConnStep ==
    ASSUME McpInv, NEW c1 \in 1..made, NEW k \in Connection,
           conn' = [conn EXCEPT ![c1] = k], current' = current, made' = made,
           k.loop # "absent",
           k.session => k.ready /\ k.loop = "open",
           k.ready <=> k.loop \in {"open", "ended"},
           k.shutdown => k.ready /\ ~k.session,
           Failed(c1) => ~k.session,
           conn[c1].ready => k.ready
    PROVE  /\ conn' \in [Conns -> Connection]
           /\ \A c \in Conns :
                /\ conn'[c].loop = "absent" <=> c > made'
                /\ conn'[c].session => conn'[c].ready /\ conn'[c].loop = "open"
           /\ DeadIsFailed' /\ Replaced' /\ ReadyIsOver' /\ ClosedIsFailed'
           /\ \A c \in Conns : (Failed(c) => Failed(c)') /\ (conn[c].ready => conn'[c].ready)
<1>1. c1 \in Conns /\ conn' \in [Conns -> Connection] /\ conn'[c1] = k
  BY BoundsAssumption DEF McpInv, McpTypeOK, Conns
<1>2. \A c \in Conns \ {c1} : conn'[c] = conn[c]
  BY DEF McpInv, McpTypeOK
<1>3. \A c \in Conns : (Failed(c) => Failed(c)') /\ (conn[c].ready => conn'[c].ready)
  BY <1>1, <1>2 DEF Failed
<1>4. \A c \in Conns :
         /\ conn'[c].loop = "absent" <=> c > made'
         /\ conn'[c].session => conn'[c].ready /\ conn'[c].loop = "open"
  <2> SUFFICES ASSUME NEW c \in Conns
               PROVE  /\ conn'[c].loop = "absent" <=> c > made'
                      /\ conn'[c].session => conn'[c].ready /\ conn'[c].loop = "open"
    OBVIOUS
  <2>1. CASE c = c1
    BY <2>1, <1>1, BoundsAssumption DEF McpInv, McpTypeOK
  <2>2. CASE c # c1
    BY <2>2, <1>2 DEF McpInv, McpTypeOK
  <2> QED
    BY <2>1, <2>2
<1>5. ReadyIsOver'
  BY <1>1, <1>2 DEF McpInv, ReadyIsOver
<1>6. DeadIsFailed'
  BY <1>4, <1>5, <1>1 DEF DeadIsFailed, ReadyIsOver, Failed
<1>7. Replaced'
  BY <1>3, BoundsAssumption DEF McpInv, McpTypeOK, Replaced, Conns
<1>8. ClosedIsFailed'
  BY <1>1, <1>2 DEF McpInv, ClosedIsFailed, Failed
<1> QED
  BY <1>1, <1>3, <1>4, <1>5, <1>6, <1>7, <1>8

\* A step of an event loop keeps the invariant.
LEMMA LoopInv == ASSUME McpInv, NEW c1 \in Conns, Loop(c1) PROVE McpInv'
<1> DEFINE Keeps(k) == /\ k \in Connection /\ k.loop # "absent"
                       /\ k.session => k.ready /\ k.loop = "open"
                       /\ k.ready <=> k.loop \in {"open", "ended"}
                       /\ k.shutdown => k.ready /\ ~k.session
                       /\ Failed(c1) => ~k.session
                       /\ conn[c1].ready => k.ready
<1>0. /\ conn[c1] \in Connection
      /\ conn[c1].ready <=> conn[c1].loop \in {"open", "ended"}
      /\ conn[c1].shutdown => conn[c1].ready /\ ~conn[c1].session
  BY DEF McpInv, McpTypeOK, ReadyIsOver, ClosedIsFailed, Failed
<1>1. PICK k : /\ Keeps(k) /\ conn[c1].loop # "absent"
               /\ conn' = [conn EXCEPT ![c1] = k]
               /\ UNCHANGED <<current, made, pc, using, future, calls, failedOver>>
  <2>1. CASE Connected(c1)
    <3> DEFINE k == [conn[c1] EXCEPT !.loop = "open", !.session = TRUE, !.ready = TRUE]
    <3>1. Keeps(k)
      BY <1>0, <2>1 DEF Connected, LoopStep, Connection, Failed
    <3> QED
      BY <2>1, <3>1 DEF Connected, LoopStep
  <2>2. CASE HandshakeFails(c1) \/ StreamBreaks(c1)
    <3>1. Keeps(AfterException(conn[c1]))
      BY <1>0, <2>2 DEF AfterException, Connection
    <3> QED
      BY <2>2, <3>1 DEF HandshakeFails, StreamBreaks, LoopStep
  <2>3. CASE ShutDown(c1)
    <3> DEFINE k == [conn[c1] EXCEPT !.loop = "ended"]
    <3>1. Keeps(k)
      BY <1>0, <2>3 DEF ShutDown, LoopStep, Connection
    <3> QED
      BY <2>3, <3>1 DEF ShutDown, LoopStep
  <2> QED
    BY <2>1, <2>2, <2>3 DEF Loop
<1>2. c1 \in 1..made
  BY <1>1, BoundsAssumption DEF McpInv, McpTypeOK, Conns
<1>3. /\ conn' \in [Conns -> Connection]
      /\ \A c \in Conns :
           /\ conn'[c].loop = "absent" <=> c > made'
           /\ conn'[c].session => conn'[c].ready /\ conn'[c].loop = "open"
      /\ DeadIsFailed' /\ Replaced' /\ ReadyIsOver' /\ ClosedIsFailed'
      /\ \A c \in Conns : (Failed(c) => Failed(c)') /\ (conn[c].ready => conn'[c].ready)
  BY <1>1, <1>2, ConnStep
<1>4. McpTypeOK'
  BY <1>1, <1>3 DEF McpInv, McpTypeOK
<1>5. CallersAreReady' /\ FailedOverFailed'
  BY <1>1, <1>3, BoundsAssumption
  DEF McpInv, McpTypeOK, CallersAreReady, FailedOverFailed, Conns
<1> QED
  BY <1>3, <1>4, <1>5 DEF McpInv

\* Making a connection when there is none that works, or taking the current one, keeps the
\* invariant.
LEMMA GetConnectionInv == ASSUME McpInv, NEW t \in Threads, GetConnection(t) PROVE McpInv'
<1>1. CASE NeedsNew(current)
  <2>1. /\ made' = made + 1 /\ made' \in Conns /\ current' = made'
        /\ conn' = [conn EXCEPT ![made'] = New]
    BY <1>1, BoundsAssumption DEF GetConnection, McpInv, McpTypeOK, Conns
  <2>2. New \in Connection /\ ~New.ready /\ ~New.session /\ ~New.shutdown /\ New.loop = "handshake"
    BY DEF New, Connection
  <2>3. conn'[made'] = New /\ \A c \in Conns \ {made'} : conn'[c] = conn[c]
    BY <2>1 DEF McpInv, McpTypeOK
  <2>4. \A c \in 1..made : Failed(c)
    BY <1>1, BoundsAssumption DEF NeedsNew, McpInv, McpTypeOK, Replaced
  <2>5. \A c \in Conns : (Failed(c) => Failed(c)') /\ (conn[c].ready => conn'[c].ready)
    <3>1. ~conn[made'].ready
      <4>1. conn[made'].loop = "absent"
        BY <2>1, BoundsAssumption DEF McpInv, McpTypeOK
      <4> QED
        BY <2>1, <4>1 DEF McpInv, ReadyIsOver
    <3> QED
      BY <2>3, <3>1 DEF Failed
  <2>6. Replaced' /\ DeadIsFailed' /\ ReadyIsOver' /\ ClosedIsFailed'
    <3>1. Replaced'
      BY <2>1, <2>4, <2>5, BoundsAssumption DEF Replaced, McpInv, McpTypeOK, Conns
    <3>2. DeadIsFailed' /\ ReadyIsOver' /\ ClosedIsFailed'
      BY <2>1, <2>2, <2>3 DEF McpInv, DeadIsFailed, ReadyIsOver, ClosedIsFailed, Failed
    <3> QED
      BY <3>1, <3>2
  <2>7. McpTypeOK'
    <3>1. conn' \in [Conns -> Connection]
      BY <2>1, <2>2 DEF McpInv, McpTypeOK
    <3>2. \A c \in Conns : /\ conn'[c].loop = "absent" <=> c > made'
                           /\ conn'[c].session => conn'[c].ready /\ conn'[c].loop = "open"
      BY <2>1, <2>2, <2>3, BoundsAssumption DEF McpInv, McpTypeOK, Conns
    <3>3. current' = made' /\ made' \in 0..MaxConns
      BY <2>1, BoundsAssumption DEF Conns
    <3>4. /\ using' \in [Threads -> 0..MaxConns]
          /\ \A s \in Threads : pc'[s] # "idle" => using'[s] \in 1..made'
      BY <2>1, BoundsAssumption DEF GetConnection, McpInv, McpTypeOK, Conns
    <3>5. /\ pc' \in [Threads -> {"idle", "waitReady", "ready", "inFlight", "closing"}]
          /\ future' \in [Threads -> {"none", "pending", "answered", "raised"}]
          /\ \A s \in Threads : future'[s] # "none" <=> pc'[s] = "inFlight"
          /\ calls' \in [Threads -> 0..MaxCalls]
          /\ failedOver' \subseteq Conns
      BY BoundsAssumption DEF GetConnection, McpInv, McpTypeOK
    <3> QED
      BY <3>1, <3>2, <3>3, <3>4, <3>5 DEF McpTypeOK
  <2>8. CallersAreReady' /\ FailedOverFailed'
    <3>1. ASSUME NEW s \in Threads, pc'[s] \in {"ready", "inFlight"} PROVE conn'[using'[s]].ready
      <4>1. /\ pc[s] \in {"ready", "inFlight"} /\ using'[s] = using[s]
            /\ using[s] \in 1..made /\ made \in 0..MaxConns
        BY <3>1 DEF GetConnection, McpInv, McpTypeOK
      <4>2. using[s] \in Conns
        BY <4>1, BoundsAssumption DEF Conns
      <4> QED
        BY <2>5, <4>1, <4>2 DEF McpInv, CallersAreReady
    <3>2. FailedOverFailed'
      BY <2>5 DEF GetConnection, McpInv, McpTypeOK, FailedOverFailed
    <3> QED
      BY <3>1, <3>2 DEF CallersAreReady
  <2> QED
    BY <2>6, <2>7, <2>8 DEF McpInv
<1>2. CASE ~NeedsNew(current)
  <2>1. current \in 1..made
    BY <1>2, BoundsAssumption DEF NeedsNew, McpInv, McpTypeOK
  <2>2. McpTypeOK'
    BY <1>2, <2>1, BoundsAssumption DEF GetConnection, McpInv, McpTypeOK
  <2>3. /\ DeadIsFailed' /\ Replaced' /\ ReadyIsOver' /\ ClosedIsFailed'
        /\ CallersAreReady' /\ FailedOverFailed'
    BY <1>2 DEF GetConnection, McpInv, McpTypeOK, DeadIsFailed, Replaced, ReadyIsOver, ClosedIsFailed,
                CallersAreReady, FailedOverFailed, Failed
  <2> QED
    BY <2>2, <2>3 DEF McpInv
<1> QED
  BY <1>1, <1>2

\* A failed call closes its own connection, which had been ready: it has failed from then on.
LEMMA CallFailsInv == ASSUME McpInv, NEW t \in Threads, CallFails(t) PROVE McpInv'
<1> DEFINE c1 == using[t]
           k == Closed(conn[c1])
<1>1. /\ c1 \in 1..made /\ c1 \in Conns /\ conn[c1] \in Connection /\ conn[c1].ready
      /\ conn' = [conn EXCEPT ![c1] = k]
  BY BoundsAssumption DEF CallFails, Closes, McpInv, McpTypeOK, CallersAreReady, Conns
<1>2. /\ k \in Connection /\ k.loop = conn[c1].loop /\ k.ready /\ ~k.session
      /\ k.ready = conn[c1].ready
  BY <1>1 DEF Closed, Connection
<1>3. /\ conn' \in [Conns -> Connection]
      /\ \A c \in Conns :
           /\ conn'[c].loop = "absent" <=> c > made'
           /\ conn'[c].session => conn'[c].ready /\ conn'[c].loop = "open"
      /\ DeadIsFailed' /\ Replaced' /\ ReadyIsOver' /\ ClosedIsFailed'
      /\ \A c \in Conns : (Failed(c) => Failed(c)') /\ (conn[c].ready => conn'[c].ready)
  <2>1. k.loop # "absent" /\ (k.ready <=> k.loop \in {"open", "ended"})
    BY <1>1, <1>2 DEF McpInv, ReadyIsOver
  <2>2. current' = current /\ made' = made
    BY DEF CallFails
  <2> HIDE DEF k
  <2> QED
    BY <1>1, <1>2, <2>1, <2>2, ConnStep
<1>4. Failed(c1)'
  BY <1>1, <1>2 DEF Failed, McpInv, McpTypeOK, CallFails
<1>5. McpTypeOK'
  BY <1>1, <1>3 DEF CallFails, McpInv, McpTypeOK
<1>6. CallersAreReady' /\ FailedOverFailed'
  BY <1>1, <1>3, <1>4, BoundsAssumption
  DEF CallFails, McpInv, McpTypeOK, CallersAreReady, FailedOverFailed, Conns
<1> QED
  BY <1>3, <1>5, <1>6 DEF McpInv

\* The invariant is inductive.
LEMMA StepInv == McpInv /\ [McpNext]_mcpVars => McpInv'
<1> SUFFICES ASSUME McpInv, [McpNext]_mcpVars PROVE McpInv'
  OBVIOUS
<1>1. CASE UNCHANGED mcpVars
  BY <1>1 DEF mcpVars, McpInv, McpTypeOK, DeadIsFailed, Replaced, ReadyIsOver, ClosedIsFailed,
              CallersAreReady, FailedOverFailed, Failed
<1>2. ASSUME NEW t \in Threads, Step(t) PROVE McpInv'
  <2>1. CASE GetConnection(t)
    BY <2>1, GetConnectionInv
  <2>2. CASE Ready(t)
    <3>1. pc[t] # "idle" /\ future[t] = "none" /\ future' = [future EXCEPT ![t] = "none"]
      BY <2>2 DEF Ready, McpInv, McpTypeOK
    <3>2. PICK place \in {"ready", "idle"} : pc' = [pc EXCEPT ![t] = place]
      BY <2>2 DEF Ready
    <3> QED
      BY <2>2, <3>1, <3>2, QuietStep DEF Ready
  <2>3. CASE GiveUpWaiting(t)
    <3>1. pc[t] # "idle" /\ future[t] = "none" /\ future' = [future EXCEPT ![t] = "none"]
      BY <2>3 DEF GiveUpWaiting, McpInv, McpTypeOK
    <3> QED
      BY <2>3, <3>1, QuietStep DEF GiveUpWaiting
  <2>4. CASE Submit(t)
    <3>1. pc[t] # "idle" /\ conn[using[t]].ready /\ future[t] = "none"
      BY <2>4 DEF Submit, McpInv, McpTypeOK, CallersAreReady
    <3>2. CASE conn[using[t]].session
      BY <2>4, <3>1, <3>2, QuietStep DEF Submit
    <3>3. CASE ~conn[using[t]].session
      <4>1. future' = [future EXCEPT ![t] = "none"]
        BY <2>4, <3>1, <3>3 DEF Submit, McpInv, McpTypeOK
      <4> QED
        BY <2>4, <3>1, <3>3, <4>1, QuietStep DEF Submit
    <3> QED
      BY <3>2, <3>3
  <2>5. CASE ReturnResult(t)
    <3>1. pc[t] # "idle"
      BY <2>5 DEF ReturnResult, McpInv, McpTypeOK
    <3> QED
      BY <2>5, <3>1, QuietStep DEF ReturnResult
  <2>6. CASE CallFails(t)
    BY <2>6, CallFailsInv
  <2>7. CASE Joined(t)
    <3>1. pc[t] # "idle" /\ future[t] = "none" /\ future' = [future EXCEPT ![t] = "none"]
      BY <2>7 DEF Joined, McpInv, McpTypeOK
    <3> QED
      BY <2>7, <3>1, QuietStep DEF Joined
  <2> QED
    BY <1>2, <2>1, <2>2, <2>3, <2>4, <2>5, <2>6, <2>7 DEF Step
<1>3. ASSUME NEW t \in Threads, Complete(t) PROVE McpInv'
  <2>1. /\ pc[t] = "inFlight" /\ pc' = [pc EXCEPT ![t] = "inFlight"]
        /\ conn[using[t]].ready
    BY <1>3 DEF Complete, McpInv, McpTypeOK, CallersAreReady
  <2>2. PICK fate \in {"answered", "raised"} : future' = [future EXCEPT ![t] = fate]
    BY <1>3 DEF Complete
  <2> QED
    BY <1>3, <2>1, <2>2, QuietStep DEF Complete
<1> QED
  BY <1>1, <1>2, <1>3, LoopInv DEF McpNext

\* Everything below follows from it.
LEMMA McpAlwaysInv == McpSpec => []McpInv
  BY McpInitInv, StepInv, PTL DEF McpSpec

\* Every variable keeps its type, and a session is there only while its loop is open.
THEOREM McpTypeCorrect == McpSpec => []McpTypeOK
<1>1. McpInv => McpTypeOK
  BY DEF McpInv
<1> QED
  BY <1>1, McpAlwaysInv, PTL

\* At no time are there two connections of which both may still work.
LEMMA ConnectionIsUnique == McpSpec => []OneConnection
<1>1. McpInv => OneConnection
  BY DEF McpInv, Replaced, OneConnection
<1> QED
  BY <1>1, McpAlwaysInv, PTL

\* A dead connection is known to be dead.
LEMMA DeadIsKnown == McpSpec => []DeadIsFailed
<1>1. McpInv => DeadIsFailed
  BY DEF McpInv
<1> QED
  BY <1>1, McpAlwaysInv, PTL

\* There is one connection that may work, and one that cannot is known to be dead.
THEOREM ConnectionIsLive == McpSpec => []OneLiveConnection
<1>1. OneConnection /\ DeadIsFailed => OneLiveConnection
  BY DEF OneLiveConnection
<1> QED
  BY <1>1, ConnectionIsUnique, DeadIsKnown, PTL

\* Nobody is handed a connection over which a call has failed.
THEOREM FailedIsNeverReused == McpSpec => FailedNeverReused
<1> DEFINE Fresh == \A t \in Threads :
                      pc[t] = "idle" /\ pc'[t] = "waitReady" => using'[t] \notin failedOver
<1>1. McpInv /\ [McpNext]_mcpVars => [Fresh]_mcpVars
  <2> SUFFICES ASSUME McpInv, McpNext,
                      NEW t \in Threads, pc[t] = "idle", pc'[t] = "waitReady"
               PROVE  using'[t] \notin failedOver
    BY DEF mcpVars
  <2>1. GetConnection(t)
    <3>1. ASSUME NEW s \in Threads, Step(s) \/ Complete(s) PROVE GetConnection(t)
      <4>1. pc' # pc
        BY DEF McpInv, McpTypeOK
      <4>2. CASE GetConnection(s)
        BY <4>2 DEF GetConnection, McpInv, McpTypeOK
      <4>3. CASE Ready(s) \/ GiveUpWaiting(s) \/ Submit(s) \/ ReturnResult(s) \/ CallFails(s) \/ Joined(s)
        BY <4>3 DEF Ready, GiveUpWaiting, Submit, ReturnResult, CallFails, Joined, McpInv, McpTypeOK
      <4>4. ~Complete(s)
        BY <4>1 DEF Complete
      <4> QED
        BY <3>1, <4>2, <4>3, <4>4 DEF Step
    <3>2. ASSUME NEW c \in Conns, Loop(c) PROVE FALSE
      BY <3>2 DEF Loop, Connected, HandshakeFails, StreamBreaks, ShutDown, LoopStep
    <3> QED
      BY <3>1, <3>2 DEF McpNext
  <2>2. CASE NeedsNew(current)
    <3>1. using'[t] = made + 1
      BY <2>1, <2>2 DEF GetConnection, McpInv, McpTypeOK
    <3>2. made + 1 \notin failedOver
      <4>1. made + 1 \in Conns => conn[made + 1].loop = "absent"
        BY BoundsAssumption DEF McpInv, McpTypeOK, Conns
      <4> QED
        BY <4>1 DEF McpInv, McpTypeOK, FailedOverFailed, ReadyIsOver, Failed
    <3> QED
      BY <3>1, <3>2
  <2>3. CASE ~NeedsNew(current)
    <3>1. using'[t] = current
      BY <2>1, <2>3 DEF GetConnection, McpInv, McpTypeOK
    <3> QED
      BY <3>1, <2>3 DEF NeedsNew, McpInv, FailedOverFailed
  <2> QED
    BY <2>2, <2>3
<1> QED
  BY <1>1, McpAlwaysInv, PTL DEF McpSpec, FailedNeverReused

\* One connection at a time is usable, and the one a call has failed over is replaced
\* (_get_connection, _Connection.call_tool).
THEOREM OneConnectionInUse == McpSpec => OneUsableConnection
<1> QED
  BY ConnectionIsLive, FailedIsNeverReused, PTL DEF OneUsableConnection

\* A connection that works is torn down only by a call that was made over it (CallFails, whose
\* close takes the connection of its own call): a break or a shutdown ends its loop instead.
THEOREM CallsCloseTheirOwn == McpSpec => ClosedByOwnCall
<1> DEFINE Own == \A c \in Conns : conn[c].session /\ ~conn'[c].session /\ conn'[c].loop = "open" =>
                    \E t \in Threads : using[t] = c /\ pc[t] = "inFlight" /\ pc'[t] = "closing"
<1>1. McpInv /\ [McpNext]_mcpVars => [Own]_mcpVars
  <2> SUFFICES ASSUME McpInv, McpNext, NEW c \in Conns,
                      conn[c].session, ~conn'[c].session, conn'[c].loop = "open"
               PROVE  \E t \in Threads : using[t] = c /\ pc[t] = "inFlight" /\ pc'[t] = "closing"
    BY DEF mcpVars
  <2>1. conn \in [Conns -> Connection] /\ pc \in [Threads -> {"idle", "waitReady", "ready", "inFlight", "closing"}]
    BY DEF McpInv, McpTypeOK
  <2>2. ASSUME NEW t \in Threads, CallFails(t)
        PROVE  using[t] = c /\ pc[t] = "inFlight" /\ pc'[t] = "closing"
    <3>1. conn' = [conn EXCEPT ![using[t]] = Closed(@)] /\ pc[t] = "inFlight"
          /\ pc' = [pc EXCEPT ![t] = "closing"]
      BY <2>2 DEF CallFails, Closes
    <3>2. using[t] = c
      BY <2>1, <3>1
    <3> QED
      BY <2>1, <3>1, <3>2
  <2>3. ASSUME NEW t \in Threads, GetConnection(t) PROVE FALSE
    <3>1. conn' # conn /\ conn' = [conn EXCEPT ![made + 1] = New]
      BY <2>3 DEF GetConnection
    <3>2. New.loop = "handshake"
      BY DEF New
    <3> QED
      BY <2>1, <3>1, <3>2
  <2>4. ASSUME NEW t \in Threads,
               Ready(t) \/ GiveUpWaiting(t) \/ Submit(t) \/ ReturnResult(t) \/ Joined(t) \/ Complete(t)
        PROVE  FALSE
    BY <2>4 DEF Ready, GiveUpWaiting, Submit, ReturnResult, Joined, Complete
  <2>5. ASSUME NEW d \in Conns, Loop(d) PROVE FALSE
    <3>1. PICK from, to : LoopStep(d, from, to) /\ (to.session \/ to.loop = "ended")
      <4>1. CASE Connected(d)
        <5>1. LET k == [conn[d] EXCEPT !.loop = "open", !.session = TRUE, !.ready = TRUE] IN k.session
          BY <2>1 DEF Connection
        <5> QED
          BY <4>1, <5>1 DEF Connected
      <4>2. CASE HandshakeFails(d) \/ StreamBreaks(d)
        <5>1. AfterException(conn[d]).loop = "ended"
          BY <2>1 DEF AfterException, Connection
        <5> QED
          BY <4>2, <5>1 DEF HandshakeFails, StreamBreaks
      <4>3. CASE ShutDown(d)
        <5>1. [conn[d] EXCEPT !.loop = "ended"].loop = "ended"
          BY <2>1 DEF Connection
        <5> QED
          BY <4>3, <5>1 DEF ShutDown
      <4> QED
        BY <2>5, <4>1, <4>2, <4>3 DEF Loop
    <3>2. conn' = [conn EXCEPT ![d] = to]
      BY <3>1 DEF LoopStep
    <3> QED
      BY <2>1, <3>1, <3>2
  <2> QED
    BY <2>2, <2>3, <2>4, <2>5 DEF McpNext, Step
<1> QED
  BY <1>1, McpAlwaysInv, PTL DEF McpSpec, ClosedByOwnCall
=============================================================================
