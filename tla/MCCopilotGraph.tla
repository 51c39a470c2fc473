--------------------------- MODULE MCCopilotGraph ---------------------------
(* Every query of at most three cues, and one order of each kind of verdict. *)
EXTENDS CopilotGraph

Questions == {q \in SUBSET Cues : Cardinality(q) <= 3}

OrderRow(tier, status, promised, revised) ==
    [tier |-> tier, status |-> status, promised |-> promised, revised |-> revised]

\* On day 0: not dispatched, on time, at risk (low and medium), breached (high, and critical by
\* its revised date), and an order of a customer without a tier.
SampleOrders ==
    {OrderRow("GOLD", "Pending", -9, None), OrderRow("GOLD", "Dispatched", 0, None),
     OrderRow("GOLD", "Delayed", -2, None), OrderRow("GOLD", "Delayed", -3, None),
     OrderRow("STANDARD", "Delayed", -4, None), OrderRow("PLATINUM", "Delayed", -1, 9),
     OrderRow(None, "Delayed", -9, None)}
=============================================================================
