------------------------- MODULE MCQuotationLifecycle -------------------------
(* Small instances of QuotationLifecycle.                                   *)
EXTENDS QuotationLifecycle, TLC

CONSTANTS t1, t2

\* The first of a funnel's two quotations is primary.
Quotation(status, version) ==
  [status |-> status, amount |-> 1, primary |-> version = 1, deleted |-> FALSE,
   series |-> 1, version |-> version, under |-> IF status = "draft" THEN 0 ELSE 1]

\* A funnel without quotations, and funnels with two.
Funnels(first, second) ==
  {<<>>} \cup {<<Quotation(a, 1), Quotation(b, 2)>> : a \in first, b \in second}

EveryFunnel ==
  Funnels({"draft", "pending_approval", "approved", "sent"}, {"pending_approval", "sent"})

SessionSymmetry == Permutations(Sessions)
=============================================================================
