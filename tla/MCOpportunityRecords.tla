------------------------ MODULE MCOpportunityRecords ------------------------
(* Small instances of OpportunityRecords.                                   *)
EXTENDS OpportunityRecords, TLC

CONSTANTS p1, p2, p3, c1, c2, c3, f1, f2, f3

\* Every field at its first value.
FirstRow ==
  [ppvvc |-> [k \in Fields |-> 0], nature |-> "none", amount |-> 0, currency |-> "MYR"]

OneFunnel == [f \in Funnels |-> IF f = f1 THEN c1 ELSE None]

NoPatch == [k \in {} |-> 0]

\* Submitted values of one PPVVC field, or of both.
OneField   == UNION {[{k} -> Grades] : k \in Fields}
BothFields == [Fields -> {1}]

Change(patch, nature, amount, currency) ==
  [patch |-> patch, nature |-> nature, amount |-> amount, currency |-> currency]

\* Edits of PPVVC, of the amount, of the currency, of the nature.
PpvvcEdits  == {Change(d, Unset, Unset, Unset) : d \in OneField \cup BothFields}
AmountEdits == {Change(NoPatch, Unset, a, Unset) : a \in Amounts}
MoneyEdits  == AmountEdits \cup {Change(NoPatch, Unset, Unset, k) : k \in Currencies}
MovingEdits == MoneyEdits \cup PpvvcEdits
NatureEdits == {Change(NoPatch, n, Unset, Unset) : n \in Natures}
FormEdits   == PpvvcEdits \cup NatureEdits

\* A Funnel under c1, and one with an Opportunity of its own.
Creation(c, grade, amount, currency) ==
  [opp |-> c,
   values |-> [FirstRow EXCEPT !.ppvvc = [k \in Fields |-> grade],
                               !.amount = amount, !.currency = currency]]

Additions == {Creation(c1, 0, 1, "MYR")}
Openings  == {Creation(None, 1, 1, "MYR")}
Both      == Additions \cup Openings

SessionSymmetry == Permutations(Sessions)
=============================================================================
