SPECIFICATION Spec
CONSTANTS
  t1 = t1
  t2 = t2
  Sessions = {t1, t2}
  Operations = {"submit", "approve", "rejectApproval", "recall", "returnToDraft", "send", "accept",
    "rejectCustomer", "create", "revise", "duplicate", "edit", "setPrimary", "delete", "changeOwner",
    "numbering"}
  InitialRows <- EveryFunnel
  Amounts = {1, 2}
  MaxRows = 4
  MaxSeries = 5
  MaxOwners = 2
  MaxStarts = 3
SYMMETRY SessionSymmetry
INVARIANTS TypeOK AmountFollows PendingUnderOwner NumbersFresh
PROPERTIES LegalTransitions
CHECK_DEADLOCK FALSE
