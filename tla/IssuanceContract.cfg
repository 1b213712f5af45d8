\* Two concurrent requests over one contract, no service adoption.
CONSTANTS
  Requests = {r1, r2}
  Contracts = {c1}
  Settings = {s1, s2}
  ManualKeys = {k1}
  NoContract = NoContract
  MaxRevision = 2
  MaxSchedule = 1
  MaxPolicy = 0
  MaxVersion = 2
  MaxAging = 3
  MaxFaults = 1
SPECIFICATION Spec
SYMMETRY Symmetry
INVARIANTS IssuesOnce AutoFollowsReview
PROPERTIES IssuesAtomically
