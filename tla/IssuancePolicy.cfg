\* Adoption of the service policy, with a fault, under fairness.
CONSTANTS
  Requests = {r1, r2}
  Contracts = {c1}
  Settings = {s1}
  ManualKeys = {k1}
  NoContract = NoContract
  MaxRevision = 1
  MaxSchedule = 1
  MaxPolicy = 1
  MaxVersion = 6
  MaxAging = 3
  MaxFaults = 1
SPECIFICATION FairSpec
PROPERTIES NoStaleOverwrite PolicyIssued
INVARIANTS LatestIsNewest 
