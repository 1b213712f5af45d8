\* Every operation, from deployments of several stages.
SPECIFICATION Spec
CONSTANTS
  s1 = s1  s2 = s2  o1 = o1  o2 = o2  p1 = p1  p2 = p2  master = master
  Sessions = {s1, s2}
  People = {p1, p2}
  Orgs = {o1, o2}
  Masters = {}
  Home = o1
  ConfiguredOwner = p2
  Joinable = {o1}
  Roles = {"Owner", "Rep"}
  InviteRoles = {"Rep"}
  JoinRole = "Rep"
  RoleEdits <- Edits
  Envelopes <- Shrinking
  Beginnings <- Several
  Operations = {"reserve", "activate", "reactivate", "disable", "remove", "revoke",
    "consume", "join", "claim", "provision", "read", "status", "apply", "roles", "archive"}
  Validity = 1
  SweepLimit = 1
  MaxTime = 2
  MaxStarts = 3
SYMMETRY SessionSymmetry
INVARIANTS InvitesHoldSeats DeadlockNeedsCheckpoint
PROPERTIES OverageNeverGrows ClaimsAlone
CHECK_DEADLOCK FALSE
