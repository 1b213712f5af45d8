\* The platform master edits the roles of the one Owner, one request at a time.
SPECIFICATION Spec
CONSTANTS
  s1 = s1  s2 = s2  o1 = o1  o2 = o2  p1 = p1  p2 = p2  master = master
  Sessions = {s1}
  People = {p1}
  Orgs = {o1}
  Masters = {master}
  Home = o1
  ConfiguredOwner = p2
  Joinable = {}
  Roles = {"Owner", "Rep"}
  InviteRoles = {"Rep"}
  JoinRole = "Rep"
  RoleEdits <- Demotions
  Envelopes <- Shrinking
  Beginnings <- Founded
  Operations = {"roles"}
  Validity = 1
  SweepLimit = 1
  MaxTime = 0
  MaxStarts = 2
PROPERTIES LastOwnerStays
CHECK_DEADLOCK FALSE
