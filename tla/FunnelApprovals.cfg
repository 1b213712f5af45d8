\* Two sessions on one funnel: queueing, deciding, moving, changes of authority.
SPECIFICATION Spec
CONSTANTS
  p1 = p1  p2 = p2  f1 = f1  f2 = f2
  rep = rep  lead = lead  boss = boss  Nobody = Nobody
  Sessions = {p1, p2}
  Funnels = {f1}
  Stages = {"1d", "4a", "won", "kiv"}
  Pipeline <- ShortPipeline
  FirstStage = "1d"
  FunnelKeys = {"invoice"}
  CustomKeys = {}
  ContainerKeys = {"vision", "ownerContact"}
  PpvvcKeys = {"vision"}
  OwnerContact = "ownerContact"
  Filled = {"invoice", "vision", "ownerContact"}
  Members = {rep, lead, boss}
  Superadmins = {}
  Authority = {lead, boss}
  Manager <- ReportingLine
  Operations = {"advance", "approve", "reject", "cancel"}
  MaxStarts = 4
  MaxChanges = 1
SYMMETRY SessionSymmetry
INVARIANTS TypeOK HistoryChains RequestsExact
PROPERTIES EndsAreFinal DecidedAsAllowed
CHECK_DEADLOCK FALSE
