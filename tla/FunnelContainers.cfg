\* Two funnels of one Opportunity, its container edited, its account moved.
SPECIFICATION FairSpec
CONSTANTS
  p1 = p1  p2 = p2  f1 = f1  f2 = f2
  rep = rep  lead = lead  boss = boss  Nobody = Nobody
  Sessions = {p1, p2}
  Funnels = {f1, f2}
  Stages = {"1d", "4a", "won"}
  Pipeline <- LadderOnly
  FirstStage = "1d"
  FunnelKeys = {"invoice"}
  CustomKeys = {"invoice"}
  ContainerKeys = {"vision", "ownerContact"}
  PpvvcKeys = {"vision"}
  OwnerContact = "ownerContact"
  Filled = {"vision", "ownerContact"}
  Members = {rep, boss}
  Superadmins = {}
  Authority = {boss}
  Manager <- TwoLine
  Operations = {"kanban", "approve", "edit", "cascade"}
  MaxStarts = 3
  MaxChanges = 0
INVARIANTS CodeAllocatedOnce
PROPERTIES AllEnd RequirementsHoldAtMove
CHECK_DEADLOCK FALSE
