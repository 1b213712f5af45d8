\* Funnels and Opportunities created and edited at once.
SPECIFICATION Spec
CONSTANTS
  c1 = c1  c2 = c2  c3 = c3  f1 = f1  f2 = f2  f3 = f3
  p1 = p1  p2 = p2  p3 = p3
  Sessions = {p1, p2, p3}
  Containers = {c1, c2, c3}
  Funnels = {f1, f2, f3}
  Fields = {"pain", "power"}
  Grades = {0, 1}
  Natures = {"none", "service"}
  Currencies = {"MYR", "USD"}
  MaxAmount = 1
  Unset = Unset
  None = None
  Home <- OneFunnel
  NewRow <- FirstRow
  Creations <- Both
  Edits <- MovingEdits
  ContainerEdits <- FormEdits
  MaxStarts = 3
SYMMETRY SessionSymmetry
INVARIANTS TypeOK FirstChildrenInSync ContainersAddUp OnlyPlainEditsDeadlock
PROPERTIES EditsLand
CHECK_DEADLOCK FALSE
