\* No database is restored: late calls, restarts and refusals.
CONSTANTS
  FaultKinds = {"broken", "late", "restart", "refused"}
  MaxFaults = 3
  MaxVersion = 2
SPECIFICATION Spec
INVARIANTS NoFalseAlarm RecordedIsAcknowledged
PROPERTIES DeliversInOrder
