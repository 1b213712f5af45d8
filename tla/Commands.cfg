\* Overlapping polls of a queue that operators use, with a fault.
CONSTANTS
  MaxCommands = 2
  MaxCalls = 3
  MaxChanges = 1
  MaxFaults = 1
SPECIFICATION Spec
INVARIANTS HistoryAgrees ClaimedInOrder InFlightIsCarried
CHECK_DEADLOCK FALSE
