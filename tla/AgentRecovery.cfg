\* Either database is restored; everything else may fail as well.
CONSTANTS
  FaultKinds = {"broken", "late", "restart", "refused", "webRestored", "controlRestored"}
  MaxFaults = 2
  MaxVersion = 2
SPECIFICATION FairSpec
PROPERTIES Converges NeverBackSilently
