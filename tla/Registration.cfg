\* Two agent processes on one state directory, tokens replaced and revoked.
CONSTANTS
  Processes = {a1, a2}
  MaxTokens = 2
  MaxIssuing = 2
  MaxChanges = 1
  MaxFaults = 1
SPECIFICATION FairSpec
INVARIANTS RegistrationAgrees OneLiveToken
PROPERTIES AllConverge
CHECK_DEADLOCK FALSE
