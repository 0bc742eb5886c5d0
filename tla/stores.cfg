\* The coordinator and two node processes share a data directory; three kills.
CONSTANTS
  N_NODES = 2
  Dids = {d1, d2}
  NoDid = nodid
  None = none
  Torn = torn
  PQC_AVAILABLE = TRUE
  MaxKills = 3
SPECIFICATION Spec
CHECK_DEADLOCK FALSE
INVARIANTS
  InductiveInvariant
  RegisteredServable
PROPERTY SharesNeverLost
