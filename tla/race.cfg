\* Two requests race over HTTP for one or two challenges; the coordinator may restart.
CONSTANTS
  ChallengeIds = {c1, c2}
  CHALLENGE_TTL_SECONDS = 1
  MaxTime = 2
  Nodes = {n1, n2}
  THRESHOLD = 2
  F_NODES = 0
  Requests = {r1, r2}
  Dids = {d1}
  Stranger = stranger
  UnknownId = unknown
  Transport = "http"
  ByzantineKinds = {"fake_value"}
  MaxByzantine = 0
  MaxCrashes = 1
SYMMETRY Symmetry
SPECIFICATION Spec
CHECK_DEADLOCK FALSE
INVARIANTS
  TypeOK
  ChallengeSpentOnce
  RefusalJustified
  AuditTrail
  BlockingPathUnreached
PROPERTY LifecycleImplemented
