\* Every request ends; nodes may stay down and challenges may expire.
CONSTANTS
  ChallengeIds = {c1}
  CHALLENGE_TTL_SECONDS = 1
  MaxTime = 2
  Nodes = {n1, n2}
  THRESHOLD = 2
  F_NODES = 0
  Requests = {r1, r2}
  Dids = {d1}
  Stranger = stranger
  UnknownId = unknown
  Transport = "http"
  ByzantineKinds = {"fake_value"}
  MaxByzantine = 0
  MaxCrashes = 1
SPECIFICATION FairSpec
CHECK_DEADLOCK FALSE
PROPERTY EveryRequestEnds
