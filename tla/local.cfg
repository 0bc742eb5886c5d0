\* One request over the local transport to the five nodes of the deployment, of
\* which any two may lie and any may stop and come back while threads ask them.
CONSTANTS
  ChallengeIds = {c1}
  CHALLENGE_TTL_SECONDS = 1
  MaxTime = 0
  Nodes = {n1, n2, n3, n4, n5}
  THRESHOLD = 3
  F_NODES = 1
  Requests = {r1}
  Dids = {d1}
  Stranger = stranger
  UnknownId = unknown
  Transport = "local"
  ByzantineKinds = {"fake_value", "forged_H", "other_nonce"}
  MaxByzantine = 2
  MaxCrashes = 1
SYMMETRY Symmetry
SPECIFICATION Spec
CHECK_DEADLOCK FALSE
INVARIANTS
  InductiveInvariant
  QuorumIsHonest
  FailureMeansTooFewHonest
