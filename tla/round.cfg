\* Five peers, every order of arrival, any mix of right and wrong answers.
CONSTANTS
  Peers = {n1, n2, n3, n4, n5}
  Nodes = {n1, n2, n3, n4, n5}
  Deployments <- MCDeployments
  THRESHOLD = 3
  F_NODES = 1
  Kinds = {"honest", "fake_value", "forged_H", "other_nonce"}
SYMMETRY Symmetry
SPECIFICATION Spec
CHECK_DEADLOCK FALSE
INVARIANTS
  TypeOK
  InductiveInvariant
  CommitIsOrderFree
  VerdictOnSets
  SearchKeepsVote
