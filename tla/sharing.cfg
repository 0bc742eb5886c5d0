\* Every polynomial, nonce and single fault over the field of 7 elements.
CONSTANTS
  P = 7
  N_NODES = 5
  THRESHOLD = 3
  MaxFaulty = 1
SPECIFICATION Spec
CHECK_DEADLOCK FALSE
INVARIANTS
  InductiveInvariant
  RebuiltOnlyFromHonest
  FewSharesLeaveSecretsOpen
