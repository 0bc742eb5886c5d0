\* Starts cut off at every point, and tokens that live two seconds of three ticks.
CONSTANTS
  None = none
  Torn = torn
  IAT_TTL_SECONDS = 2
  TicksPerSecond = 3
  MaxTime = 11
  MaxKills = 2
SPECIFICATION Spec
CHECK_DEADLOCK FALSE
INVARIANTS
  InductiveInvariant
  PairsNeverMixed
  TokenHonoured
  NeverOutlivesTTL
