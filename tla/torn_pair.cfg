\* A statement of iat.py.
CONSTANTS
  None = none
  Torn = torn
  IAT_TTL_SECONDS = 2
  TicksPerSecond = 3
  MaxTime = 11
  MaxKills = 2
SPECIFICATION Spec
CHECK_DEADLOCK FALSE
INVARIANT LoadedKeysArePair
