\* Two sessions register at the same time.
CONSTANTS
  Sessions = {s1, s2}
  SignIns = {}
  Usernames = {u1, u2}
  Passwords = {p1, p2}
  Dids = {d1, d2}
  N_NODES = 2
  NoDid = nodid
  MaxKills = 0
SYMMETRY Symmetry
SPECIFICATION Spec
CHECK_DEADLOCK FALSE
INVARIANT RegisteredNamesKept
