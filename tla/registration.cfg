\* Three sessions register two names while one sign-in runs; the coordinator may be killed once.
CONSTANTS
  Sessions = {s1, s2, s3}
  SignIns = {a1}
  Usernames = {u1, u2}
  Passwords = {p1, p2}
  Dids = {d1, d2, d3}
  N_NODES = 2
  NoDid = nodid
  MaxKills = 1
SYMMETRY Symmetry
SPECIFICATION Spec
CHECK_DEADLOCK FALSE
INVARIANTS
  InductiveInvariant
  StoresInOrder
  UsersUsable
  SignInMeetsIdentity
  OpensWithOwnPassword
PROPERTY LifecycleImplemented
