SPECIFICATION MCSpec
CONSTANTS
  Users = {u1}
  Tokens = {t1, t2, t3}
  None = None
  Rotations = {r1, r2}
  Passwords = {p1}
  Secrets = {k1, k2}
  Resets = {n1, n2}
  Calls = {c1, c2}
  MaxFailed = 2
  Rehash = FALSE
SYMMETRY Alike
CHECK_DEADLOCK FALSE
INVARIANTS
  FailuresAreCounted
  ActiveSecretWasProved
PROPERTIES
  SessionsKept
  OverIsFinal
