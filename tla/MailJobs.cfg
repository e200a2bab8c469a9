SPECIFICATION MCSpec
CONSTANTS
  Users = {u1, u2}
  System = system
  Accruals = {a1}
  Codes = {c1, c2, c3}
  Runs = {r1, r2}
  Horizon = 1
  ValidDays = 2
  NoticeDays = 2
  None = None
SYMMETRY symmetry
CHECK_DEADLOCK FALSE
INVARIANTS
  TypeOK
  OneCodeToSpend
