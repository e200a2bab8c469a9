SPECIFICATION MCSpec
CONSTANTS
  Invoices = {i1, i2}
  Orders = {o1}
  Adjustments = {a1}
  None = None
  Calls = {c1, c2}
  Sweeps = {s1, s2}
  Amount <- MCAmount
  Price <- MCPrice
  Moves <- Apology
  Cap = 3
  Validity = 0
  TicksPerDay = 1
  Horizon = 2
  Redelivered = FALSE
  SpansMidnight = FALSE
SYMMETRY Alike
CHECK_DEADLOCK FALSE
INVARIANTS
  TypeOK
  NothingExpiresTwice
  BooksReconcile
PROPERTY
  AccrualWithinCap
