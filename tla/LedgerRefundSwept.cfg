SPECIFICATION MCSpec
CONSTANTS
  Invoices = {i1}
  Orders = {}
  Adjustments = {}
  None = None
  Calls = {c1}
  Sweeps = {s1}
  Amount <- MCAmount
  Price <- MCPrice
  Moves <- Apology
  Cap = 3
  Validity = 0
  TicksPerDay = 1
  Horizon = 2
  Redelivered = FALSE
  SpansMidnight = FALSE
CHECK_DEADLOCK FALSE
PROPERTY
  ForfeitsOnlyWhatIsLeft
