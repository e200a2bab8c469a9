SPECIFICATION Spec
CONSTANTS
  Users = {u1}
  Orders = {o1}
  Items = {i1}
  Codes = {}
  Admins = {a1, a2}
  None = None
  Subtotal <- MCSubtotal
  Minimum = 1
  ShippingFees = {0, 1}
  Terms <- MCTerms
  CreditMoves <- OneMoveEach
  MinBalance <- Overdraft
  MaxBalance = 4
  MaxInFlight = 2
  DelayedMethods = TRUE
  HandlerMayFail = TRUE
INVARIANTS
  DebitedOnceWhenSettled
  TimelineComplete
  PaidIsFunded
