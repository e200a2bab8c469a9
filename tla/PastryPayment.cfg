SPECIFICATION FairSpec
CONSTANTS
  Users = {u1}
  Orders = {o1}
  Items = {i1}
  Codes = {}
  Admins = {a1}
  None = None
  Subtotal <- MCSubtotal
  Minimum = 1
  ShippingFees = {1}
  Terms <- MCTerms
  CreditMoves <- OneMove
  MinBalance = 0
  MaxBalance = 4
  MaxInFlight = 2
  DelayedMethods = TRUE
  HandlerMayFail = FALSE
PROPERTIES
  PaidIsSettled
