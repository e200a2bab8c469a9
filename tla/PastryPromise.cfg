SPECIFICATION Spec
CONSTANTS
  Users = {u1}
  Orders = {o1, o2}
  Items = {i1}
  Codes = {c1}
  Admins = {}
  None = None
  Subtotal <- MCSubtotal
  Minimum = 1
  ShippingFees = {0, 1}
  Terms <- MCTerms
  CreditMoves <- OneMove
  MinBalance = 0
  MaxBalance = 4
  MaxInFlight = 2
  DelayedMethods = TRUE
  HandlerMayFail = TRUE
INVARIANTS
  PromoBinding
  ChargeMatchesTotal
  IInv
  OverdrawnByTwo
PROPERTIES
  PromiseKept
