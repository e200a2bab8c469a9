SPECIFICATION FairSpec
CONSTANTS
  Orders = {o1}
  Admins = {a1, a2}
  None = None
  MaxInFlight = 2
  DelayedMethods = TRUE
  HandlerMayFail = TRUE
CHECK_DEADLOCK FALSE
INVARIANTS
  IInv
  PaidStampIsFunded
  ApprovedBeforeShipped
PROPERTIES
  OutcomeLeavesPending
