SPECIFICATION MCFairSpec
CONSTANTS
  Slugs = {weekly}
  Amounts = {a1, a2}
  Default <- MCDefault
  Products = {d1, d2}
  Prices = {p1, p2, p3}
  Saves = {v1, v2}
  None = None
  Users = {u1}
  System = system
  Customers = {c1, c2}
  Subs = {s1, s2}
  Invoices = {i1}
  Checkouts = {x1, x2}
  MaxChanges = 4
CHECK_DEADLOCK FALSE
INVARIANTS
  TypeOK
  PriceMatchesAmount
  PublishedIsSellable
  MirrorIsCurrent
  PortalShowsSubscription
PROPERTIES
  CancellationIsMirrored
