SPECIFICATION MCSpec
CONSTANTS
  Ids = {i1, i2}
  Names = {n1, n2}
  Texts = {t1, t2}
  Seeds = {n1}
  SeedText = t1
  Creations <- MCCreations
  Edits <- MCEdits
  Forms = {f1, f2}
  Instances = {b1, b2}
  Absent = Absent
  Null = Null
  None = None
  Payloads = {x1, x2}
  Posts = {p1}
  Editors = {e1, e2}
  Readers = {r1, r2}
  MaxVersion = 4
  MaxTime = 2
  Enquiries = {q1}
  Staff = {s1, s2}
  Decisions = {d1, d2}
  Emails = {m1}
  Visits = {v1, v2}
  MaxDay = 3
  ConfirmTTL = 2
  Zones <- MCZones
  Postcodes <- MCPostcodes
  AreaCodes <- MCAreaCodes
  Positions = {0, 1}
  Fees = {0, 1, 2}
  Totals = {1, 2}
  Blank = " "
CHECK_DEADLOCK FALSE
INVARIANTS
  BackOfficeTypeOK
  NoLostEdit
  DuePostsAreListed
  FeeIsDefined
PROPERTIES
  HistoryMovesOn
  ClosedByEditor
  OptedIn
