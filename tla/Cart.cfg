SPECIFICATION MCSpec
CONSTANTS
  Users = {u1, u2}
  Items = {i1, i2}
  Orders = {o1, o2}
  None = None
  Calls = {c1, c2}
  Capped = {i1, i2}
  Limit <- MCLimit
  MinQuantity <- MCPairs
  Quantities = {1, 2}
  MaxQuantity = 3
  LateCompletions = TRUE
  Scenes = {"races", "last unit"}
SYMMETRY Alike
INVARIANTS
  TypeOK
  OrderFitsKitchen
  
PROPERTY
  BookedAgainstOthers
