SPECIFICATION MCSpec
CONSTANTS
  k1 = k1
  k2 = k2
  k3 = k3
  u1 = u1
  u2 = u2
  x1 = x1
  NoKey = NoKey
  NoTable = NoTable
  NewKeys = {k1, k3, x1}
  Tables <- MCTables
  Refers <- MCRefers
  Source <- MCSource
  Scripts = {"data", "staff", "sequences"}
  MaxId = 4
  MaxEdits = 2
  r1 = r1
  r2 = r2
  p1 = p1
  p2 = p2
  s1 = s1
  s2 = s2
  c1 = c1
  Restaurants = {r1, r2}
  Payments = {p1, p2}
  Sessions = {s1, s2}
  Crons = {c1}
  Cycle = 2
  LastDay = 3
  OneOpenPurchase = TRUE
  LateFailures = FALSE
  MaxAdmin = 0
  d1 = d1
  d2 = d2
  Shop = {r1}
  Dish = {d1, d2}
  Image = {p1, p2}
  Editor = {s1, s2}
  NoShop = NoShop
  NoImage = NoImage
  Unsent = Unsent
  ImageFaults = TRUE
  a1 = a1
  w1 = w1
  Admins = {a1}
  Staff = {w1}
  Client = {s1, s2}
  MaxSecond = 2
  MaxPasswords = 2
  MaxTokens = 2
SYMMETRY Symm
INVARIANTS TenancyTypeOK MigratedIsWhole NobodyIsLost ImagesAreThere GateHolds
PROPERTIES OwnRowsStay ImplementsEntitlement
CHECK_DEADLOCK FALSE
