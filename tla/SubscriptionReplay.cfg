SPECIFICATION Spec
CONSTANTS
  r1 = r1
  r2 = r2
  p1 = p1
  p2 = p2
  p3 = p3
  s1 = s1
  s2 = s2
  c1 = c1
  c2 = c2
  Restaurants = {r1}
  Payments = {p1}
  Sessions = {s1, s2}
  Crons = {c1}
  Cycle = 2
  LastDay = 2
  OneOpenPurchase = FALSE
  LateFailures = TRUE
  MaxAdmin = 0
SYMMETRY Symm
INVARIANT NeverGrantedTwice
CHECK_DEADLOCK FALSE
