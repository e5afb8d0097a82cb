SPECIFICATION LiveSpec
CONSTANTS
  r1 = r1
  r2 = r2
  p1 = p1
  p2 = p2
  p3 = p3
  s1 = s1
  s2 = s2
  c1 = c1
  c2 = c2
  Restaurants = {r1}
  Payments = {p1}
  Sessions = {s1, s2}
  Crons = {c1, c2}
  Cycle = 2
  LastDay = 3
  OneOpenPurchase = FALSE
  LateFailures = FALSE
  MaxAdmin = 1
PROPERTY RunsOut
 
CHECK_DEADLOCK FALSE
