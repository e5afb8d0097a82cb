SPECIFICATION MCSpec
CONSTANTS
  r1 = r1
  p1 = p1
  p2 = p2
  s1 = s1
  s2 = s2
  c1 = c1
  c2 = c2
  NoPlan = NoPlan
  Plan = {p1, p2}
  Session = {s1, s2}
  AppOps <- AllAppOps
  MaxPays = 2
  MaxCreated = 2
  OtpSession = {s1, s2}
  MaxCodes = 3
  MaxTries = 2
  MaxGuesses = 3
  Restaurants = {r1}
  Payments = {p1, p2}
  Sessions = {s1, s2}
  Crons = {c1, c2}
  Cycle = 2
  LastDay = 3
  OneOpenPurchase = FALSE
  LateFailures = FALSE
  MaxAdmin = 1
SYMMETRY Symm
INVARIANTS IntakeTypeOK   CodesAreSafe
PROPERTY FrozenStaysFrozen
INVARIANTS TypeOK  ExpiresOncePerPeriod
CHECK_DEADLOCK FALSE
