SPECIFICATION AccessSpec
CONSTANTS
  a1 = a1
  w1 = w1
  c1 = c1
  Admins = {a1}
  Staff = {w1}
  Client = {c1}
  MaxSecond = 2
  MaxPasswords = 1
  MaxTokens = 1
INVARIANT AdminCanRenew
CHECK_DEADLOCK FALSE
