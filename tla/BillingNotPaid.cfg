SPECIFICATION Spec
CONSTANTS
  o1 = o1
  o2 = o2
  s1 = s1
  s2 = s2
  s3 = s3
  NoOrder = NoOrder
  Order = {o1, o2}
  Session = {s1, s2}
  Ops = {"collect"}
  FailOps = {}
  Totals = {2}
  Discounts = {0}
  Charges = {0}
  Slack = 0
  MaxReceived = 2
PROPERTY AlreadyPaidIsTrue
CHECK_DEADLOCK FALSE
