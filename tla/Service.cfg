SPECIFICATION MCSpec
CONSTANTS
  x1 = x1
  x2 = x2
  x3 = x3
  y1 = y1
  y2 = y2
  t1 = t1
  t2 = t2
  t3 = t3
  o1 = o1
  d1 = d1
  n1 = n1
  n2 = n2
  NullOrder = NullOrder
  NoTable = NoTable
  Orders = {x1, x2, x3}
  Table = {t1, t2, t3}
  Waiter = {y1, y2}
  FloorOps <- AllFloorOps
  MaxGroups = 2
  NoOrder = NoOrder
  Order = {y1, y2}
  Session = {x1, x2, x3}
  Ops <- CollectOps
  FailOps <- AllOps
  Totals = {2}
  Discounts = {0, 2}
  Charges = {0}
  Slack = 0
  MaxReceived = 4
  NoTab = NoTab
  Tab = {o1}
  Dish = {d1}
  Note = {n1, n2}
  Clerk = {y1, y2}
  KitchenOps <- AllKitchenOps
  MaxQty = 2
  MaxRows = 2
  MaxTickets = 2
  MaxEdits = 2
SYMMETRY Symm
CONSTRAINT SomeTableSure
INVARIANTS ServiceTypeOK FloorIsTrue
INVARIANT CollectedOnce
INVARIANT TicketsAreTrue
PROPERTY TicketCovers
CHECK_DEADLOCK FALSE
