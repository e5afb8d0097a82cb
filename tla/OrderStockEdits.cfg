SPECIFICATION MCSpec
CONSTANTS
  theOrder = theOrder
  scarce = scarce
  ample = ample
  clerkA = clerkA
  clerkB = clerkB
  NoOrder = NoOrder
  NoItem = NoItem
  Order = {theOrder}
  Item = {scarce, ample}
  Tracked = {scarce, ample}
  Session = {clerkA, clerkB}
  Ops <- AllOps
  InitStock <- Stock
  MaxQty = 2
  MaxEdits = 3
INVARIANTS TypeOK StockNeverNegative RestoredAtMostOnce
INVARIANT SerialIsExact
SYMMETRY Symm
CHECK_DEADLOCK FALSE
