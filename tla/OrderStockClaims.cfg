SPECIFICATION ClaimSpec
CONSTANTS
  o1 = o1
  o2 = o2
  a = a
  s1 = s1
  s2 = s2
  NoOrder = NoOrder
  NoItem = NoItem
  Order = {o1, o2}
  Item = {a}
  Tracked = {a}
  Session = {s1, s2}
  Ops <- ClaimOps
  InitStock <- Scarce
  MaxQty = 2
  MaxEdits = 0
SYMMETRY Symm
INVARIANT RestoreUndoesReservation
PROPERTY ImplementsReservation
CHECK_DEADLOCK FALSE
