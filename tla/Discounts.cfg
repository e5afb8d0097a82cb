SPECIFICATION MCSpec
CONSTANTS
  orderA = orderA
  orderB = orderB
  cashierA = cashierA
  cashierB = cashierB
  promoA = promoA
  promoB = promoB
  guest = guest
  walkIn = walkIn
  NoOrder = NoOrder
  Order = {orderA, orderB}
  Worked = {orderA}
  Session = {cashierA, cashierB}
  Ops <- AllOps
  FailOps <- AllOps
  Totals = {2, 3}
  Discounts = {0, 1, 3}
  Charges = {0, 1}
  Slack = 1
  MaxReceived = 5
  NoSale = NoSale
  NoPromo = NoPromo
  Promo = {promoA, promoB}
  Sale = {orderA, orderB}
  Guest = {guest}
  WalkIn = walkIn
  Cashier = {cashierA, cashierB}
  Subs = {1, 2}
  Worths = {1, 2}
  Extras = {0, 1}
  MaxLimit = 1
  MaxGiven = 2
SYMMETRY SessionSymm
INVARIANTS TypeOK DiscountTypeOK
INVARIANTS CreditIsReceived LiveBillMeansCompleted
INVARIANTS UsesAreCounted DiscountsAreShown
INVARIANT SerialBillsAreExact
PROPERTY SerialTotalsAreFinal
CHECK_DEADLOCK FALSE
