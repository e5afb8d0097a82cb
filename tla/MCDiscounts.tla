------------------------------ MODULE MCDiscounts ------------------------------
(* Discounts and Billing in mixes, so that their states add up instead of      *)
(* multiplying: requests that race on a bill; requests that race on the status *)
(* of two orders that are billed, held, merged and split; what a cashier does  *)
(* with an order and its bill, one request after the other; a promotion with a *)
(* usage limit on two orders; two promotions on one order, until requests meet *)
(* on it; a promotion that is switched, scheduled, archived and edited, and    *)
(* the older endpoint; an order with a promotion that is billed, edited, paid  *)
(* and merged, until requests meet on it.                                      *)
EXTENDS Billing, Discounts, TLC

CONSTANTS orderA, orderB, cashierA, cashierB, promoA, promoB, guest, walkIn,
          Worked   \* the orders that mixes races and serial work on

VARIABLE mix

SessionSymm == Permutations({cashierA, cashierB})

-----------------------------------------------------------------------------
Plain == [on |-> TRUE, archived |-> FALSE, due |-> TRUE, stack |-> FALSE,
          worth |-> 2, limit |-> 0, per |-> 0, most |-> 2, used |-> 0]

\* The promotions a mix starts with.
Starts ==
  CASE mix = "limit"  -> {[p \in Promo |-> [Plain EXCEPT !.limit = 1, !.per = k]] :
                            k \in 0..1}
    [] mix = "stack"  -> {[p \in Promo |-> IF p = promoA THEN [Plain EXCEPT !.stack = TRUE]
                             ELSE [Plain EXCEPT !.stack = b, !.worth = 1, !.most = k]] :
                            b \in BOOLEAN, k \in 1..2}
    [] mix = "switch" -> {[p \in Promo |-> [Plain EXCEPT !.limit = 1]]}
    [] OTHER          -> {[p \in Promo |-> Plain]}

\* The order a mix starts with; where a customer's uses count, one of that customer.
Open == [status |-> "OPEN", deleted |-> FALSE,
         who |-> IF promo[promoA].per > 0 THEN guest ELSE walkIn, sub |-> 2,
         direct |-> Unset, disc |-> 0, total |-> 2]

\* What a mix leaves alone.
Keeps(ops, orders, promos) ==
  /\ \A s \in Cashier : /\ till'[s].op \in {"none"} \cup ops
                        /\ till'[s].sale \in {NoSale} \cup orders
                        /\ till'[s].promo \in {NoPromo} \cup promos
  /\ \A p \in Promo \ promos : promo'[p] = promo[p]

\* An edit changes a limit alone: that of all customers, or of one if it has any.
LimitsOnly == \A s \in Cashier : till[s].op # "edit" /\ till'[s].op = "edit" =>
  LET p == promo[promoA] IN
    /\ \/ till'[s].per = p.per
       \/ p.per > 0 /\ till'[s].limit = p.limit
    /\ till'[s].amt = p.worth /\ till'[s].most = p.most
    /\ till'[s].stack = p.stack /\ till'[s].on = p.on

OrdersStay == /\ UNCHANGED slip
              /\ \A o \in Sale : /\ sale'[o].sub = sale[o].sub
                                 /\ sale'[o].status = "OPEN" /\ ~sale'[o].deleted

Limits == /\ Keeps({"apply", "edit"} \cup (IF sale[orderA].who = walkIn THEN {"remove"} ELSE {}),
                   Sale, {promoA})
          /\ LimitsOnly /\ OrdersStay
          /\ \E s \in Cashier : till'[s].op # "edit"
          /\ promo'[promoA].on /\ promo'[promoA].due

Stacks == /\ Keeps({"apply", "remove", "manual", "bill"}, {orderA}, Promo)
          /\ odd = {} /\ sale'[orderB] = sale[orderB]
          /\ \A s \in Cashier : ~till'[s].own
          /\ \A p \in Promo : promo'[p].on /\ promo'[p].due

Switches == /\ Keeps({"apply", "edit", "switch", "direct"}, {orderA}, {promoA})
            /\ LimitsOnly /\ OrdersStay /\ \A s \in Cashier : till'[s].direct # 0
            /\ odd = {} \/ \E s \in Cashier : till[s].op = "direct"

\* Until an order is odd, or on its own once it is.
Bills == /\ Keeps({"apply", "remove", "bill", "billDiscount", "collect", "replace", "merge"},
                  {orderA}, {promoA})
         /\ odd = {} /\ promo'[promoA].on /\ promo'[promoA].due
         /\ ~sale'[orderA].deleted /\ ~sale'[orderB].deleted
         /\ sale'[orderB].sub = 2 /\ slip'[orderB] = NoSlip

DiscountStep == /\ mix \in {"limit", "stack", "switch", "bills"} /\ UNCHANGED vars
                /\ DiscountNext
                /\ mix = "limit" => Limits
                /\ mix = "stack" => Stacks
                /\ mix = "switch" => Switches
                /\ mix = "bills" => Bills

\* Requests begun in this step
Begun == {s \in Session : req[s] = Idle /\ req'[s] # Idle}

\* Requests of ops alone, and of others for an order that is not worked on.
AtWork(ops, others) == \A s \in Begun :
  req'[s].op \in ops \cap (IF req'[s].ord \in Worked THEN AllOps ELSE others)

Merges == {"merge", "unmerge"}

\* An order of 2, and at most 3 paid for it.
Races == /\ AtWork(AllOps \ {"hold", "merge", "unmerge"}, {})
         /\ \A s \in Session :
              req'[s].op \in {"complete", "cancelOrder", "edit", "orderDiscount", "reopen",
                             "replace", "void"} =>
                \A t \in Session \ {s} : req'[t] = Idle
         /\ \A o \in Order : order'[o].total = 2
         /\ \A s \in Session : req'[s].extra = 0
         /\ \A s \in Begun : LET r == req'[s] IN
              /\ r.grand # 1
              /\ r.op \in {"collect", "pay", "split"} => received[r.ord] + r.amt <= 3
              /\ r.op = "collect" => r.amt > 0
              /\ r.op = "pay"     => r.amt = 1
              /\ r.op = "split"   => r.amt = 2

\* An order of 2, paid in full or not at all, and what writes a status.
Statuses == /\ AtWork({"collect", "bill", "cancelBill", "cancelOrder", "complete", "hold",
                       "merge", "unmerge"}, Merges \cup {"complete", "hold"})
            /\ \A o \in Order : order'[o].total = 2
            /\ \A s \in Begun : /\ req'[s].extra = 0 /\ req'[s].grand \in {0, 2}
                                /\ req'[s].op = "collect" => req'[s].amt = 2
                                /\ req'[s].op = "bill" => req'[s].grand = 2

\* Exact amounts, nothing reopened, and createPayment, which writes in three
\* statements, is not interrupted.
Serial == /\ \A s, t \in Session : s # t => Idle \in {req'[s], req'[t]}
          /\ AtWork(AllOps \ {"reopen", "void", "orderDiscount"}, Merges)
          /\ \A s \in Begun :
               req'[s].op = "collect" => req'[s].amt = req'[s].grand
          /\ \A s \in Session : At(s, "pay", req[s].phase) /\ req'[s] = Idle =>
               bill' # bill \/ received' # received

BillStep == /\ mix \in {"races", "statuses", "serial"} /\ UNCHANGED discountVars
            /\ Next
            /\ mix = "races" => Races
            /\ mix = "statuses" => Statuses
            /\ mix = "serial" => Serial

MCInit == /\ mix \in {"races", "statuses", "serial", "limit", "stack", "switch", "bills"}
          /\ promo \in Starts /\ sale = [o \in Sale |-> Open]
          /\ Init /\ DiscountInit
          /\ mix # "serial" => \A o \in Order : order[o].total = 2
          /\ \A o \in Order \ Worked : order[o].total = 2

MCNext == UNCHANGED mix /\ (BillStep \/ DiscountStep)

MCSpec == MCInit /\ [][MCNext]_<<vars, discountVars, mix>>

-----------------------------------------------------------------------------
\* A cashier's bill shows exactly what was received, through partial, split and
\* one-click payments, whichever handler but createPayment fails half way.
SerialBillsAreExact == mix = "serial" => PaidIsReceived

\* A cashier never changes the totals of a settled bill (updateBillDiscount,
\* the edits of a billed order's lines).
SerialTotalsAreFinal == [][mix = "serial" => SettledTotalStays]_vars
=============================================================================
