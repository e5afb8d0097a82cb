------------------------------- MODULE Discounts -------------------------------
(***************************************************************************)
(* Promotions of one restaurant and the discounts they give its orders:    *)
(* services/discountEngine.service.js with the rules of                    *)
(* utils/discountRules.js, controllers/discount.controller.js, and the     *)
(* handlers of orders and bills that change what a discount was taken from.*)
(*                                                                         *)
(* A discount is checked first and then given in a transaction, which      *)
(* counts the use with a guarded update: that locks the promotion until it *)
(* commits.  What it reads of the order's other discounts is what is       *)
(* committed when it reads, not when it writes.  All that a request reads   *)
(* before its transaction is one step.                                     *)
(***************************************************************************)
EXTENDS Integers, FiniteSets, FiniteSetsExt

CONSTANTS
  Promo,    \* promotions
  Sale,     \* orders
  Guest,    \* registered customers
  WalkIn,   \* the customer row all anonymous orders share
  Cashier,  \* concurrent requests
  NoSale, NoPromo,
  Subs,     \* what the lines of an order may come to
  Worths,   \* what a discount may take off
  Extras,   \* what a bill is asked to charge beyond the order's service charge
  MaxLimit, \* bound on a usage limit
  MaxGiven  \* bound on the discounts in force

ASSUME DiscountAssumption ==
  /\ WalkIn \notin Guest /\ NoSale \notin Sale /\ NoPromo \notin Promo
  /\ Subs \subseteq Nat /\ Worths \subseteq Nat \ {0} /\ Subs # {} /\ Worths # {}
  /\ Extras \subseteq Int
  /\ MaxLimit \in Nat /\ MaxGiven \in Nat

VARIABLES
  promo,  \* Discount rows
  sale,   \* Order rows
  slip,   \* the Bill row of an order
  given,  \* OrderDiscount rows
  till,   \* the request a session is serving and what it read for it
  odd,    \* ghost: orders two requests met on, or one that ignores their discounts
  always, \* ghost: promotions that have had a usage limit ever since
  summit, \* ghost: the highest limit a promotion has had
  each    \* ghost: the highest limit per customer, 0 once there was none

discountVars == <<promo, sale, slip, given, till, odd, always, summit, each>>

-----------------------------------------------------------------------------
(* Rows *)

\* validateDiscountInput.  due: inside its dates, days and hours, and covering what
\* orders hold; limit 0: none; code: given by its code; per: uses of one customer, 0: any
PromoRow == [on : BOOLEAN, archived : BOOLEAN, due : BOOLEAN, stack : BOOLEAN,
             worth : Worths, limit : 0..MaxLimit, per : 0..MaxLimit, most : 1..2, used : Nat]

Unset == -1  \* an order without a discountType

\* direct: the discountValue of the order's own fields, which promotions do not touch.
\* Tax and the order's service charge, alike on an order and its bill, are left out.
SaleRow == [status : {"OPEN", "CANCELLED"}, deleted : BOOLEAN, who : Guest \cup {WalkIn},
            sub : Subs, direct : {Unset, 0} \cup Worths, disc : Nat, total : Nat]

\* LIVE: not cancelled; whether it is paid is Billing's.  extra: service charge and
\* round-off beyond the order's.  own, history: its amounts were asked for at the bill.
SlipRow == [status : {"NONE", "LIVE", "CANCELLED"}, sub : Nat, extra : Int, grand : Int,
            own : BOOLEAN]

NoSlip == [status |-> "NONE", sub |-> 0, extra |-> 0, grand |-> 0, own |-> FALSE]

\* A discount of promotion NoPromo was given by hand.
GivenRow == [id : 1..MaxGiven, sale : Sale, promo : Promo \cup {NoPromo}, amt : Nat]

TillIdle == [op |-> "none", phase |-> "idle", sale |-> NoSale, from |-> NoSale,
             promo |-> NoPromo, row |-> 0, sub |-> 0, amt |-> 0, sum |-> 0, extra |-> 0,
             direct |-> Unset, limit |-> 0, per |-> 0, most |-> 1, stack |-> FALSE,
             on |-> FALSE, own |-> FALSE, had |-> FALSE]

\* sum: what discounts, or what the order or its bill, come to.  had: a bill to update.
TillRow == [op : {"none", "apply", "remove", "manual", "direct", "edit", "switch",
                  "bill", "billDiscount", "collect", "replace", "merge"},
            phase : {"idle", "checked", "open", "sync"},
            sale : Sale \cup {NoSale}, from : Sale \cup {NoSale},
            promo : Promo \cup {NoPromo}, row : 0..MaxGiven, sub : Nat, amt : Nat,
            sum : Int, extra : Int, direct : {Unset, 0} \cup Worths,
            limit : 0..MaxLimit, per : 0..MaxLimit, most : 1..2, stack : BOOLEAN,
            on : BOOLEAN, own : BOOLEAN, had : BOOLEAN]

DiscountTypeOK ==
  /\ \A p \in Promo : promo[p] \in PromoRow
  /\ \A o \in Sale : sale[o] \in SaleRow /\ slip[o] \in SlipRow
  /\ \A g \in given : g \in GivenRow
  /\ \A s \in Cashier : till[s] \in TillRow
  /\ odd \subseteq Sale /\ always \subseteq Promo
  /\ summit \in [Promo -> 0..MaxLimit] /\ each \in [Promo -> 0..MaxLimit]

Limited == {p \in Promo : promo[p].limit > 0}

\* createDiscount.
NewPromo == [on : {TRUE}, archived : {FALSE}, due : {TRUE}, stack : BOOLEAN,
             worth : Worths, limit : 0..MaxLimit, per : 0..MaxLimit, most : 1..2,
             used : {0}]

Least(a, b) == IF a < b THEN a ELSE b

\* What the order's own discount takes off.
Off(direct, sub) == IF direct > 0 THEN Least(direct, sub) ELSE 0

\* createOrder, which takes a discount of its own too.
NewSale == {[status |-> "OPEN", deleted |-> FALSE, who |-> c, sub |-> n, direct |-> d,
             disc |-> Off(d, n), total |-> n - Off(d, n)] :
               c \in Guest \cup {WalkIn}, n \in Subs, d \in {Unset, 0} \cup Worths}

DiscountInit ==
  /\ promo \in [Promo -> NewPromo]
  /\ sale \in [Sale -> NewSale]
  /\ slip = [o \in Sale |-> NoSlip]
  /\ given = {}
  /\ till = [s \in Cashier |-> TillIdle]
  /\ odd = {o \in Sale : sale[o].direct # Unset}
  /\ always = Limited
  /\ summit = [p \in Promo |-> promo[p].limit]
  /\ each = [p \in Promo |-> promo[p].per]

-----------------------------------------------------------------------------
(* Helpers *)

Of(o)   == {g \in given : g.sale = o}
Uses(p) == {g \in given : g.promo = p}

SumOf(G) == MapThenSumSet(LAMBDA g : g.amt, G)

calculateDiscountAmount(worth, sub) == Least(worth, sub)

\* Mutant: discounts that come to more than the order make its total negative.
computeTotalAmount_Signed(sub, disc) == sub - disc

computeTotalAmount(sub, disc) == IF disc > sub THEN 0 ELSE sub - disc

MayStart(s) == till[s] = TillIdle

Give(s, r) == till' = [till EXCEPT ![s] = r]
Return(s)  == Give(s, TillIdle)

On(o) == {s \in Cashier : till[s].sale = o}

\* The orders that share a customer with o, whose uses of a promotion are one count.
Kin(o) == {q \in Sale : q = o \/ (sale[q].who = sale[o].who /\ sale[o].who # WalkIn)}

\* Two requests on the orders of one customer at a time.
Meet(o) == odd' = IF \E q \in Kin(o) : On(q) # {} THEN odd \cup Kin(o) ELSE odd

Ignore(o) == odd' = odd \cup {o}

\* The request ignores the discounts of the order unless kept.
MeetUnless(o, kept) ==
  odd' = (IF \E q \in Kin(o) : On(q) # {} THEN odd \cup Kin(o) ELSE odd)
           \cup (IF kept THEN {} ELSE {o})

\* The row lock an uncommitted count of uses holds.
PromoFree(s, p) ==
  \A t \in Cashier \ {s} :
     till[t].phase = "open" /\ till[t].promo = p =>
       till[t].op = "apply" /\ till[t].limit = 0

NewId == CHOOSE k \in 1..MaxGiven : \A g \in given : g.id # k

HasRoom(s) == /\ Cardinality(given) < MaxGiven
              /\ \A t \in Cashier \ {s} : till[t].op # "remove"

\* The order and its bill, if that is not cancelled, show what discounts come to.
Show(o, sub, disc) ==
  LET total == computeTotalAmount(sub, disc) IN
    /\ sale' = [sale EXCEPT ![o].disc = disc, ![o].total = total]
    /\ slip' = IF slip[o].status = "LIVE"
                 THEN [slip EXCEPT ![o].grand = total, ![o].own = FALSE]
                 ELSE slip

-----------------------------------------------------------------------------
(* The rules *)

\* Mutant: the uses of one customer are not counted.
UsedUp_Any(p, o) == FALSE

\* perCustomerLimit: an anonymous order has no customer to count for.
UsedUp(p, o) ==
  /\ promo[p].per > 0 /\ sale[o].who # WalkIn
  /\ Cardinality({g \in Uses(p) : sale[g.sale].who = sale[o].who}) >= promo[p].per

evaluateEligibility(p, o) ==
  /\ promo[p].on /\ ~promo[p].archived /\ promo[p].due
  /\ promo[p].limit > 0 => promo[p].used < promo[p].limit
  /\ ~UsedUp(p, o)

\* Mutant: a discount given by hand does not keep others away.
canStackWith_Manual(p, o) ==
  Of(o) # {} => promo[p].stack /\ Cardinality(Of(o)) < promo[p].most

\* The rows that exist carry no "stackable" of their own: only one given by hand is
\* known not to stack.
canStackWith(p, o) ==
  Of(o) # {} => /\ promo[p].stack /\ Cardinality(Of(o)) < promo[p].most
                /\ \A g \in Of(o) : g.promo # NoPromo

\* Mutant: a promotion may be given twice to one order.
Duplicate_Never(p, o) == FALSE

Duplicate(p, o) == \E g \in Of(o) : g.promo = p

-----------------------------------------------------------------------------
(* Giving a discount: applyDiscountToOrder *)

\* order.bill is not read, so that a paid bill refuses nothing.  A discount of staff
\* is worth what the role or the request makes of it: any worth up to its own.
ReadForApply(s) ==
  /\ MayStart(s)
  /\ \E o \in Sale, p \in Promo :
       /\ ~sale[o].deleted /\ sale[o].status # "CANCELLED"
       /\ ~Duplicate(p, o) /\ canStackWith(p, o) /\ evaluateEligibility(p, o)
       /\ Give(s, [TillIdle EXCEPT !.op = "apply", !.phase = "checked", !.sale = o,
                      !.promo = p, !.sub = sale[o].sub, !.limit = promo[p].limit,
                      !.amt = calculateDiscountAmount(promo[p].worth, sale[o].sub)])
       /\ Meet(o)
  /\ UNCHANGED <<promo, sale, slip, given, always, summit, each>>

\* Mutant: the claim trusts the check made before the transaction.
Claimed_Unguarded(p, limit) == TRUE

\* The guarded update: the limit as it was read, unless there is none any more.
Claimed(p, limit) == promo[p].limit = 0 \/ promo[p].used < limit

\* The transaction begins: the use is claimed and the other discounts are read.
Claim(s) ==
  LET r == till[s] IN
    /\ r.op = "apply" /\ r.phase = "checked"
    /\ r.limit > 0 => PromoFree(s, r.promo)
    /\ IF r.limit > 0 /\ ~Claimed(r.promo, r.limit)
         THEN Return(s)
         ELSE Give(s, [r EXCEPT !.phase = "open", !.sum = SumOf(Of(r.sale)) + r.amt])
    /\ UNCHANGED <<promo, sale, slip, given, odd, always, summit, each>>

Apply(s) ==
  LET r == till[s] IN
    /\ r.op = "apply" /\ r.phase = "open" /\ HasRoom(s)
    /\ given' = given \cup {[id |-> NewId, sale |-> r.sale, promo |-> r.promo, amt |-> r.amt]}
    /\ promo' = [promo EXCEPT ![r.promo].used = @ + (IF r.limit > 0 THEN 1 ELSE 0)]
    /\ Show(r.sale, r.sub, r.sum)
    /\ Return(s)
    /\ UNCHANGED <<odd, always, summit, each>>

\* Mutant: the discount by hand comes on top of the others.
ByHand_Stacks(o) == TRUE

ByHand(o) == Of(o) = {}

ReadForManual(s) ==
  /\ MayStart(s)
  /\ \E o \in Sale, w \in Worths :
       /\ ~sale[o].deleted /\ sale[o].status # "CANCELLED" /\ ByHand(o)
       /\ Give(s, [TillIdle EXCEPT !.op = "manual", !.phase = "checked", !.sale = o,
                      !.sub = sale[o].sub,
                      !.amt = calculateDiscountAmount(w, sale[o].sub)])
       /\ Meet(o)
  /\ UNCHANGED <<promo, sale, slip, given, always, summit, each>>

applyManualDiscount(s) ==
  LET r == till[s] IN
    /\ r.op = "manual" /\ HasRoom(s)
    /\ given' = given \cup {[id |-> NewId, sale |-> r.sale, promo |-> NoPromo, amt |-> r.amt]}
    /\ Show(r.sale, r.sub, r.amt)
    /\ Return(s)
    /\ UNCHANGED <<promo, odd, always, summit, each>>

-----------------------------------------------------------------------------
(* Taking one back: removeOrderDiscount *)

ReadForRemove(s) ==
  /\ MayStart(s)
  /\ \E g \in given :
       /\ sale[g.sale].status # "CANCELLED"
       /\ Give(s, [TillIdle EXCEPT !.op = "remove", !.phase = "checked", !.sale = g.sale,
                      !.promo = g.promo, !.row = g.id, !.sub = sale[g.sale].sub])
       /\ Meet(g.sale)
  /\ UNCHANGED <<promo, sale, slip, given, always, summit, each>>

\* The row is deleted, which waits for another request that does, and fails after it;
\* the use is given back, and the rest is read.
Delete(s) ==
  LET r == till[s] IN
    /\ r.op = "remove" /\ r.phase = "checked"
    /\ \A t \in Cashier \ {s} : ~(till[t].phase = "open" /\ till[t].row = r.row)
    /\ r.promo # NoPromo => PromoFree(s, r.promo)
    /\ IF \E g \in given : g.id = r.row
         THEN Give(s, [r EXCEPT !.phase = "open",
                                !.sum = SumOf({g \in Of(r.sale) : g.id # r.row})])
         ELSE Return(s)
    /\ UNCHANGED <<promo, sale, slip, given, odd, always, summit, each>>

\* Mutant: the use is not given back.
GivenBack_Kept(p) == promo[p].used

GivenBack(p) == IF promo[p].used > 0 THEN promo[p].used - 1 ELSE 0

Remove(s) ==
  LET r == till[s] IN
    /\ r.op = "remove" /\ r.phase = "open"
    /\ given' = {g \in given : g.id # r.row}
    /\ IF r.promo = NoPromo
         THEN UNCHANGED promo
         ELSE promo' = [promo EXCEPT ![r.promo].used = GivenBack(r.promo)]
    /\ Show(r.sale, r.sub, r.sum)
    /\ Return(s)
    /\ UNCHANGED <<odd, always, summit, each>>

-----------------------------------------------------------------------------
(* What else changes an order and its bill *)

\* updateDiscount of the order: it knows nothing of promotions.
ReadForDirect(s) ==
  /\ MayStart(s)
  /\ \E o \in Sale, w \in {Unset, 0} \cup Worths :
       /\ sale[o].status # "CANCELLED"
       /\ Give(s, [TillIdle EXCEPT !.op = "direct", !.phase = "checked", !.sale = o,
                      !.sub = sale[o].sub, !.direct = w])
       /\ Ignore(o)
  /\ UNCHANGED <<promo, sale, slip, given, always, summit, each>>

WriteDirect(s) ==
  LET r == till[s]
      disc == Off(r.direct, r.sub) IN
    /\ r.op = "direct" /\ r.phase = "checked"
    /\ sale' = [sale EXCEPT ![r.sale].direct = r.direct, ![r.sale].disc = disc,
                             ![r.sale].total = r.sub - disc]
    /\ Give(s, [r EXCEPT !.phase = "sync", !.sum = r.sub - disc])
    /\ UNCHANGED <<promo, slip, given, odd, always, summit, each>>

\* The bill, even one that is cancelled.
SyncDirect(s) ==
  LET r == till[s] IN
    /\ r.op = "direct" /\ r.phase = "sync"
    /\ slip' = IF slip[r.sale].status = "NONE" THEN slip
                 ELSE [slip EXCEPT ![r.sale].grand = r.sum, ![r.sale].own = FALSE]
    /\ Return(s)
    /\ UNCHANGED <<promo, sale, given, odd, always, summit, each>>

\* A change of the lines, and recalculateOrder, which takes off what the order's own
\* fields say and nothing of what promotions give.  Its own steps are Billing's.
recalculateOrder(o) ==
  /\ sale[o].status = "OPEN" /\ ~sale[o].deleted
  /\ \E sub \in Subs \ {sale[o].sub} :
       LET disc == Off(sale[o].direct, sub) IN
         /\ sale' = [sale EXCEPT ![o].sub = sub, ![o].disc = disc, ![o].total = sub - disc]
         /\ slip' = IF slip[o].status = "NONE" THEN slip
                      ELSE [slip EXCEPT ![o].sub = sub, ![o].grand = sub - disc,
                                        ![o].own = FALSE]
  /\ odd' = IF Of(o) # {} \/ On(o) # {} THEN odd \cup {o} ELSE odd
  /\ UNCHANGED <<promo, given, till, always, summit, each>>

\* updateOrder: new lines, and the order's own discount as the request has it.
ReadForReplace(s) ==
  /\ MayStart(s)
  /\ \E o \in Sale, sub \in Subs, w \in {Unset, 0} \cup Worths :
       /\ sale[o].status = "OPEN"
       /\ Give(s, [TillIdle EXCEPT !.op = "replace", !.phase = "checked", !.sale = o,
                      !.sub = sub, !.direct = w])
       /\ MeetUnless(o, w = Unset /\ Of(o) = {} /\ slip[o].status # "LIVE")
  /\ UNCHANGED <<promo, sale, slip, given, always, summit, each>>

updateOrder(s) ==
  LET r == till[s]
      disc == Off(r.direct, r.sub) IN
    /\ r.op = "replace"
    /\ sale' = [sale EXCEPT ![r.sale].sub = r.sub, ![r.sale].direct = r.direct,
                             ![r.sale].disc = disc, ![r.sale].total = r.sub - disc]
    /\ Return(s)
    /\ UNCHANGED <<promo, slip, given, odd, always, summit, each>>

\* mergeOrders: the lines of one order go to another, neither of them billed.
ReadForMerge(s) ==
  /\ MayStart(s)
  /\ \E o, from \in Sale :
       /\ o # from
       /\ \A q \in {o, from} : sale[q].status = "OPEN" /\ slip[q].status = "NONE"
       /\ Give(s, [TillIdle EXCEPT !.op = "merge", !.phase = "checked", !.sale = o,
                      !.from = from])
       /\ MeetUnless(o, Of(o) = {})
  /\ UNCHANGED <<promo, sale, slip, given, always, summit, each>>

mergeOrders(s) ==
  LET r == till[s] IN
    /\ r.op = "merge"
    /\ \E sub \in Subs :
         LET disc == Off(sale[r.sale].direct, sub) IN
           sale' = [sale EXCEPT ![r.from].status = "CANCELLED", ![r.sale].sub = sub,
                                ![r.sale].disc = disc, ![r.sale].total = sub - disc]
    /\ Return(s)
    /\ UNCHANGED <<promo, slip, given, odd, always, summit, each>>

\* Discounts and their uses stay with an order that is cancelled or deleted.
CloseOrder(o) ==
  /\ \/ sale[o].status = "OPEN" /\ sale' = [sale EXCEPT ![o].status = "CANCELLED"]
     \/ ~sale[o].deleted /\ sale' = [sale EXCEPT ![o].deleted = TRUE]
  /\ UNCHANGED <<promo, slip, given, till, odd, always, summit, each>>

\* Which orders are merged is Billing's.
splitOrders(o) ==
  /\ sale[o].status = "CANCELLED"
  /\ sale' = [sale EXCEPT ![o].status = "OPEN"]
  /\ UNCHANGED <<promo, slip, given, till, odd, always, summit, each>>

-----------------------------------------------------------------------------
(* Bills: when each may be made, paid and cancelled is Billing's *)

\* grandTotal.
Payable(sub, disc, extra) == IF sub - disc + extra < 0 THEN 0 ELSE sub - disc + extra

\* Mutant: the order's discount is not inherited.
Inherited_Dropped(o) == 0

\* What a bill takes off when the request says nothing of a discount.
Inherited(o) ==
  IF sale[o].direct # Unset THEN Off(sale[o].direct, sale[o].sub)
                            ELSE Least(sale[o].disc, sale[o].sub)

ToBill(o, disc, extra, own) ==
  [TillIdle EXCEPT !.op = "bill", !.phase = "checked", !.sale = o, !.sub = sale[o].sub,
                   !.extra = extra, !.sum = Payable(sale[o].sub, disc, extra), !.own = own]

\* The request may ask for a discount and charges of its own.
ReadForBill(s) ==
  /\ MayStart(s)
  /\ \E o \in Sale, w \in {Unset, 0} \cup Worths, extra \in Extras :
       LET disc == IF w = Unset THEN Inherited(o) ELSE Least(w, sale[o].sub) IN
         /\ sale[o].status = "OPEN" /\ slip[o].status # "LIVE"
         /\ Give(s, ToBill(o, disc, extra, w # Unset \/ extra # 0))
         /\ Meet(o)
  /\ UNCHANGED <<promo, sale, slip, given, always, summit, each>>

\* The row of a live bill, or of a new one: an order has one row.
Billed(o, r) ==
  slip' = [slip EXCEPT ![o] = [status |-> IF @.status = "NONE" THEN "LIVE" ELSE @.status,
                                sub |-> r.sub, extra |-> r.extra, grand |-> r.sum,
                                own |-> r.own]]

createBill(s) ==
  LET r == till[s] IN
    /\ r.op = "bill"
    /\ IF slip[r.sale].status = "NONE" THEN Billed(r.sale, r) ELSE UNCHANGED slip
    /\ Return(s)
    /\ UNCHANGED <<promo, sale, given, odd, always, summit, each>>

\* updateBillDiscount: it knows nothing of the order.
ReadForBillDiscount(s) ==
  /\ MayStart(s)
  /\ \E o \in Sale, w \in {0} \cup Worths :
       /\ slip[o].status = "LIVE"
       /\ Give(s, [TillIdle EXCEPT !.op = "billDiscount", !.phase = "checked", !.sale = o,
                      !.sum = slip[o].sub - Least(w, slip[o].sub) + slip[o].extra])
  /\ UNCHANGED <<promo, sale, slip, given, odd, always, summit, each>>

updateBillDiscount(s) ==
  LET r == till[s] IN
    /\ r.op = "billDiscount"
    /\ slip' = [slip EXCEPT ![r.sale].grand = r.sum, ![r.sale].own = TRUE]
    /\ Return(s)
    /\ UNCHANGED <<promo, sale, given, odd, always, summit, each>>

ToCollect(o, disc, direct, extra) ==
  [TillIdle EXCEPT !.op = "collect", !.phase = "checked", !.sale = o, !.sub = sale[o].sub,
                   !.amt = disc, !.direct = direct, !.extra = extra,
                   !.sum = Payable(sale[o].sub, disc, extra), !.own = extra # 0,
                   !.had = slip[o].status = "LIVE"]

\* collectPayment: what promotions take off, clamped, or else what the request asks
\* for, with a discountType or without.
ReadForCollect(s) ==
  /\ MayStart(s)
  /\ \E o \in Sale, w \in {0} \cup Worths, extra \in Extras :
     \E direct \in {Unset, w} :
       LET engine == Of(o) # {}
           disc == Least(IF engine THEN sale[o].disc ELSE w, sale[o].sub) IN
         /\ sale[o].status = "OPEN" /\ ~sale[o].deleted
         /\ engine => w = 0 /\ direct = Unset
         /\ Give(s, ToCollect(o, disc, direct, extra))
         /\ MeetUnless(o, direct = Unset /\ disc = sale[o].disc)
  /\ UNCHANGED <<promo, sale, slip, given, always, summit, each>>

\* The bill found is updated, whatever became of it; a cent short, the order is not.
collectPayment(s) ==
  LET r == till[s] IN
    /\ r.op = "collect"
    /\ IF r.had \/ slip[r.sale].status = "NONE"
         THEN /\ Billed(r.sale, r)
              /\ \/ sale' = [sale EXCEPT ![r.sale].status = "OPEN", ![r.sale].disc = r.amt,
                                         ![r.sale].direct = r.direct]
                 \/ UNCHANGED sale
         ELSE UNCHANGED <<slip, sale>>
    /\ Return(s)
    /\ UNCHANGED <<promo, given, odd, always, summit, each>>

cancelBill(o) ==
  /\ slip[o].status = "LIVE"
  /\ slip' = [slip EXCEPT ![o].status = "CANCELLED"]
  /\ sale' = [sale EXCEPT ![o].status = "OPEN"]
  /\ UNCHANGED <<promo, given, till, odd, always, summit, each>>

-----------------------------------------------------------------------------
(* The promotions *)

Limit(p, limit, per) ==
  /\ always' = IF limit > 0 THEN always ELSE always \ {p}
  /\ summit' = [summit EXCEPT ![p] = IF limit > @ THEN limit ELSE @]
  /\ each' = [each EXCEPT ![p] = IF per = 0 \/ @ = 0 THEN 0 ELSE IF per > @ THEN per ELSE @]

ToEdit(p, limit, per, most, worth, stack, on) ==
  [TillIdle EXCEPT !.op = "edit", !.phase = "checked", !.promo = p, !.limit = limit,
                   !.per = per, !.most = most, !.amt = worth, !.stack = stack, !.on = on]

ReadForEdit(s) ==
  /\ MayStart(s)
  /\ \E p \in Promo, limit, per \in 0..MaxLimit, most \in 1..2, w \in Worths,
        stack, on \in BOOLEAN :
       /\ ~promo[p].archived
       /\ Give(s, ToEdit(p, limit, per, most, w, stack, on))
  /\ UNCHANGED <<promo, sale, slip, given, odd, always, summit, each>>

\* Each of these may be edited, or written back as it was read; the uses are not written.
updateDiscount(s) ==
  LET r == till[s] IN
    /\ r.op = "edit" /\ PromoFree(s, r.promo)
    /\ promo' = [promo EXCEPT ![r.promo].limit = r.limit, ![r.promo].per = r.per,
                               ![r.promo].most = r.most, ![r.promo].worth = r.amt,
                               ![r.promo].stack = r.stack, ![r.promo].on = r.on]
    /\ Limit(r.promo, r.limit, r.per)
    /\ Return(s)
    /\ UNCHANGED <<sale, slip, given, odd>>

ReadForSwitch(s) ==
  /\ MayStart(s)
  /\ \E p \in Promo :
       /\ ~promo[p].archived
       /\ Give(s, [TillIdle EXCEPT !.op = "switch", !.phase = "checked", !.promo = p,
                      !.on = ~promo[p].on])
  /\ UNCHANGED <<promo, sale, slip, given, odd, always, summit, each>>

\* By id: also of one that was archived meanwhile.
setDiscountStatus(s) ==
  LET r == till[s] IN
    /\ r.op = "switch" /\ PromoFree(s, r.promo)
    /\ promo' = [promo EXCEPT ![r.promo].on = r.on]
    /\ Return(s)
    /\ UNCHANGED <<sale, slip, given, odd, always, summit, each>>

archiveDiscount(p) ==
  /\ ~promo[p].archived /\ \A s \in Cashier : PromoFree(s, p)
  /\ promo' = [promo EXCEPT ![p].archived = TRUE, ![p].on = FALSE]
  /\ UNCHANGED <<sale, slip, given, till, odd, always, summit, each>>

\* Its dates, days and hours come and go.
ScheduleTurns(p) ==
  /\ promo' = [promo EXCEPT ![p].due = ~@]
  /\ UNCHANGED <<sale, slip, given, till, odd, always, summit, each>>

\* A refused check or a failing statement rolls the transaction back; the order's
\* updateDiscount has none, but its order is odd already.
DropRequest(s) ==
  /\ ~MayStart(s)
  /\ Return(s)
  /\ UNCHANGED <<promo, sale, slip, given, odd, always, summit, each>>

DiscountNext ==
  \/ \E s \in Cashier :
       \/ ReadForApply(s) \/ Claim(s) \/ Apply(s)
       \/ ReadForManual(s) \/ applyManualDiscount(s)
       \/ ReadForRemove(s) \/ Delete(s) \/ Remove(s)
       \/ ReadForDirect(s) \/ WriteDirect(s) \/ SyncDirect(s)
       \/ ReadForReplace(s) \/ updateOrder(s) \/ ReadForMerge(s) \/ mergeOrders(s)
       \/ ReadForBill(s) \/ createBill(s)
       \/ ReadForBillDiscount(s) \/ updateBillDiscount(s)
       \/ ReadForCollect(s) \/ collectPayment(s)
       \/ ReadForEdit(s) \/ updateDiscount(s)
       \/ ReadForSwitch(s) \/ setDiscountStatus(s) \/ DropRequest(s)
  \/ \E o \in Sale : recalculateOrder(o) \/ CloseOrder(o) \/ splitOrders(o) \/ cancelBill(o)
  \/ \E p \in Promo : archiveDiscount(p) \/ ScheduleTurns(p)

DiscountSpec == DiscountInit /\ [][DiscountNext]_discountVars

-----------------------------------------------------------------------------
(* Properties *)

\* A promotion that always had a limit counts exactly the discounts of it that are in
\* force, and never gives more than the highest limit it had: whatever requests give
\* it and take it back at the same time, and however it is edited meanwhile.
UsesAreCounted ==
  \A p \in always : /\ promo[p].used = Cardinality(Uses(p))
                     /\ promo[p].used <= summit[p]

\* An order shows the sum of the discounts in force, and so does its bill while it
\* stands, unless its amounts were asked for at the bill and not rewritten from the
\* order since, or promotions take off more than the order comes to; no promotion is on
\* an order twice, one given by hand is there alone, and no customer has a promotion
\* more often than ever allowed.  Not so for orders that two requests met on, or whose
\* discounts a request ignored: README section 6 says what happens there.
DiscountsAreShown ==
  \A o \in Sale \ odd :
    On(o) = {} =>
      /\ sale[o].disc = SumOf(Of(o))
      /\ sale[o].total = computeTotalAmount(sale[o].sub, sale[o].disc)
      /\ slip[o].status = "LIVE" /\ ~slip[o].own /\ sale[o].disc <= sale[o].sub =>
           slip[o].grand = sale[o].total
      /\ \A g, h \in Of(o) : g # h => NoPromo # g.promo /\ g.promo # h.promo
      /\ \A p \in Promo :
           each[p] > 0 /\ sale[o].who # WalkIn =>
             Cardinality({g \in Uses(p) : sale[g.sale].who = sale[o].who}) <= each[p]
=============================================================================
