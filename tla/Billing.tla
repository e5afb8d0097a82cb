-------------------------------- MODULE Billing --------------------------------
(***************************************************************************)
(* Bills and payments of one restaurant's orders: the handlers of          *)
(* controllers/payment.controller.js and controllers/bill.controller.js,   *)
(* and those of controllers/order.controller.js that close, reopen, cancel *)
(* or reprice an order under them.                                         *)
(*                                                                         *)
(* A Session is one HTTP request.  Its handler reads the order, then the   *)
(* bill, decides, perhaps draws a bill number, and only then writes; every *)
(* statement outside a transaction is a step of its own.  A transaction of *)
(* these handlers writes in its last step: what it read before may be      *)
(* stale, and its inserts meet the unique constraints when it commits.     *)
(*                                                                         *)
(* Amounts are integers: Slack is the tolerance of collectPayment (0.01)   *)
(* in their unit.  Tables and kitchen tickets, which collectPayment also   *)
(* updates, belong to the modules of those parts.                          *)
(***************************************************************************)
EXTENDS Integers, FiniteSets, FiniteSetsExt

CONSTANTS
  Order,       \* order ids; Bill.orderId is unique, so a bill is named by its order
  Session,     \* concurrent HTTP requests
  NoOrder,
  Ops,         \* the operations clients issue in this instance
  FailOps,     \* the operations that may fail or die half way
  Totals,      \* what an order may come to, before the bill's discount
  Discounts,   \* discounts a request may ask for
  Charges,     \* service charges a request may add to a bill
  Slack,       \* how far a collected amount may differ from the grand total
  MaxReceived  \* bound on what clients pay for one order

AllOps == {"collect", "bill", "pay", "split", "discount", "cancelBill",
           "complete", "reopen", "void", "cancelOrder", "hold", "merge", "unmerge",
           "edit", "replace", "orderDiscount"}

ASSUME OrderAssumption  == IsFiniteSet(Order) /\ NoOrder \notin Order
ASSUME OpsAssumption    == Ops \subseteq AllOps /\ FailOps \subseteq AllOps
ASSUME AmountAssumption == /\ Totals \subseteq Nat \ {0} /\ Discounts \subseteq Nat
                           /\ Charges \subseteq Nat
                           /\ Slack \in Nat /\ MaxReceived \in Nat

VARIABLES
  order,     \* Order rows: status and subtotal + tax
  bill,      \* the Bill row of an order
  received,  \* sum of the Payment rows of an order's bill
  unnamed,   \* the order of the Payment row whose paymentNo is still "", if any
  merged,    \* <<order, primary>>: the rows of the active merge groups
  loose,     \* history: orders opened, voided or left open with no look at a bill
  req        \* the request a session is serving and what it read for it

vars == <<order, bill, received, unnamed, merged, loose, req>>

-----------------------------------------------------------------------------
(* Rows *)

\* OPEN stands for every status that is neither COMPLETED nor CANCELLED.
OrderRow == [status : {"OPEN", "COMPLETED", "CANCELLED"}, total : Totals]

\* no = 0: the order has no bill row; extra: the service charge.
BillRow == [no : Nat, sub : Nat, extra : Nat, grand : Nat, paid : Nat,
            status : {"UNPAID", "PAID", "CANCELLED"},
            payment : {"PENDING", "PARTIAL", "PAID"}, cancelled : BOOLEAN]

NoBill == [no |-> 0, sub |-> 0, extra |-> 0, grand |-> 0, paid |-> 0,
           status |-> "UNPAID", payment |-> "PENDING", cancelled |-> FALSE]

Phase == {"idle", "ordered", "checked", "numbered", "inserted", "named", "answered"}

\* sub, extra, grand, paid: as read or computed; had: a bill to update, or a group
\* to join, was found; with: the target of a merge, the orders a split reopens;
\* ans: how collectPayment answered
Request == [phase : Phase, op : AllOps \cup {"none"}, ord : Order \cup {NoOrder},
            status : {"OPEN", "COMPLETED", "CANCELLED"}, sub : Nat, extra : Nat,
            grand : Nat, paid : Nat, amt : Nat, no : Nat, had : BOOLEAN,
            with : SUBSET Order, ans : {"none", "collected", "already"}]

Idle == [phase |-> "idle", op |-> "none", ord |-> NoOrder, status |-> "OPEN",
         sub |-> 0, extra |-> 0, grand |-> 0, paid |-> 0, amt |-> 0, no |-> 0,
         had |-> FALSE, with |-> {}, ans |-> "none"]

TypeOK ==
  /\ order \in [Order -> OrderRow]
  /\ bill \in [Order -> BillRow]
  /\ received \in [Order -> Nat]
  /\ unnamed \in Order \cup {NoOrder}
  /\ merged \subseteq Order \X Order /\ loose \subseteq Order
  /\ req \in [Session -> Request]

Init ==
  /\ order \in [Order -> [status : {"OPEN"}, total : Totals]]
  /\ bill = [o \in Order |-> NoBill]
  /\ received = [o \in Order |-> 0]
  /\ unnamed = NoOrder
  /\ merged = {} /\ loose = {}
  /\ req = [s \in Session |-> Idle]

-----------------------------------------------------------------------------
(* Helpers *)

HasBill(o) == bill[o].no # 0
Live(o)    == HasBill(o) /\ ~bill[o].cancelled

AtLeastZero(x) == IF x < 0 THEN 0 ELSE x

\* The order, if this step takes it away from COMPLETED without looking at a bill.
Loosened(o) == IF order[o].status = "COMPLETED" THEN {o} ELSE {}

\* The orders of an active group that o is the primary of.  Two merges at once can
\* each make a group of one primary: any of its orders may be in the one found.
Groups(o) == SUBSET {p \in Order : <<p, o>> \in merged} \ {{}}

\* The group found with o as its primary, if any, is closed.
Release(o) == IF Groups(o) = {} THEN UNCHANGED merged
              ELSE \E G \in Groups(o) : merged' = merged \ {<<p, o>> : p \in G}

\* Mutant: the discount is not clamped to the subtotal.
Discounted_Unclamped(sub, d) == sub - d

\* calculateDiscountAmount never exceeds the subtotal it is taken from.
Discounted(sub, d) == AtLeastZero(sub - d)

\* generateBillNumber: the maximum of the numbers in use, plus one.
NextNumber == 1 + Max({bill[o].no : o \in Order} \cup {0})

Serve(s, op) == req[s].phase = "idle" /\ op \in Ops

At(s, op, phase) == req[s].op = op /\ req[s].phase = phase

Answer(s, r) == req' = [req EXCEPT ![s] = r]
Finish(s)    == Answer(s, Idle)

\* What a payment leaves on a bill row, paid in full or not.
Settle(row, paid, grand) ==
  [row EXCEPT !.paid = paid,
              !.payment = IF paid >= grand THEN "PAID" ELSE "PARTIAL",
              !.status = IF paid >= grand THEN "PAID" ELSE @]

-----------------------------------------------------------------------------
(* collectPayment: bill, payments and completion of an order in one click *)

CollectReadOrder(s) ==
  /\ Serve(s, "collect")
  /\ \E o \in Order, d \in Discounts, c \in Charges :
       /\ order[o].status = "OPEN"
       /\ \E amt \in 0..MaxReceived :
            LET grand == Discounted(order[o].total, d) + c IN
            /\ amt - grand <= Slack /\ grand - amt <= Slack
            /\ received[o] + amt <= MaxReceived
            /\ Answer(s, [Idle EXCEPT !.phase = "ordered", !.op = "collect",
                 !.ord = o, !.sub = order[o].total, !.extra = c, !.grand = grand,
                 !.amt = amt])
  /\ UNCHANGED <<order, bill, received, unnamed, merged, loose>>

\* An order with a paid bill is answered with that bill.
CollectReadBill(s) ==
  LET o == req[s].ord IN
  /\ At(s, "collect", "ordered")
  /\ IF Live(o) /\ bill[o].payment = "PAID"
     THEN Answer(s, [req[s] EXCEPT !.phase = "answered", !.ans = "already"])
     ELSE Answer(s, [req[s] EXCEPT !.phase = "checked", !.had = Live(o)])
  /\ UNCHANGED <<order, bill, received, unnamed, merged, loose>>

\* Inside the transaction, for a bill that has to be created.
CollectNumber(s) ==
  /\ At(s, "collect", "checked")
  /\ ~req[s].had
  /\ Answer(s, [req[s] EXCEPT !.phase = "numbered", !.no = NextNumber])
  /\ UNCHANGED <<order, bill, received, unnamed, merged, loose>>

\* What the transaction writes: the bill, the payments, and, when it is fully paid,
\* the order's completion and the release of its group.
Collect(s, no) ==
  LET r == req[s]
      full == r.amt >= r.grand
  IN /\ bill' = [bill EXCEPT ![r.ord] =
          [@ EXCEPT !.no = no, !.sub = r.sub, !.extra = r.extra, !.grand = r.grand,
                    !.paid = r.amt, !.payment = IF full THEN "PAID" ELSE "PARTIAL",
                    !.status = IF full THEN "PAID" ELSE "UNPAID"]]
     /\ received' = [received EXCEPT ![r.ord] = @ + r.amt]
     /\ order' = [order EXCEPT ![r.ord].status = IF full THEN "COMPLETED" ELSE @]
     /\ IF full THEN Release(r.ord) ELSE UNCHANGED merged
     /\ loose' = IF full \/ order[r.ord].status = "COMPLETED" THEN loose
                 ELSE loose \cup {r.ord}
     /\ Answer(s, [r EXCEPT !.phase = "answered", !.ans = "collected"])

\* Mutant: no unique constraint on Bill.orderId.
Insertable_NoUnique(o, no) == \A p \in Order : bill[p].no # no

\* Bill.orderId and (restaurantId, billNo) are unique.
Insertable(o, no) == ~HasBill(o) /\ \A p \in Order : bill[p].no # no

CollectInsert(s) ==
  /\ At(s, "collect", "numbered")
  /\ Insertable(req[s].ord, req[s].no)
  /\ Collect(s, req[s].no)
  /\ UNCHANGED unnamed

\* P2002 is taken to mean that another request paid this order.
CollectConflict(s) ==
  /\ At(s, "collect", "numbered")
  /\ ~Insertable(req[s].ord, req[s].no)
  /\ Answer(s, [req[s] EXCEPT !.phase = "answered", !.ans = "already"])
  /\ UNCHANGED <<order, bill, received, unnamed, merged, loose>>

\* The bill found before is updated by its id, whatever it has become.
CollectUpdate(s) ==
  /\ At(s, "collect", "checked")
  /\ req[s].had
  /\ Collect(s, bill[req[s].ord].no)
  /\ UNCHANGED unnamed

Answered(s) ==
  /\ req[s].phase = "answered"
  /\ Finish(s)
  /\ UNCHANGED <<order, bill, received, unnamed, merged, loose>>

-----------------------------------------------------------------------------
(* createBill: a bill for a completed order, to be paid later *)

BillReadOrder(s) ==
  /\ Serve(s, "bill")
  /\ \E o \in Order, d \in Discounts, c \in Charges :
       Answer(s, [Idle EXCEPT !.phase = "ordered", !.op = "bill", !.ord = o,
                    !.status = order[o].status, !.sub = order[o].total, !.extra = c,
                    !.grand = Discounted(order[o].total, d) + c])
  /\ UNCHANGED <<order, bill, received, unnamed, merged, loose>>

BillReadBill(s) ==
  /\ At(s, "bill", "ordered")
  /\ IF Live(req[s].ord) \/ req[s].status # "COMPLETED"
     THEN Finish(s)
     ELSE Answer(s, [req[s] EXCEPT !.phase = "checked"])
  /\ UNCHANGED <<order, bill, received, unnamed, merged, loose>>

BillNumber(s) ==
  /\ At(s, "bill", "checked")
  /\ Answer(s, [req[s] EXCEPT !.phase = "numbered", !.no = NextNumber])
  /\ UNCHANGED <<order, bill, received, unnamed, merged, loose>>

\* A conflict is answered with "An active bill already exists for this order".
BillInsert(s) ==
  LET r == req[s] IN
  /\ At(s, "bill", "numbered")
  /\ bill' = IF Insertable(r.ord, r.no)
             THEN [bill EXCEPT ![r.ord] =
                     [NoBill EXCEPT !.no = r.no, !.sub = r.sub, !.extra = r.extra,
                                    !.grand = r.grand]]
             ELSE bill
  /\ Finish(s)
  /\ UNCHANGED <<order, received, unnamed, merged, loose>>

-----------------------------------------------------------------------------
(* createPayment and splitPayment: payments of a bill *)

\* A settled bill is refused, a cancelled one is not.
PayReadBill(s) ==
  /\ Serve(s, "pay")
  /\ \E o \in Order, amt \in 1..MaxReceived :
       /\ HasBill(o)
       /\ bill[o].payment # "PAID"
       /\ received[o] + amt <= MaxReceived
       /\ Answer(s, [Idle EXCEPT !.phase = "checked", !.op = "pay", !.ord = o,
            !.grand = bill[o].grand, !.paid = bill[o].paid, !.amt = amt])
  /\ UNCHANGED <<order, bill, received, unnamed, merged, loose>>

\* The payment is inserted with an empty number, which is unique as well.
PayInsert(s) ==
  /\ At(s, "pay", "checked")
  /\ IF unnamed = NoOrder
     THEN /\ unnamed' = req[s].ord
          /\ received' = [received EXCEPT ![req[s].ord] = @ + req[s].amt]
          /\ Answer(s, [req[s] EXCEPT !.phase = "inserted"])
     ELSE Finish(s) /\ UNCHANGED <<received, unnamed>>
  /\ UNCHANGED <<order, bill, merged, loose>>

PayName(s) ==
  /\ At(s, "pay", "inserted")
  /\ unnamed' = NoOrder
  /\ Answer(s, [req[s] EXCEPT !.phase = "named"])
  /\ UNCHANGED <<order, bill, received, merged, loose>>

\* Mutant: the bill is credited before the payment exists.
PayCredit_Early(s) ==
  /\ req[s].op = "pay" /\ req[s].phase \in {"checked", "named"}
  /\ bill' = [bill EXCEPT ![req[s].ord] =
                Settle(@, req[s].paid + req[s].amt, req[s].grand)]
  /\ Finish(s)
  /\ UNCHANGED <<order, received, unnamed, merged, loose>>

\* Mutant: earlier part payments are forgotten.
PayCredit_Replaces(s) ==
  /\ At(s, "pay", "named")
  /\ bill' = [bill EXCEPT ![req[s].ord] = Settle(@, req[s].amt, req[s].grand)]
  /\ Finish(s)
  /\ UNCHANGED <<order, received, unnamed, merged, loose>>

\* The bill's paid amount is computed from the bill read at the beginning.
PayCredit(s) ==
  /\ At(s, "pay", "named")
  /\ bill' = [bill EXCEPT ![req[s].ord] =
                Settle(@, req[s].paid + req[s].amt, req[s].grand)]
  /\ Finish(s)
  /\ UNCHANGED <<order, received, unnamed, merged, loose>>

\* splitPayment does not refuse a settled bill; amt is the sum of its payments.
SplitReadBill(s) ==
  /\ Serve(s, "split")
  /\ \E o \in Order, amt \in 2..MaxReceived :
       /\ HasBill(o)
       /\ received[o] + amt <= MaxReceived
       /\ Answer(s, [Idle EXCEPT !.phase = "checked", !.op = "split", !.ord = o,
            !.grand = bill[o].grand, !.paid = bill[o].paid, !.amt = amt])
  /\ UNCHANGED <<order, bill, received, unnamed, merged, loose>>

SplitCommit(s) ==
  LET r == req[s] IN
  /\ At(s, "split", "checked")
  /\ received' = [received EXCEPT ![r.ord] = @ + r.amt]
  /\ bill' = [bill EXCEPT ![r.ord] = Settle(@, r.paid + r.amt, r.grand)]
  /\ Finish(s)
  /\ UNCHANGED <<order, unnamed, merged, loose>>

-----------------------------------------------------------------------------
(* updateBillDiscount and cancelBill *)

\* Mutant: the discount of a paid bill can be changed.
DiscountReadBill_NoGuard(s) ==
  /\ Serve(s, "discount")
  /\ \E o \in Order, d \in Discounts :
       /\ Live(o)
       /\ Answer(s, [Idle EXCEPT !.phase = "checked", !.op = "discount",
            !.ord = o, !.grand = Discounted(bill[o].sub, d) + bill[o].extra])
  /\ UNCHANGED <<order, bill, received, unnamed, merged, loose>>

DiscountReadBill(s) ==
  /\ Serve(s, "discount")
  /\ \E o \in Order, d \in Discounts :
       /\ Live(o)
       /\ bill[o].status # "PAID"
       /\ bill[o].payment # "PAID"
       /\ Answer(s, [Idle EXCEPT !.phase = "checked", !.op = "discount",
            !.ord = o, !.grand = Discounted(bill[o].sub, d) + bill[o].extra])
  /\ UNCHANGED <<order, bill, received, unnamed, merged, loose>>

DiscountWrite(s) ==
  /\ At(s, "discount", "checked")
  /\ bill' = [bill EXCEPT ![req[s].ord].grand = req[s].grand]
  /\ Finish(s)
  /\ UNCHANGED <<order, received, unnamed, merged, loose>>

CancelBillRead(s) ==
  /\ Serve(s, "cancelBill")
  /\ \E o \in Order :
       /\ Live(o)
       /\ Answer(s, [Idle EXCEPT !.phase = "checked", !.op = "cancelBill", !.ord = o])
  /\ UNCHANGED <<order, bill, received, unnamed, merged, loose>>

\* The payments stay, and the order is PENDING again.
CancelBillCommit(s) ==
  /\ At(s, "cancelBill", "checked")
  /\ bill' = [bill EXCEPT ![req[s].ord].status = "CANCELLED",
                          ![req[s].ord].cancelled = TRUE]
  /\ order' = [order EXCEPT ![req[s].ord].status = "OPEN"]
  /\ Finish(s)
  /\ UNCHANGED <<received, unnamed, merged, loose>>

-----------------------------------------------------------------------------
(* What the order handlers do meanwhile *)

\* The status each request of updateOrderStatus asks for.
NewStatus == [complete |-> "COMPLETED", reopen |-> "OPEN", void |-> "CANCELLED"]

\* updateOrderStatus refuses only cancelled orders, on what it read.
StatusRead(s) ==
  \E op \in DOMAIN NewStatus :
    /\ Serve(s, op)
    /\ \E o \in Order :
         /\ order[o].status # "CANCELLED"
         /\ Answer(s, [Idle EXCEPT !.phase = "checked", !.op = op, !.ord = o])
    /\ UNCHANGED <<order, bill, received, unnamed, merged, loose>>

StatusWrite(s) ==
  /\ req[s].phase = "checked" /\ req[s].op \in DOMAIN NewStatus
  /\ order' = [order EXCEPT ![req[s].ord].status = NewStatus[req[s].op]]
  /\ loose' = IF req[s].op = "complete" THEN loose ELSE loose \cup Loosened(req[s].ord)
  /\ Finish(s)
  /\ UNCHANGED <<bill, received, unnamed, merged>>

\* holdOrder and resumeOrder: each reads a status that is open and writes another
\* that is, whatever the order has become.
HoldRead(s) ==
  /\ Serve(s, "hold")
  /\ \E o \in Order :
       /\ order[o].status = "OPEN"
       /\ Answer(s, [Idle EXCEPT !.phase = "checked", !.op = "hold", !.ord = o])
  /\ UNCHANGED <<order, bill, received, unnamed, merged, loose>>

HoldWrite(s) ==
  /\ At(s, "hold", "checked")
  /\ order' = [order EXCEPT ![req[s].ord].status = "OPEN"]
  /\ loose' = loose \cup Loosened(req[s].ord)
  /\ Finish(s)
  /\ UNCHANGED <<bill, received, unnamed, merged>>

CancelOrderRead(s) ==
  /\ Serve(s, "cancelOrder")
  /\ \E o \in Order :
       /\ order[o].status = "OPEN"
       /\ Answer(s, [Idle EXCEPT !.phase = "checked", !.op = "cancelOrder", !.ord = o])
  /\ UNCHANGED <<order, bill, received, unnamed, merged, loose>>

\* Mutant: the cancel does not claim the status it read.
CancelOrderClaim_Unclaimed(s) ==
  /\ At(s, "cancelOrder", "checked")
  /\ order' = [order EXCEPT ![req[s].ord].status = "CANCELLED"]
  /\ Finish(s)
  /\ UNCHANGED <<bill, received, unnamed, merged, loose>>

\* The claim re-reads the status; a lost claim throws.  The group of the cancelled
\* order is released after the commit, and a failure to do so is only logged.
CancelOrderClaim(s) ==
  LET o == req[s].ord IN
  /\ At(s, "cancelOrder", "checked")
  /\ order' = [order EXCEPT ![o].status = IF @ = "OPEN" THEN "CANCELLED" ELSE @]
  /\ \/ UNCHANGED merged
     \/ order[o].status = "OPEN" /\ Release(o)
  /\ Finish(s)
  /\ UNCHANGED <<bill, received, unnamed, loose>>

\* mergeOrders: the source is open, has no bill row and is in no active group.
MergeRead(s) ==
  /\ Serve(s, "merge")
  /\ \E o, p \in Order :
       /\ o # p
       /\ order[o].status = "OPEN" /\ ~HasBill(o)
       /\ Answer(s, [Idle EXCEPT !.phase = "ordered", !.op = "merge", !.ord = o,
                                !.with = {p}])
  /\ UNCHANGED <<order, bill, received, unnamed, merged, loose>>

\* The target is open and has no bill row; it may lead a group already.
MergeReadTarget(s) ==
  /\ At(s, "merge", "ordered")
  /\ \E p \in req[s].with :
       IF /\ order[p].status = "OPEN" /\ ~HasBill(p)
          /\ \A g \in merged : req[s].ord \notin {g[1], g[2]}
       THEN Answer(s, [req[s] EXCEPT !.phase = "checked", !.had = Groups(p) # {}])
       ELSE Finish(s)
  /\ UNCHANGED <<order, bill, received, unnamed, merged, loose>>

\* The lines move to the target, whose total is rewritten, and the source is
\* cancelled.  A group that was found may have been released meanwhile.
MergeCommit(s) ==
  LET o == req[s].ord IN
  /\ At(s, "merge", "checked")
  /\ \E p \in req[s].with, total \in Totals :
       /\ order' = [order EXCEPT ![o].status = "CANCELLED", ![p].total = total]
       /\ merged' = IF req[s].had /\ Groups(p) = {} THEN merged
                    ELSE merged \cup {<<o, p>>}
  /\ loose' = loose \cup Loosened(o)
  /\ Finish(s)
  /\ UNCHANGED <<bill, received, unnamed>>

\* splitOrders reads an active group and its orders.
UnmergeRead(s) ==
  /\ Serve(s, "unmerge")
  /\ \E o \in Order : \E G \in Groups(o) :
       Answer(s, [Idle EXCEPT !.phase = "checked", !.op = "unmerge", !.ord = o,
                             !.with = G])
  /\ UNCHANGED <<order, bill, received, unnamed, merged, loose>>

\* Every order but the primary is PENDING again, whatever it has become.
UnmergeCommit(s) ==
  LET r == req[s] IN
  /\ At(s, "unmerge", "checked")
  /\ order' = [o \in Order |-> IF o \in r.with THEN [order[o] EXCEPT !.status = "OPEN"]
                                ELSE order[o]]
  /\ merged' = merged \ {<<o, r.ord>> : o \in r.with}
  /\ loose' = loose \cup UNION {Loosened(o) : o \in r.with}
  /\ Finish(s)
  /\ UNCHANGED <<bill, received, unnamed>>

\* addOrderItem and its siblings refuse an order that has a bill row.
EditRead(s) ==
  /\ Serve(s, "edit")
  /\ \E o \in Order :
       /\ order[o].status # "CANCELLED"
       /\ ~HasBill(o)
       /\ Answer(s, [Idle EXCEPT !.phase = "checked", !.op = "edit", !.ord = o])
  /\ UNCHANGED <<order, bill, received, unnamed, merged, loose>>

\* recalculateOrder: the totals follow the edited lines.
EditWrite(s) ==
  /\ At(s, "edit", "checked")
  /\ \E total \in Totals, d \in Discounts :
       /\ order' = [order EXCEPT ![req[s].ord].total = total]
       /\ Answer(s, [req[s] EXCEPT !.phase = "ordered", !.sub = total,
                                  !.grand = Discounted(total, d)])
  /\ UNCHANGED <<bill, received, unnamed, merged, loose>>

\* ... and those of the bill, should there be one by now, whatever its state.
EditSync(s) ==
  LET o == req[s].ord IN
  /\ At(s, "edit", "ordered")
  /\ bill' = IF HasBill(o)
             THEN [bill EXCEPT ![o].sub = req[s].sub, ![o].grand = req[s].grand]
             ELSE bill
  /\ Finish(s)
  /\ UNCHANGED <<order, received, unnamed, merged, loose>>

\* updateOrder replaces the lines of a PENDING or HOLD order, billed or not.
ReplaceRead(s) ==
  /\ Serve(s, "replace")
  /\ \E o \in Order :
       /\ order[o].status = "OPEN"
       /\ Answer(s, [Idle EXCEPT !.phase = "checked", !.op = "replace", !.ord = o])
  /\ UNCHANGED <<order, bill, received, unnamed, merged, loose>>

ReplaceWrite(s) ==
  /\ At(s, "replace", "checked")
  /\ \E total \in Totals : order' = [order EXCEPT ![req[s].ord].total = total]
  /\ Finish(s)
  /\ UNCHANGED <<bill, received, unnamed, merged, loose>>

\* updateDiscount of an order: the new total is computed from what was read.
OrderDiscountRead(s) ==
  /\ Serve(s, "orderDiscount")
  /\ \E o \in Order, d \in Discounts :
       /\ order[o].status # "CANCELLED"
       /\ Answer(s, [Idle EXCEPT !.phase = "checked", !.op = "orderDiscount",
            !.ord = o, !.grand = Discounted(order[o].total, d)])
  /\ UNCHANGED <<order, bill, received, unnamed, merged, loose>>

\* It goes to the bill as well, whatever the bill's state.
OrderDiscountSync(s) ==
  LET o == req[s].ord IN
  /\ At(s, "orderDiscount", "checked")
  /\ bill' = IF HasBill(o) THEN [bill EXCEPT ![o].grand = req[s].grand] ELSE bill
  /\ Finish(s)
  /\ UNCHANGED <<order, received, unnamed, merged, loose>>

-----------------------------------------------------------------------------
\* A statement throws, a transaction is rolled back, or the process dies.
Fail(s) ==
  /\ req[s].phase \notin {"idle", "answered"} /\ req[s].op \in FailOps
  /\ Finish(s)
  /\ UNCHANGED <<order, bill, received, unnamed, merged, loose>>

Next == \E s \in Session :
  \/ CollectReadOrder(s) \/ CollectReadBill(s) \/ CollectNumber(s)
  \/ CollectInsert(s)    \/ CollectConflict(s) \/ CollectUpdate(s) \/ Answered(s)
  \/ BillReadOrder(s)    \/ BillReadBill(s)    \/ BillNumber(s)    \/ BillInsert(s)
  \/ PayReadBill(s)      \/ PayInsert(s)       \/ PayName(s)       \/ PayCredit(s)
  \/ SplitReadBill(s)    \/ SplitCommit(s)
  \/ DiscountReadBill(s) \/ DiscountWrite(s)
  \/ CancelBillRead(s)   \/ CancelBillCommit(s)
  \/ StatusRead(s)       \/ StatusWrite(s)
  \/ HoldRead(s)         \/ HoldWrite(s)
  \/ CancelOrderRead(s)  \/ CancelOrderClaim(s)
  \/ MergeRead(s)        \/ MergeReadTarget(s)  \/ MergeCommit(s)
  \/ UnmergeRead(s)      \/ UnmergeCommit(s)
  \/ EditRead(s)         \/ EditWrite(s)         \/ EditSync(s)
  \/ ReplaceRead(s)      \/ ReplaceWrite(s)
  \/ OrderDiscountRead(s) \/ OrderDiscountSync(s)
  \/ Fail(s)

Spec == Init /\ [][Next]_vars

-----------------------------------------------------------------------------
(* Properties *)

\* However payments, collects and failures interleave, a bill never shows more
\* paid than its Payment rows add up to: lost updates of Bill.paidAmount only
\* ever lose credit (createPayment and splitPayment credit a stale paidAmount).
CreditIsReceived == \A o \in Order : bill[o].paid <= received[o]

\* Orders that are only collected and cancelled, whoever races: an order that
\* took money took it once, its bill is paid in full and it is completed (the
\* unique Bill.orderId as collectPayment's last guard).
CollectedOnce ==
  \A o \in Order : received[o] # 0 \/ HasBill(o) =>
    /\ received[o] = bill[o].paid /\ bill[o].paid = bill[o].grand
    /\ bill[o].payment = "PAID"
    /\ order[o].status = "COMPLETED"

\* An order with a live bill is completed, whatever races on it, unless a handler
\* that looks at no bill took it away from COMPLETED (a status set by hand, a hold
\* or a resume, a merge or a split on what was read before) or a collect short of
\* the total left it open: createBill's check, cancelBill's reset, cancelOrder's
\* claim and collectPayment's completion never part the two themselves.
LiveBillMeansCompleted ==
  \A o \in Order \ loose : Live(o) => order[o].status = "COMPLETED"

\* Requests served one after the other, amounts exact, orders not reopened: a
\* bill shows exactly what was received, through partial, split and one-click
\* payments, whichever handler fails half way, createPayment excepted.
PaidIsReceived ==
  (\A s \in Session : req[s].phase = "idle") =>
    \A o \in Order : bill[o].paid = received[o]

\* Requests served one after the other: the totals of a settled bill are final
\* (updateBillDiscount refuses it, item edits refuse a billed order).
SettledTotalStays ==
  \A o \in Order : Live(o) /\ bill[o].payment = "PAID" =>
    bill'[o].sub = bill[o].sub /\ bill'[o].grand = bill[o].grand

Answers(s, ans) == /\ req[s].phase # "answered"
                   /\ req'[s].phase = "answered" /\ req'[s].ans = ans

\* "A P2002 here means another request already paid this order"
\* (payment.controller.js:121): who is told so finds a paid bill.
AlreadyPaidIsTrue ==
  [][\A s \in Session : Answers(s, "already") =>
       Live(req[s].ord)' /\ bill'[req[s].ord].payment = "PAID"]_vars
=============================================================================
