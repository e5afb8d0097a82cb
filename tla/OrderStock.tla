------------------------------ MODULE OrderStock ------------------------------
(***************************************************************************)
(* Orders of one restaurant and the menu stock they reserve.               *)
(*                                                                         *)
(* The handlers of controllers/order.controller.js that create, edit,      *)
(* cancel and delete an order, and the transaction helpers of              *)
(* services/inventory.service.js that they call.  A handler is a Session:  *)
(* it reads the order, checks it, and only then opens a transaction, so    *)
(* what it checked may be stale when the transaction runs.                 *)
(*                                                                         *)
(* Transactions run at PostgreSQL's default READ COMMITTED: a statement    *)
(* reads what is committed, a written row stays locked until commit, and   *)
(* an update whose row is locked waits and then re-evaluates its WHERE.    *)
(* A transaction's writes are kept in tx[s] and published by Commit(s).    *)
(***************************************************************************)
EXTENDS Integers, Sequences, FiniteSets, SequencesExt

CONSTANTS
  Order,      \* order ids
  Item,       \* menu items
  Tracked,    \* those with a non-null currentStock
  Session,    \* concurrent HTTP requests
  NoOrder,    \* the order of an idle session
  NoItem,     \* no stock row is being updated
  Ops,        \* the operations clients issue in this instance
  InitStock,  \* currentStock of each tracked item at the start
  MaxQty,     \* bound on a requested quantity
  MaxEdits    \* bound on the edits requested of the orders' lines

EditOps == {"add", "setQty", "remove", "replace"}
AllOps  == EditOps \cup
           {"create", "cancel", "delete", "status", "hold", "resume", "pay"}

ASSUME OrderAssumption   == IsFiniteSet(Order)
ASSUME TrackedAssumption == IsFiniteSet(Item) /\ Tracked \subseteq Item
ASSUME NullAssumption    == NoOrder \notin Order /\ NoItem \notin Item
ASSUME OpsAssumption     == Ops \subseteq AllOps
ASSUME StockAssumption   == InitStock \in [Tracked -> Nat]
ASSUME BoundAssumption   == MaxQty \in Nat \ {0} /\ MaxEdits \in Nat

VARIABLES
  stock,   \* MenuItem.currentStock
  order,   \* Order rows: status, isDeleted, stock claims, bill
  lines,   \* OrderItem rows of an order; a deleted row keeps its place, qty 0
  moves,   \* StockMovement rows of an order, summed per item
  req,     \* the request a session is serving and what it read for it
  tx,      \* the uncommitted writes of the session's transaction
  edits    \* edits requested so far

vars == <<stock, order, lines, moves, req, tx, edits>>

-----------------------------------------------------------------------------
(* Rows and values *)

\* PREPARING also stands for READY and SERVED: no handler tells them apart.
Status == {"NONE", "PENDING", "PREPARING", "HOLD", "COMPLETED", "CANCELLED"}

OrderRow == [status : Status, deleted : BOOLEAN, billed : BOOLEAN,
             deducted : BOOLEAN, restored : BOOLEAN]

NoRow == [status |-> "NONE", deleted |-> FALSE, billed |-> FALSE,
          deducted |-> FALSE, restored |-> FALSE]

Line == [item : Item, qty : 0..MaxQty]

\* out: sum of ORDER_CREATED and ORDER_UPDATED quantities (negative = deducted)
\* back, restores: sum and number of the ORDER_CANCELLED rows
Move == [out : Int, back : Int, restores : Nat]

Phase == {"idle", "checked", "open"}

Request == [phase : Phase, op : AllOps \cup {"none"}, ord : Order \cup {NoOrder},
            row : Nat, to : Status, want : [Item -> 0..MaxQty],
            seen : [Item -> Nat]]

Nothing == [i \in Item |-> 0]

Idle == [phase |-> "idle", op |-> "none", ord |-> NoOrder, row |-> 0,
         to |-> "NONE", want |-> Nothing, seen |-> Nothing]

\* todo: stock deltas still to apply; cur, before: the applyStockDelta call in
\* progress and the stock it read; after: stock written; did: deltas applied
Txn == [todo : [Tracked -> Int], cur : Tracked \cup {NoItem}, before : Int,
        after : [Tracked -> Int], did : [Tracked -> Int],
        moved : SUBSET Tracked, wrote : SUBSET Tracked, claim : BOOLEAN]

Zero == [i \in Tracked |-> 0]

NoTxn == [todo |-> Zero, cur |-> NoItem, before |-> 0, after |-> Zero,
          did |-> Zero, moved |-> {}, wrote |-> {}, claim |-> FALSE]

TypeOK ==
  /\ stock \in [Tracked -> Int]
  /\ order \in [Order -> OrderRow]
  /\ lines \in [Order -> Seq(Line)]
  /\ moves \in [Order -> [Tracked -> Move]]
  /\ req \in [Session -> Request]
  /\ tx \in [Session -> Txn]
  /\ edits \in 0..MaxEdits

Init ==
  /\ stock = InitStock
  /\ order = [o \in Order |-> NoRow]
  /\ lines = [o \in Order |-> <<>>]
  /\ moves = [o \in Order |-> [i \in Tracked |->
                [out |-> 0, back |-> 0, restores |-> 0]]]
  /\ req = [s \in Session |-> Idle]
  /\ tx = [s \in Session |-> NoTxn]
  /\ edits = 0

-----------------------------------------------------------------------------
(* Helpers *)

\* The quantity of item i on the rows ls.
QtyOf(ls, i) ==
  FoldLeft(LAMBDA sum, l : sum + IF l.item = i THEN l.qty ELSE 0, 0, ls)

LiveRows(ls) == {k \in 1..Len(ls) : ls[k].qty > 0}

Open(s) == req[s].phase = "open"

\* Row locks of open transactions: order rows, OrderItem rows, stock rows.
LocksOrder(s, o) == /\ Open(s) /\ req[s].ord = o
                    /\ req[s].op \in {"cancel", "delete", "status", "replace"}
LocksLine(s, o, k) ==
  /\ Open(s) /\ req[s].ord = o
  /\ \/ req[s].op \in {"setQty", "remove"} /\ req[s].row = k
     \/ req[s].op = "replace" /\ k <= req[s].row
LocksStock(s, i) == i \in tx[s].wrote

OrderFree(s, o)   == \A t \in Session \ {s} : ~LocksOrder(t, o)
LineFree(s, o, k) == \A t \in Session \ {s} : ~LocksLine(t, o, k)
StockFree(s, i)   == \A t \in Session \ {s} : ~LocksStock(t, i)

\* A session's request passed its checks and waits for its transaction.
Checked(s, op, o, row, to, want, seen) ==
  /\ req' = [req EXCEPT ![s] =
       [phase |-> "checked", op |-> op, ord |-> o, row |-> row, to |-> to,
        want |-> want, seen |-> seen]]
  /\ edits' = edits + (IF op \in EditOps THEN 1 ELSE 0)
  /\ UNCHANGED <<stock, order, lines, moves, tx>>

\* The transaction opens, with the stock deltas it is going to apply.
Begin(s, todo, claim) ==
  /\ req' = [req EXCEPT ![s].phase = "open"]
  /\ tx' = [tx EXCEPT ![s] = [NoTxn EXCEPT !.todo = todo, !.claim = claim]]
  /\ UNCHANGED <<stock, order, lines, moves, edits>>

\* The handler answers; nothing of its transaction remains.
Finish(s) ==
  /\ req' = [req EXCEPT ![s] = Idle]
  /\ tx' = [tx EXCEPT ![s] = NoTxn]
  /\ UNCHANGED edits
-----------------------------------------------------------------------------
(* What each handler reads and checks before its transaction *)

Exists(o) == order[o].status # "NONE"

Serve(s, op) == /\ req[s].phase = "idle"
                /\ op \in Ops
                /\ op \in EditOps => edits < MaxEdits

\* createOrder has nothing stale to rely on: it prices the items, inserts the
\* order and its lines and claims the reservation, all inside the transaction.
CreateOrder(s) ==
  /\ Serve(s, "create")
  /\ \E o \in Order, want \in [Item -> 0..MaxQty] :
       /\ ~Exists(o)
       /\ \A t \in Session : req[t].ord # o
       /\ want # Nothing
       /\ req' = [req EXCEPT ![s] = [Idle EXCEPT !.phase = "open",
                    !.op = "create", !.ord = o, !.to = "PENDING", !.want = want]]
       /\ tx' = [tx EXCEPT ![s] =
                    [NoTxn EXCEPT !.todo = [i \in Tracked |-> -want[i]]]]
  /\ UNCHANGED <<stock, order, lines, moves, edits>>

\* addOrderItem, updateOrderItem and deleteOrderItem refuse a cancelled order
\* and any order that has a bill row; a deleted order is not refused.
Editable(o) == /\ Exists(o)
               /\ order[o].status # "CANCELLED"
               /\ ~order[o].billed

ReadForAdd(s) ==
  /\ Serve(s, "add")
  /\ \E o \in Order, i \in Item, q \in 1..MaxQty :
       /\ Editable(o)
       /\ Checked(s, "add", o, 0, "NONE", [Nothing EXCEPT ![i] = q], Nothing)

ReadForSetQty(s) ==
  /\ Serve(s, "setQty")
  /\ \E o \in Order, q \in 1..MaxQty : Editable(o) /\
       \E k \in LiveRows(lines[o]) :
         LET l == lines[o][k] IN
         Checked(s, "setQty", o, k, "NONE", [Nothing EXCEPT ![l.item] = q],
                 [Nothing EXCEPT ![l.item] = l.qty])

\* The last item cannot be removed; the count is taken before the transaction.
ReadForRemove(s) ==
  /\ Serve(s, "remove")
  /\ \E o \in Order : Editable(o) /\
       \E k \in LiveRows(lines[o]) :
         LET l == lines[o][k] IN
         /\ LiveRows(lines[o]) # {k}
         /\ Checked(s, "remove", o, k, "NONE", Nothing,
                    [Nothing EXCEPT ![l.item] = l.qty])

\* updateOrder: only PENDING and HOLD orders, old quantities from this read.
ReadForReplace(s) ==
  /\ Serve(s, "replace")
  /\ \E o \in Order, want \in [Item -> 0..MaxQty] :
       /\ order[o].status \in {"PENDING", "HOLD"}
       /\ want # Nothing
       /\ LET old == [i \in Item |-> QtyOf(lines[o], i)]
          IN /\ old \in [Item -> Nat]  \* always: quantities are not negative
             /\ Checked(s, "replace", o, 0, "NONE", want, old)

ReadForCancel(s) ==
  /\ Serve(s, "cancel")
  /\ \E o \in Order :
       /\ Exists(o)
       /\ order[o].status \notin {"COMPLETED", "CANCELLED"}
       /\ Checked(s, "cancel", o, 0, "CANCELLED", Nothing, Nothing)

ReadForDelete(s) ==
  /\ Serve(s, "delete")
  /\ \E o \in Order :
       /\ Exists(o)
       /\ ~order[o].deleted
       /\ Checked(s, "delete", o, 0, "NONE", Nothing, Nothing)

ReadForStatus(s) ==
  /\ Serve(s, "status")
  /\ \E o \in Order, to \in Status \ {"NONE"} :
       /\ Exists(o)
       /\ order[o].status # "CANCELLED"
       /\ Checked(s, "status", o, 0, to, Nothing, Nothing)

ReadForHold(s) ==
  /\ Serve(s, "hold")
  /\ \E o \in Order :
       /\ Exists(o)
       /\ order[o].status \notin {"COMPLETED", "CANCELLED", "HOLD"}
       /\ Checked(s, "hold", o, 0, "HOLD", Nothing, Nothing)

ReadForResume(s) ==
  /\ Serve(s, "resume")
  /\ \E o \in Order :
       /\ order[o].status = "HOLD"
       /\ Checked(s, "resume", o, 0, "PENDING", Nothing, Nothing)

\* collectPayment, as far as stock is concerned: the order gets a bill row and
\* is completed.
ReadForPay(s) ==
  /\ Serve(s, "pay")
  /\ \E o \in Order :
       /\ Exists(o)
       /\ ~order[o].deleted
       /\ order[o].status \notin {"COMPLETED", "CANCELLED"}
       /\ Checked(s, "pay", o, 0, "COMPLETED", Nothing, Nothing)

-----------------------------------------------------------------------------
(* The transactions *)

Checking(s, op) == req[s].phase = "checked" /\ req[s].op = op

\* A plain status write: updateOrderStatus (but to CANCELLED), holdOrder,
\* resumeOrder and collectPayment write whatever the status has become.
WriteStatus(s) ==
  LET o == req[s].ord IN
  /\ req[s].phase = "checked"
  /\ \/ req[s].op \in {"hold", "resume", "pay"}
     \/ req[s].op = "status" /\ req[s].to # "CANCELLED"
  /\ OrderFree(s, o)
  /\ order' = [order EXCEPT ![o].status = req[s].to,
                            ![o].billed = @ \/ req[s].op = "pay"]
  /\ Finish(s)
  /\ UNCHANGED <<stock, lines, moves>>

\* deductStockForAddedItems: only the quantity of the new row.
BeginAdd(s) ==
  /\ Checking(s, "add")
  /\ Begin(s, [i \in Tracked |-> -req[s].want[i]], FALSE)

\* Mutant: the whole new quantity is deducted again.
BeginSetQty_DeductAll(s) ==
  /\ Checking(s, "setQty")
  /\ LineFree(s, req[s].ord, req[s].row)
  /\ lines[req[s].ord][req[s].row].qty > 0
  /\ Begin(s, [i \in Tracked |-> -req[s].want[i]], FALSE)

\* adjustStockForOrderChange: the quantity read before minus the new one.  The
\* row is written first, so a row another transaction holds is waited for, and
\* a row that is gone makes the statement throw.
BeginSetQty(s) ==
  LET o == req[s].ord
      k == req[s].row
  IN /\ Checking(s, "setQty")
     /\ LineFree(s, o, k)
     /\ lines[o][k].qty > 0
     /\ Begin(s, [i \in Tracked |-> req[s].seen[i] - req[s].want[i]], FALSE)

BeginRemove(s) ==
  LET o == req[s].ord
      k == req[s].row
  IN /\ Checking(s, "remove")
     /\ LineFree(s, o, k)
     /\ lines[o][k].qty > 0
     /\ Begin(s, [i \in Tracked |-> req[s].seen[i]], FALSE)

\* updateOrder writes the rows its own transaction finds (row counts them), but
\* reconciles the stock with the quantities read before it.
BeginReplace(s) ==
  LET o == req[s].ord
  IN /\ Checking(s, "replace")
     /\ OrderFree(s, o)
     /\ \A k \in 1..Len(lines[o]) : LineFree(s, o, k)
     /\ req' = [req EXCEPT ![s].phase = "open", ![s].row = Len(lines[o])]
     /\ tx' = [tx EXCEPT ![s] = [NoTxn EXCEPT !.claim = FALSE, !.todo =
                  [i \in Tracked |-> req[s].seen[i] - req[s].want[i]]]]
     /\ UNCHANGED <<stock, order, lines, moves, edits>>

\* Mutant: the restore does not look at stockRestoredAt.
BeginRestore_Unclaimed(s) ==
  Begin(s, [i \in Tracked |-> -moves[req[s].ord][i].out], TRUE)

\* Mutant: the restore adds back the requested quantities of the lines.
BeginRestore_Requested(s) ==
  LET o     == req[s].ord
      claim == order[o].deducted /\ ~order[o].restored
  IN Begin(s, [i \in Tracked |-> IF claim THEN QtyOf(lines[o], i) ELSE 0], claim)

\* restoreStockForCancelledOrder: the claim on stockRestoredAt, then the net of
\* the committed movements, reversed.
BeginRestore(s) ==
  LET o     == req[s].ord
      claim == order[o].deducted /\ ~order[o].restored
  IN Begin(s, [i \in Tracked |-> IF claim THEN -moves[o][i].out ELSE 0], claim)

\* cancelOrder's own claim re-checks the status under the row lock.
BeginCancel(s) ==
  LET o == req[s].ord
  IN /\ Checking(s, "cancel")
     /\ OrderFree(s, o)
     /\ order[o].status \notin {"COMPLETED", "CANCELLED"}
     /\ BeginRestore(s)

\* Mutant: cancelling through the status endpoint forgets the stock.
BeginCancelByStatus_NoRestore(s) ==
  /\ Checking(s, "status")
  /\ req[s].to = "CANCELLED"
  /\ OrderFree(s, req[s].ord)
  /\ Begin(s, Zero, FALSE)

\* updateOrderStatus to CANCELLED and deleteOrder write the row unconditionally.
BeginCancelByStatus(s) ==
  /\ Checking(s, "status")
  /\ req[s].to = "CANCELLED"
  /\ OrderFree(s, req[s].ord)
  /\ BeginRestore(s)

BeginDelete(s) ==
  /\ Checking(s, "delete")
  /\ OrderFree(s, req[s].ord)
  /\ BeginRestore(s)

\* applyStockDelta reads the committed stock of the next item ...
ReadStock(s) ==
  /\ Open(s)
  /\ tx[s].cur = NoItem
  /\ \E i \in Tracked :
       /\ tx[s].todo[i] # 0
       /\ tx' = [tx EXCEPT ![s].cur = i, ![s].before = stock[i]]
  /\ UNCHANGED <<stock, order, lines, moves, req, edits>>

\* Transaction t once the delta of item t.cur was applied as did.
Applied(t, after, did) ==
  [todo   |-> [t.todo EXCEPT ![t.cur] = 0],
   cur    |-> NoItem,
   before |-> 0,
   after  |-> [t.after EXCEPT ![t.cur] = after],
   did    |-> [t.did EXCEPT ![t.cur] = did],
   moved  |-> t.moved \cup {t.cur},
   wrote  |-> IF after # t.before THEN t.wrote \cup {t.cur} ELSE t.wrote,
   claim  |-> t.claim]

\* Mutant: no clamp at zero.
WriteStock_NoClamp(s) ==
  LET t     == tx[s]
      sum   == t.before + t.todo[t.cur]
      after == sum
  IN /\ Open(s)
     /\ t.cur # NoItem
     /\ after # t.before => StockFree(s, t.cur)
     /\ tx' = [tx EXCEPT ![s] = Applied(t, after, after - t.before)]
     /\ UNCHANGED <<stock, order, lines, moves, req, edits>>

\* Mutant: the movement records the requested delta, not the applied one.
WriteStock_RequestedDelta(s) ==
  LET t     == tx[s]
      sum   == t.before + t.todo[t.cur]
      after == IF sum < 0 THEN 0 ELSE sum
  IN /\ Open(s)
     /\ t.cur # NoItem
     /\ after # t.before => StockFree(s, t.cur)
     /\ tx' = [tx EXCEPT ![s] = Applied(t, after, t.todo[t.cur])]
     /\ UNCHANGED <<stock, order, lines, moves, req, edits>>

\* ... and writes the new absolute value, clamped at zero, with its movement.
WriteStock(s) ==
  LET t     == tx[s]
      sum   == t.before + t.todo[t.cur]
      after == IF sum < 0 THEN 0 ELSE sum
  IN /\ Open(s)
     /\ t.cur # NoItem
     /\ after # t.before => StockFree(s, t.cur)
     /\ tx' = [tx EXCEPT ![s] = Applied(t, after, after - t.before)]
     /\ UNCHANGED <<stock, order, lines, moves, req, edits>>

-----------------------------------------------------------------------------
(* Commit publishes the transaction, or it leaves no trace *)

\* The rows of a request's wanted quantities, one per item.
NewRows(want) == SetToSeq({[item |-> i, qty |-> want[i]] :
                             i \in {j \in Item : want[j] > 0}})

\* Of the first n rows updateOrder keeps the first of a wanted item and deletes
\* the others, and it creates the rows that are missing.
Replaced(ls, want, n) ==
  LET found   == {k \in LiveRows(ls) : k <= n}
      first(k) == k \in found /\ \A j \in found : ls[j].item = ls[k].item => k <= j
      missing == [i \in Item |-> IF \E k \in found : ls[k].item = i
                                 THEN 0 ELSE want[i]]
  IN [k \in 1..Len(ls) |->
        [ls[k] EXCEPT !.qty = IF k > n THEN @
                              ELSE IF first(k) THEN want[ls[k].item] ELSE 0]]
     \o NewRows(missing)

\* Mutant: an edited quantity is added to the old one.
SetQty_Adds(ls, row, q) == [ls EXCEPT ![row].qty = @ + q]

SetQty(ls, row, q) == [ls EXCEPT ![row].qty = q]

LinesAfter(s) ==
  LET r  == req[s]
      ls == lines[r.ord]
  IN CASE r.op \in {"create", "add"} -> ls \o NewRows(r.want)
       [] r.op = "setQty"  -> SetQty(ls, r.row, r.want[ls[r.row].item])
       [] r.op = "remove"  -> SetQty(ls, r.row, 0)
       [] r.op = "replace" -> Replaced(ls, r.want, r.row)
       [] OTHER            -> ls

OrderAfter(s) ==
  LET r   == req[s]
      row == order[r.ord]
  IN CASE r.op = "create" -> [NoRow EXCEPT !.status = "PENDING", !.deducted = TRUE]
       [] r.op \in {"cancel", "status"} ->
            [row EXCEPT !.status = "CANCELLED", !.restored = @ \/ tx[s].claim]
       [] r.op = "delete" ->
            [row EXCEPT !.deleted = TRUE, !.restored = @ \/ tx[s].claim]
       [] OTHER -> row

Restores(op) == op \in {"cancel", "status", "delete"}

MoveAfter(s, i) ==
  LET m == moves[req[s].ord][i] IN
  IF i \notin tx[s].moved THEN m
  ELSE IF Restores(req[s].op)
       THEN [out |-> m.out, back |-> m.back + tx[s].did[i],
             restores |-> m.restores + 1]
       ELSE [out |-> m.out + tx[s].did[i], back |-> m.back,
             restores |-> m.restores]

Commit(s) ==
  LET o == req[s].ord IN
  /\ Open(s)
  /\ tx[s].cur = NoItem
  /\ \A i \in Tracked : tx[s].todo[i] = 0
  /\ stock' = [i \in Tracked |-> IF i \in tx[s].wrote THEN tx[s].after[i]
                                 ELSE stock[i]]
  /\ order' = [order EXCEPT ![o] = OrderAfter(s)]
  /\ lines' = [lines EXCEPT ![o] = LinesAfter(s)]
  /\ moves' = [moves EXCEPT ![o] = [i \in Tracked |-> MoveAfter(s, i)]]
  /\ Finish(s)

\* A statement throws, the interactive transaction times out, PostgreSQL breaks
\* a deadlock, or the process dies: the transaction is rolled back.
Abort(s) ==
  /\ req[s].phase # "idle"
  /\ Finish(s)
  /\ UNCHANGED <<stock, order, lines, moves>>

-----------------------------------------------------------------------------
Read(s) ==
  \/ ReadForAdd(s)    \/ ReadForSetQty(s) \/ ReadForRemove(s)
  \/ ReadForReplace(s)
  \/ ReadForCancel(s) \/ ReadForDelete(s) \/ ReadForStatus(s)
  \/ ReadForHold(s)   \/ ReadForResume(s) \/ ReadForPay(s)

BeginTx(s) ==
  \/ BeginAdd(s)      \/ BeginSetQty(s)   \/ BeginRemove(s)
  \/ BeginReplace(s)
  \/ BeginCancel(s)   \/ BeginCancelByStatus(s) \/ BeginDelete(s)

Next == \E s \in Session :
  \/ CreateOrder(s) \/ Read(s) \/ WriteStatus(s) \/ BeginTx(s)
  \/ ReadStock(s)   \/ WriteStock(s) \/ Commit(s) \/ Abort(s)

Spec == Init /\ [][Next]_vars

-----------------------------------------------------------------------------
(* Properties *)

Net(o, i) == moves[o][i].out + moves[o][i].back

SumOver(f) == FoldFunction(LAMBDA a, b : a + b, 0, f)

\* "never let stock go below zero": whatever stale value a transaction computed
\* from, the stock it publishes is not negative (applyStockDelta's clamp).
StockNeverNegative == \A i \in Tracked : stock[i] >= 0

\* However many cancels, status updates and deletes race on an order, its
\* reservation is restored at most once per item, never before the claim is
\* taken, and only if it was deducted (the claim in restoreStockForCancelledOrder).
RestoredAtMostOnce ==
  \A o \in Order :
    /\ order[o].restored => order[o].deducted
    /\ \A i \in Tracked :
         /\ moves[o][i].restores <= 1
         /\ ~order[o].restored => moves[o][i].restores = 0 /\ moves[o][i].back = 0

\* The movements of an order whose lines were never edited cancel out once it is
\* restored, also when its deduction was clamped (the netting of movements in
\* restoreStockForCancelledOrder).  For instances with no edit operation.
RestoreUndoesReservation ==
  \A o \in Order : order[o].restored => \A i \in Tracked : Net(o, i) = 0

\* Requests served one after the other keep the ledger exact: stock is the
\* initial stock plus every movement ever recorded.  For one session.
LedgerBalances ==
  \A i \in Tracked :
    stock[i] = InitStock[i] + SumOver([o \in Order |-> Net(o, i)])

\* Items that the requests of the instance cannot run out of.
Plenty == {i \in Tracked :
             InitStock[i] >= Cardinality(Order) * (MaxEdits + 1) * MaxQty}

\* Requests served one after the other: of an item that never runs out, a live
\* order has reserved what its lines ask for, through every edit (the old - new
\* deltas of updateOrder, updateOrderItem, deleteOrderItem, addOrderItem).
ReservedMatchesLines ==
  \A o \in Order : Exists(o) /\ ~order[o].restored =>
    \A i \in Plenty : -Net(o, i) = QtyOf(lines[o], i)

\* Requests served one after the other: of an item that never runs out, a
\* cancelled order that nobody deleted has given everything back.
CancelledReturnsStock ==
  \A o \in Order : order[o].status = "CANCELLED" /\ ~order[o].deleted =>
    \A i \in Plenty : Net(o, i) = 0

\* The reservation protocol of Reservation.tla, which the order-level claims
\* implement when no line is edited.
Abstract == INSTANCE Reservation WITH
  Item  <- Tracked,
  claim <- [o \in Order |-> IF order[o].restored THEN "released"
                            ELSE IF order[o].deducted THEN "held" ELSE "none"],
  net   <- [o \in Order |-> [i \in Tracked |-> Net(o, i)]]

\* Every step of the handlers is a step of the abstract reservation or none.
ImplementsReservation == Abstract!Spec
=============================================================================
