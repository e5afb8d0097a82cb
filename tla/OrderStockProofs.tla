--------------------------- MODULE OrderStockProofs ---------------------------
(***************************************************************************)
(* Theorems of OrderStock: its type invariant, that stock is never         *)
(* negative, that an order's reservation is restored at most once, and,    *)
(* where no line is edited, that a restore undoes the reservation exactly  *)
(* and the handlers implement Reservation.  Of MCOrderEdits: requests      *)
(* served one after the other keep the stock exact through every edit.     *)
(***************************************************************************)
EXTENDS MCOrderEdits, Sums, FiniteSetTheorems, WellFoundedInduction, TLAPS

-----------------------------------------------------------------------------
(* The inductive invariant *)

LockingOps == {"cancel", "delete", "status", "replace"}

\* Who a session works for, and that it works on a row that is there, unless it
\* is creating it.
SessionInv ==
  \A s \in Session :
    /\ req[s].phase = "idle" => req[s].ord = NoOrder
    /\ req[s].phase # "idle" => req[s].ord \in Order /\ req[s].op # "none"
    /\ req[s].phase = "checked" => req[s].op # "create"
    /\ req[s].phase # "idle" /\ req[s].op # "create" => Exists(req[s].ord)
    /\ req[s].phase # "idle" /\ req[s].op = "create" => ~Exists(req[s].ord)
    /\ req[s].phase # "idle" /\ req[s].op \in {"status", "hold", "resume", "pay"}
         => req[s].to # "NONE"
    /\ Open(s) /\ req[s].op = "status" => req[s].to = "CANCELLED"

\* An id is being created by one session only.
CreateInv ==
  \A s, t \in Session :
    s # t /\ req[s].phase # "idle" /\ req[s].op = "create"
      => req[t].ord # req[s].ord

\* The row lock: one open transaction per order among those that write its row.
LockInv ==
  \A s, t \in Session :
    /\ s # t
    /\ Open(s) /\ req[s].op \in LockingOps
    /\ Open(t) /\ req[t].op \in LockingOps
    => req[s].ord # req[t].ord

\* A row that is not there has no history.
AbsentInv ==
  \A o \in Order : ~Exists(o) =>
    /\ ~order[o].deducted /\ ~order[o].restored
    /\ \A i \in Tracked : moves[o][i].out = 0

\* A transaction that took the restore claim is the only one that will: the
\* committed row still lacks it.  Without the claim it touches no stock.
ClaimInv ==
  \A s \in Session : Open(s) /\ Restores(req[s].op) =>
    /\ tx[s].claim => order[req[s].ord].deducted /\ ~order[req[s].ord].restored
    /\ ~tx[s].claim => /\ tx[s].moved = {}
                       /\ \A i \in Tracked : tx[s].todo[i] = 0

\* What a transaction read and wrote is not negative, and it works on an item
\* it has a delta for.
WriteInv ==
  \A s \in Session :
    /\ tx[s].before >= 0
    /\ tx[s].cur # NoItem => tx[s].todo[tx[s].cur] # 0
    /\ \A i \in tx[s].wrote : tx[s].after[i] >= 0

IInv == /\ TypeOK /\ SessionInv /\ CreateInv /\ LockInv /\ AbsentInv /\ ClaimInv
        /\ WriteInv /\ StockNeverNegative /\ RestoredAtMostOnce

\* The instances without operations that edit the lines of an order.
NoEdits == Ops \cap EditOps = {}

\* Then a session creates an order, restores one or only writes a status.
OpInv ==
  \A s \in Session :
    /\ req[s].phase # "idle" => req[s].op \notin EditOps
    /\ Open(s) => req[s].op = "create" \/ Restores(req[s].op)

\* A create only takes stock.
TakeInv ==
  /\ \A o \in Order, i \in Tracked : moves[o][i].out <= 0
  /\ \A s \in Session : Open(s) /\ req[s].op = "create" =>
       \A i \in Tracked : tx[s].todo[i] <= 0 /\ tx[s].did[i] <= 0

\* A transaction that took the restore claim gives back what its order took.
GiveBack(t, m) ==
  \A i \in Tracked : IF i \in t.moved THEN t.todo[i] = 0 /\ t.did[i] = -m[i].out
                                      ELSE t.todo[i] = -m[i].out
UndoInv ==
  \A s \in Session : Open(s) /\ Restores(req[s].op) /\ tx[s].claim =>
    GiveBack(tx[s], moves[req[s].ord])

UInv == IInv /\ OpInv /\ TakeInv /\ UndoInv /\ RestoreUndoesReservation

-----------------------------------------------------------------------------
(* The rows a request creates *)

LEMMA SetToSeqType ==
  ASSUME NEW S, IsFiniteSet(S)
  PROVE  SetToSeq(S) \in Seq(S)
<1> DEFINE n == Cardinality(S)
<1>1. n \in Nat
  BY FS_CardinalityType
<1>2. PICK f \in Bijection(1..n, S) : TRUE
  BY FS_CardinalityType DEF ExistsBijection
<1>3. f \in [1..n -> S] /\ IsInjective(f)
  BY <1>2 DEF Bijection, Injection, Surjection, IsInjective
<1>4. SetToSeq(S) \in [1..n -> S]
  BY <1>3 DEF SetToSeq
<1> QED
  BY <1>1, <1>4

\* The rows created for wanted quantities are OrderItem rows.
LEMMA NewRowsType ==
  ASSUME NEW want \in [Item -> 0..MaxQty]
  PROVE  NewRows(want) \in Seq(Line)
<1> DEFINE D == {j \in Item : want[j] > 0}
           S == {[item |-> i, qty |-> want[i]] : i \in D}
<1>1. IsFiniteSet(D)
  BY FS_Subset, TrackedAssumption
<1>2. IsFiniteSet(S)
  <2> DEFINE f == [i \in D |-> [item |-> i, qty |-> want[i]]]
  <2>1. f \in Surjection(D, S)
    BY DEF Surjection
  <2> QED
    BY <1>1, <2>1, FS_Surjection
<1>3. SetToSeq(S) \in Seq(S)
  BY <1>2, SetToSeqType
<1>4. S \subseteq Line
  BY DEF Line
<1>5. Seq(S) \subseteq Seq(Line)
  BY <1>4
<1> QED
  BY <1>3, <1>5 DEF NewRows


-----------------------------------------------------------------------------
(* What the actions have in common *)

\* Every read-and-check step records a well-formed request on an existing order.
ReadStep(s, op, o, row, to, want, seen) ==
  /\ req[s].phase = "idle" /\ op \in Ops /\ op # "create"
  /\ Exists(o)
  /\ op \in {"status", "hold", "resume", "pay"} => to # "NONE"
  /\ op \in EditOps => edits < MaxEdits
  /\ Checked(s, op, o, row, to, want, seen)

LEMMA ReadIsReadStep ==
  ASSUME TypeOK, NEW s \in Session, Read(s)
  PROVE  \E op \in AllOps, o \in Order, row \in Nat, to \in Status,
            want \in [Item -> 0..MaxQty], seen \in [Item -> Nat] :
           ReadStep(s, op, o, row, to, want, seen)
<1> USE OpsAssumption, BoundAssumption DEF ReadStep, Serve, Exists, Status
<1>0. Nothing \in [Item -> 0..MaxQty] /\ Nothing \in [Item -> Nat]
  BY DEF Nothing
<1>1. CASE ReadForAdd(s)
  <2>1. PICK o \in Order, i \in Item, q \in 1..MaxQty :
          /\ Editable(o)
          /\ Checked(s, "add", o, 0, "NONE", [Nothing EXCEPT ![i] = q], Nothing)
    BY <1>1 DEF ReadForAdd
  <2>2. [Nothing EXCEPT ![i] = q] \in [Item -> 0..MaxQty]
    BY <1>0
  <2> QED
    BY <1>1, <2>1, <2>2, <1>0 DEF ReadForAdd, Editable, AllOps, EditOps
<1>2. CASE ReadForSetQty(s)
  <2>0. PICK o \in Order, q \in 1..MaxQty : Editable(o) /\
          \E k \in LiveRows(lines[o]) :
            Checked(s, "setQty", o, k, "NONE",
                     [Nothing EXCEPT ![lines[o][k].item] = q],
                     [Nothing EXCEPT ![lines[o][k].item] = lines[o][k].qty])
    BY <1>2 DEF ReadForSetQty
  <2>1. PICK k \in LiveRows(lines[o]) :
          /\ Editable(o)
          /\ Checked(s, "setQty", o, k, "NONE",
                     [Nothing EXCEPT ![lines[o][k].item] = q],
                     [Nothing EXCEPT ![lines[o][k].item] = lines[o][k].qty])
    BY <2>0
  <2>2. lines[o] \in Seq(Line) /\ k \in 1..Len(lines[o])
    BY <2>1 DEF TypeOK, LiveRows
  <2>3. lines[o][k] \in Line /\ k \in Nat
    BY <2>2
  <2>4. /\ [Nothing EXCEPT ![lines[o][k].item] = q] \in [Item -> 0..MaxQty]
        /\ [Nothing EXCEPT ![lines[o][k].item] = lines[o][k].qty] \in [Item -> Nat]
    BY <1>0, <2>3 DEF Line
  <2> QED
    BY <1>2, <2>1, <2>3, <2>4 DEF ReadForSetQty, Editable, AllOps, EditOps
<1>3. CASE ReadForRemove(s)
  <2>0. PICK o \in Order : Editable(o) /\
          \E k \in LiveRows(lines[o]) :
            Checked(s, "remove", o, k, "NONE", Nothing,
                     [Nothing EXCEPT ![lines[o][k].item] = lines[o][k].qty])
    BY <1>3 DEF ReadForRemove
  <2>1. PICK k \in LiveRows(lines[o]) :
          /\ Editable(o)
          /\ Checked(s, "remove", o, k, "NONE", Nothing,
                     [Nothing EXCEPT ![lines[o][k].item] = lines[o][k].qty])
    BY <2>0
  <2>2. lines[o] \in Seq(Line) /\ k \in 1..Len(lines[o])
    BY <2>1 DEF TypeOK, LiveRows
  <2>3. lines[o][k] \in Line /\ k \in Nat
    BY <2>2
  <2>4. [Nothing EXCEPT ![lines[o][k].item] = lines[o][k].qty] \in [Item -> Nat]
    BY <1>0, <2>3 DEF Line
  <2> QED
    BY <1>0, <1>3, <2>1, <2>3, <2>4 DEF ReadForRemove, Editable, AllOps, EditOps
<1>4. CASE ReadForReplace(s)
  <2>1. PICK o \in Order, want \in [Item -> 0..MaxQty], old \in [Item -> Nat] :
          /\ order[o].status \in {"PENDING", "HOLD"}
          /\ Checked(s, "replace", o, 0, "NONE", want, old)
    BY <1>4 DEF ReadForReplace
  <2> QED
    BY <1>4, <2>1 DEF ReadForReplace, AllOps, EditOps
<1>5. CASE ReadForCancel(s)
  BY <1>0, <1>5 DEF ReadForCancel, AllOps, EditOps
<1>6. CASE ReadForDelete(s)
  BY <1>0, <1>6 DEF ReadForDelete, AllOps, EditOps
<1>7. CASE ReadForStatus(s)
  BY <1>0, <1>7, SMTT(30) DEF ReadForStatus, AllOps, EditOps
<1>8. CASE ReadForHold(s)
  BY <1>0, <1>8 DEF ReadForHold, AllOps, EditOps
<1>9. CASE ReadForResume(s)
  BY <1>0, <1>9 DEF ReadForResume, AllOps, EditOps
<1>10. CASE ReadForPay(s)
  BY <1>0, <1>10 DEF ReadForPay, AllOps, EditOps
<1> QED
  BY <1>1, <1>2, <1>3, <1>4, <1>5, <1>6, <1>7, <1>8, <1>9, <1>10 DEF Read

\* Every transaction of a checked request opens with deltas for tracked items;
\* one that writes the order row found it unlocked, and one that restores
\* evaluated the claim on the committed row.
BeginStep(s, row, todo, claim) ==
  LET o == req[s].ord IN
  /\ req[s].phase = "checked"
  /\ req[s].op \in LockingOps => OrderFree(s, o)
  /\ req[s].op = "status" => req[s].to = "CANCELLED"
  /\ req[s].op \notin {"hold", "resume", "pay"}
  /\ Restores(req[s].op) =>
       /\ claim = (order[o].deducted /\ ~order[o].restored)
       /\ todo = [i \in Tracked |-> IF claim THEN -moves[o][i].out ELSE 0]
  /\ req' = [req EXCEPT ![s].phase = "open", ![s].row = row]
  /\ tx' = [tx EXCEPT ![s] = [NoTxn EXCEPT !.todo = todo, !.claim = claim]]
  /\ UNCHANGED <<stock, order, lines, moves, edits>>

LEMMA BeginIsBeginStep ==
  ASSUME TypeOK, SessionInv, NEW s \in Session, BeginTx(s)
  PROVE  \E row \in Nat, todo \in [Tracked -> Int], claim \in BOOLEAN :
           BeginStep(s, row, todo, claim)
<1> DEFINE r == req[s]
           o == req[s].ord
<1>0. /\ r \in Request /\ r.row \in Nat
      /\ \A i \in Tracked : r.want[i] \in Int /\ r.seen[i] \in Int
  BY TrackedAssumption DEF TypeOK, Request
<1>1. r.phase = "checked" => o \in Order
  BY DEF SessionInv
<1>2. \A todo, claim : Begin(s, todo, claim) =>
        /\ req' = [req EXCEPT ![s].phase = "open", ![s].row = r.row]
        /\ tx' = [tx EXCEPT ![s] = [NoTxn EXCEPT !.todo = todo, !.claim = claim]]
        /\ UNCHANGED <<stock, order, lines, moves, edits>>
  BY <1>0 DEF Begin, TypeOK, Request
<1>3. CASE BeginAdd(s)
  <2> DEFINE todo == [i \in Tracked |-> -r.want[i]]
  <2>1. todo \in [Tracked -> Int]
    BY <1>0
  <2>2. BeginStep(s, r.row, todo, FALSE)
    BY <1>2, <1>3 DEF BeginAdd, Checking, BeginStep, LockingOps, Restores
  <2> QED
    BY <1>0, <2>1, <2>2
<1>4. CASE BeginSetQty(s)
  <2> DEFINE todo == [i \in Tracked |-> r.seen[i] - r.want[i]]
  <2>1. todo \in [Tracked -> Int]
    BY <1>0
  <2>2. BeginStep(s, r.row, todo, FALSE)
    BY <1>2, <1>4 DEF BeginSetQty, Checking, BeginStep, LockingOps, Restores
  <2> QED
    BY <1>0, <2>1, <2>2
<1>5. CASE BeginRemove(s)
  <2> DEFINE todo == [i \in Tracked |-> r.seen[i]]
  <2>1. todo \in [Tracked -> Int]
    BY <1>0
  <2>2. BeginStep(s, r.row, todo, FALSE)
    BY <1>2, <1>5 DEF BeginRemove, Checking, BeginStep, LockingOps, Restores
  <2> QED
    BY <1>0, <2>1, <2>2
<1>6. CASE BeginReplace(s)
  <2> DEFINE todo == [i \in Tracked |-> r.seen[i] - r.want[i]]
  <2>1. todo \in [Tracked -> Int]
    BY <1>0
  <2>2. Len(lines[o]) \in Nat
    BY <1>1, <1>6 DEF TypeOK, BeginReplace, Checking
  <2>4. BeginStep(s, Len(lines[o]), todo, FALSE)
    BY <1>6 DEF BeginReplace, Checking, BeginStep, LockingOps, Restores
  <2> QED
    BY <2>1, <2>2, <2>4
<1>7. CASE BeginCancel(s) \/ BeginCancelByStatus(s) \/ BeginDelete(s)
  <2> DEFINE claim == order[o].deducted /\ ~order[o].restored
             todo  == [i \in Tracked |-> IF claim THEN -moves[o][i].out ELSE 0]
  <2>1. o \in Order
    BY <1>1, <1>7 DEF BeginCancel, BeginCancelByStatus, BeginDelete, Checking
  <2>2. claim \in BOOLEAN /\ todo \in [Tracked -> Int]
    BY <2>1 DEF TypeOK, Move
  <2>3. Begin(s, todo, claim)
    BY <1>7 DEF BeginCancel, BeginCancelByStatus, BeginDelete, BeginRestore
  <2>4. /\ r.phase = "checked" /\ OrderFree(s, o)
        /\ r.op \in {"cancel", "status", "delete"}
        /\ r.op = "status" => r.to = "CANCELLED"
    BY <1>7 DEF BeginCancel, BeginCancelByStatus, BeginDelete, Checking
  <2>5. /\ req' = [req EXCEPT ![s].phase = "open", ![s].row = r.row]
        /\ tx' = [tx EXCEPT ![s] = [NoTxn EXCEPT !.todo = todo, !.claim = claim]]
        /\ UNCHANGED <<stock, order, lines, moves, edits>>
    BY <1>2, <2>3
  <2>6. BeginStep(s, r.row, todo, claim)
    BY <2>4, <2>5 DEF BeginStep
  <2> QED
    BY <1>0, <2>2, <2>6
<1> QED
  BY <1>3, <1>4, <1>5, <1>6, <1>7 DEF BeginTx

-----------------------------------------------------------------------------
(* Type correctness *)

LEMMA IdleType ==
  /\ Nothing \in [Item -> 0..MaxQty] /\ Nothing \in [Item -> Nat]
  /\ Idle \in Request
  /\ Zero \in [Tracked -> Int]
  /\ NoTxn \in Txn
BY BoundAssumption
   DEF Nothing, Idle, Request, Phase, Status, Zero, NoTxn, Txn

LEMMA InitType == Init => TypeOK
<1> SUFFICES ASSUME Init PROVE TypeOK
  OBVIOUS
<1>1. stock \in [Tracked -> Int]
  BY StockAssumption DEF Init
<1>2. order \in [Order -> OrderRow]
  BY DEF Init, NoRow, OrderRow, Status
<1>3. lines \in [Order -> Seq(Line)]
  BY DEF Init
<1>4. moves \in [Order -> [Tracked -> Move]]
  BY DEF Init, Move
<1>5. req \in [Session -> Request] /\ tx \in [Session -> Txn] /\ edits \in 0..MaxEdits
  BY IdleType, BoundAssumption DEF Init
<1> QED
  BY <1>1, <1>2, <1>3, <1>4, <1>5 DEF TypeOK

\* Reading a row, and rewriting the rows of an order one by one.
LEMMA RowType ==
  ASSUME NEW ls \in Seq(Line), NEW k \in 1..Len(ls)
  PROVE  ls[k] \in Line /\ ls[k].item \in Item
<1>1. ls[k] \in Line
  OBVIOUS
<1> QED
  BY <1>1 DEF Line

LEMMA RewriteType ==
  ASSUME NEW ls \in Seq(Line), NEW f,
         f = [k \in 1..Len(ls) |-> f[k]],
         \A k \in 1..Len(ls) : f[k] \in Line
  PROVE  f \in Seq(Line)
<1>1. Len(ls) \in Nat
  OBVIOUS
<1>2. f \in [1..Len(ls) -> Line]
  <2> HIDE DEF Line
  <2> QED OBVIOUS
<1> QED
  BY <1>1, <1>2

LEMMA SetQtyType ==
  ASSUME NEW ls \in Seq(Line), NEW row, NEW q,
         row \in 1..Len(ls) => q \in 0..MaxQty
  PROVE  [ls EXCEPT ![row].qty = q] \in Seq(Line)
<1> DEFINE f == [ls EXCEPT ![row].qty = q]
<1>1. DOMAIN ls = 1..Len(ls)
  OBVIOUS
<1>2. f = [k \in 1..Len(ls) |-> f[k]]
  BY <1>1
<1>3. ASSUME NEW k \in 1..Len(ls) PROVE f[k] \in Line
  <2>1. ls[k] \in Line
    OBVIOUS
  <2>2. CASE k = row
    <3>1. f[k] = [ls[k] EXCEPT !.qty = q]
      BY <1>1, <2>2
    <3> QED
      BY <2>1, <2>2, <3>1 DEF Line
  <2>3. CASE k # row
    BY <1>1, <2>1, <2>3
  <2> QED
    BY <2>2, <2>3
<1> HIDE DEF f
<1>4. f \in Seq(Line)
  BY <1>2, <1>3, RewriteType
<1> QED
  BY <1>4 DEF f

LEMMA ReplacedType ==
  ASSUME NEW ls \in Seq(Line), NEW want \in [Item -> 0..MaxQty], NEW n \in Nat
  PROVE  Replaced(ls, want, n) \in Seq(Line)
<1> DEFINE found == {k \in LiveRows(ls) : k <= n}
           missing == [i \in Item |-> IF \E k \in found : ls[k].item = i
                                      THEN 0 ELSE want[i]]
           first(k) == /\ k \in found
                       /\ \A j \in found : ls[j].item = ls[k].item => k <= j
           kept == [k \in 1..Len(ls) |->
                      [ls[k] EXCEPT !.qty = IF k > n THEN @
                         ELSE IF first(k) THEN want[ls[k].item] ELSE 0]]
<1>1. missing \in [Item -> 0..MaxQty]
  BY BoundAssumption
<1>2. NewRows(missing) \in Seq(Line)
  BY <1>1, NewRowsType
<1>3. ASSUME NEW k \in 1..Len(ls) PROVE kept[k] \in Line
  <2> DEFINE q == IF k > n THEN ls[k].qty
                  ELSE IF first(k) THEN want[ls[k].item] ELSE 0
  <2>1. ls[k] \in Line /\ ls[k].item \in Item
    BY RowType
  <2>2. q \in 0..MaxQty
    <3> HIDE DEF first
    <3> QED BY <2>1, BoundAssumption DEF Line
  <2>3. kept[k] = [ls[k] EXCEPT !.qty = q]
    OBVIOUS
  <2> HIDE DEF q, kept
  <2> QED
    BY <2>1, <2>2, <2>3 DEF Line
<1>4. kept = [k \in 1..Len(ls) |-> kept[k]]
  OBVIOUS
<1>5. Replaced(ls, want, n) = kept \o NewRows(missing)
  BY DEF Replaced
<1> HIDE DEF kept, missing
<1>6. kept \in Seq(Line)
  BY <1>3, <1>4, RewriteType
<1> QED
  BY <1>2, <1>5, <1>6

\* The order row, lines and movements a commit publishes are well formed.
LEMMA CommitType ==
  ASSUME TypeOK, SessionInv, NEW s \in Session, Commit(s)
  PROVE  /\ OrderAfter(s) \in OrderRow
         /\ LinesAfter(s) \in Seq(Line)
         /\ \A i \in Tracked : MoveAfter(s, i) \in Move
<1> DEFINE r == req[s]
           o == req[s].ord
           ls == lines[o]
<1>1. /\ o \in Order /\ r \in Request /\ tx[s] \in Txn
      /\ order[o] \in OrderRow /\ ls \in Seq(Line) /\ r.row \in Nat
      /\ moves[o] \in [Tracked -> Move]
  BY DEF Commit, Open, SessionInv, TypeOK, Request
<1>2. OrderAfter(s) \in OrderRow
  BY <1>1 DEF OrderAfter, OrderRow, NoRow, Status, Txn
<1>3. LinesAfter(s) \in Seq(Line)
  <2>1. r.want \in [Item -> 0..MaxQty]
    BY <1>1 DEF Request
  <2>2. CASE r.op \in {"create", "add"}
    BY <1>1, <2>1, <2>2, NewRowsType DEF LinesAfter
  <2>3. CASE r.op = "setQty"
    <3>1. r.row \in 1..Len(ls) => r.want[ls[r.row].item] \in 0..MaxQty
      BY <1>1, <2>1, RowType
    <3>2. [ls EXCEPT ![r.row].qty = r.want[ls[r.row].item]] \in Seq(Line)
      BY <1>1, <3>1, SetQtyType DEF SetQty
    <3> QED
      BY <2>3, <3>2 DEF LinesAfter, SetQty
  <2>4. CASE r.op = "remove"
    <3>1. 0 \in 0..MaxQty
      BY BoundAssumption
    <3>2. [ls EXCEPT ![r.row].qty = 0] \in Seq(Line)
      BY <1>1, <3>1, SetQtyType DEF SetQty
    <3> QED
      BY <2>4, <3>2 DEF LinesAfter, SetQty
  <2>5. CASE r.op = "replace"
    <3>1. LinesAfter(s) = Replaced(ls, r.want, r.row)
      BY <2>5 DEF LinesAfter
    <3> QED
      BY <1>1, <2>1, <3>1, ReplacedType
  <2>6. CASE r.op \notin {"create", "add", "setQty", "remove", "replace"}
    BY <1>1, <2>6 DEF LinesAfter
  <2> QED
    BY <2>2, <2>3, <2>4, <2>5, <2>6
<1>4. ASSUME NEW i \in Tracked PROVE MoveAfter(s, i) \in Move
  <2>1. moves[o][i] \in Move /\ tx[s].did[i] \in Int
    BY <1>1 DEF Txn
  <2> QED
    BY <2>1 DEF MoveAfter, Move
<1> QED
  BY <1>2, <1>3, <1>4

\* Every step preserves the types.
LEMMA NextType ==
  ASSUME TypeOK, SessionInv, [Next]_vars
  PROVE  TypeOK'
<1>0. CASE UNCHANGED vars
  BY <1>0 DEF vars, TypeOK
<1> SUFFICES ASSUME NEW s \in Session,
                    \/ CreateOrder(s) \/ Read(s) \/ WriteStatus(s) \/ BeginTx(s)
                    \/ ReadStock(s) \/ WriteStock(s) \/ Commit(s) \/ Abort(s)
             PROVE  TypeOK'
  BY <1>0 DEF Next
<1>1. CASE CreateOrder(s)
  <2>1. PICK o \in Order, want \in [Item -> 0..MaxQty] :
          /\ req' = [req EXCEPT ![s] = [Idle EXCEPT !.phase = "open",
                       !.op = "create", !.ord = o, !.to = "PENDING", !.want = want]]
          /\ tx' = [tx EXCEPT ![s] =
                       [NoTxn EXCEPT !.todo = [i \in Tracked |-> -want[i]]]]
    BY <1>1 DEF CreateOrder
  <2>2. [i \in Tracked |-> -want[i]] \in [Tracked -> Int]
    BY TrackedAssumption
  <2>3. req' \in [Session -> Request]
    BY <2>1, IdleType DEF TypeOK, Request, Phase, Status, AllOps
  <2>4. tx' \in [Session -> Txn]
    BY <2>1, <2>2, IdleType DEF TypeOK, Txn
  <2> QED
    BY <1>1, <2>3, <2>4 DEF CreateOrder, TypeOK
<1>2. CASE Read(s)
  <2>1. PICK op \in AllOps, o \in Order, row \in Nat, to \in Status,
             want \in [Item -> 0..MaxQty], seen \in [Item -> Nat] :
          ReadStep(s, op, o, row, to, want, seen)
    BY <1>2, ReadIsReadStep
  <2>2. req' \in [Session -> Request]
    BY <2>1 DEF TypeOK, ReadStep, Checked, Request, Phase
  <2>3. edits' \in 0..MaxEdits
    BY <2>1, BoundAssumption DEF TypeOK, ReadStep, Checked
  <2> QED
    BY <2>1, <2>2, <2>3 DEF TypeOK, ReadStep, Checked
<1>3. CASE WriteStatus(s)
  <2> DEFINE o == req[s].ord
  <2>1. req[s] \in Request /\ req[s].op \in AllOps \cup {"none"}
    BY DEF TypeOK, Request
  <2>2. o \in Order /\ req[s].to \in Status /\ order[o] \in OrderRow
    BY <1>3, <2>1 DEF WriteStatus, SessionInv, TypeOK, Request
  <2>3. order' \in [Order -> OrderRow]
    BY <1>3, <2>2 DEF WriteStatus, TypeOK, OrderRow
  <2>4. req' \in [Session -> Request] /\ tx' \in [Session -> Txn]
    BY <1>3, IdleType DEF WriteStatus, Finish, TypeOK
  <2> QED
    BY <1>3, <2>3, <2>4 DEF WriteStatus, Finish, TypeOK
<1>4. CASE BeginTx(s)
  <2>1. PICK row \in Nat, todo \in [Tracked -> Int], claim \in BOOLEAN :
          BeginStep(s, row, todo, claim)
    BY <1>4, BeginIsBeginStep
  <2>2. req' \in [Session -> Request]
    <3>1. [req[s] EXCEPT !.phase = "open", !.row = row] \in Request
      BY <2>1, ZenonT(60) DEF TypeOK, Request, Phase
    <3>2. req' = [req EXCEPT ![s] = [req[s] EXCEPT !.phase = "open", !.row = row]]
      BY <2>1 DEF TypeOK, BeginStep
    <3> QED
      BY <3>1, <3>2 DEF TypeOK
  <2>3. tx' \in [Session -> Txn]
    <3>1. [NoTxn EXCEPT !.todo = todo, !.claim = claim] \in Txn
      BY IdleType DEF Txn
    <3> QED
      BY <2>1, <3>1 DEF TypeOK, BeginStep
  <2> QED
    BY <2>1, <2>2, <2>3 DEF TypeOK, BeginStep
<1>5. CASE ReadStock(s)
  <2>1. PICK i \in Tracked :
          tx' = [tx EXCEPT ![s].cur = i, ![s].before = stock[i]]
    BY <1>5 DEF ReadStock
  <2>2. [tx[s] EXCEPT !.cur = i, !.before = stock[i]] \in Txn
    BY ZenonT(60) DEF TypeOK, Txn
  <2>3. tx' = [tx EXCEPT ![s] = [tx[s] EXCEPT !.cur = i, !.before = stock[i]]]
    BY <2>1 DEF TypeOK
  <2>4. tx' \in [Session -> Txn]
    BY <2>2, <2>3 DEF TypeOK
  <2> QED
    BY <1>5, <2>4 DEF ReadStock, TypeOK
<1>6. CASE WriteStock(s)
  <2>1. tx[s] \in Txn /\ tx[s].cur \in Tracked
    BY <1>6 DEF WriteStock, TypeOK, Txn
  <2> DEFINE t == tx[s]
             sum == t.before + t.todo[t.cur]
             after == IF sum < 0 THEN 0 ELSE sum
             new == Applied(t, after, after - t.before)
  <2>2. after \in Int /\ after - t.before \in Int
    BY <2>1 DEF Txn
  <2>3. new \in Txn
    <3> HIDE DEF after
    <3> QED
      BY <2>1, <2>2 DEF Txn, Applied
  <2>4. tx' = [tx EXCEPT ![s] = new]
    BY <1>6 DEF WriteStock
  <2>5. tx' \in [Session -> Txn]
    <3> HIDE DEF new
    <3> QED
      BY <2>3, <2>4 DEF TypeOK
  <2> QED
    BY <1>6, <2>5 DEF WriteStock, TypeOK
<1>7. CASE Commit(s)
  <2>1. stock' \in [Tracked -> Int]
    BY <1>7 DEF Commit, TypeOK, Txn
  <2>2. /\ order' \in [Order -> OrderRow]
        /\ lines' \in [Order -> Seq(Line)]
        /\ moves' \in [Order -> [Tracked -> Move]]
    BY <1>7, CommitType DEF Commit, TypeOK
  <2>3. req' \in [Session -> Request] /\ tx' \in [Session -> Txn]
    BY <1>7, IdleType DEF Commit, Finish, TypeOK
  <2> QED
    BY <1>7, <2>1, <2>2, <2>3 DEF Commit, Finish, TypeOK
<1>8. CASE Abort(s)
  <2>1. req' \in [Session -> Request] /\ tx' \in [Session -> Txn]
    BY <1>8, IdleType DEF Abort, Finish, TypeOK
  <2> QED
    BY <1>8, <2>1 DEF Abort, Finish, TypeOK
<1> QED
  BY <1>1, <1>2, <1>3, <1>4, <1>5, <1>6, <1>7, <1>8

-----------------------------------------------------------------------------
(* The inductive invariant is preserved *)

\* A step of session s, by the shape of its effect.
Step(s) ==
  \/ CreateOrder(s) \/ Read(s) \/ WriteStatus(s) \/ BeginTx(s)
  \/ ReadStock(s) \/ WriteStock(s) \/ Commit(s) \/ Abort(s)

LEMMA InitInv == Init => IInv
<1> SUFFICES ASSUME Init PROVE IInv
  OBVIOUS
<1>1. TypeOK
  BY InitType
<1>2. SessionInv /\ CreateInv /\ LockInv /\ ClaimInv
  BY DEF Init, SessionInv, CreateInv, LockInv, ClaimInv, Open, Idle
<1>3. AbsentInv /\ RestoredAtMostOnce
  BY DEF Init, AbsentInv, RestoredAtMostOnce, NoRow, Exists
<1>4. WriteInv /\ StockNeverNegative
  BY StockAssumption DEF Init, WriteInv, StockNeverNegative, NoTxn
<1> QED
  BY <1>1, <1>2, <1>3, <1>4 DEF IInv

\* Only a plain status write and a commit touch an order row: the row of their
\* own order, which exists afterwards.
LEMMA OrderChange ==
  ASSUME IInv, NEW s \in Session, Step(s)
  PROVE  /\ \A o \in Order : o # req[s].ord => order'[o] = order[o] /\ moves'[o] = moves[o]
         /\ ~Commit(s) => moves' = moves
         /\ ~Commit(s) /\ ~WriteStatus(s) => order' = order
         /\ WriteStatus(s) => LET o == req[s].ord IN
              /\ o \in Order /\ Exists(o) /\ order'[o].status # "NONE"
              /\ order'[o].deducted = order[o].deducted
              /\ order'[o].restored = order[o].restored
         /\ Commit(s) => LET o == req[s].ord IN
              /\ o \in Order /\ order'[o].status # "NONE"
              /\ order'[o] = OrderAfter(s)
              /\ \A i \in Tracked : moves'[o][i] = MoveAfter(s, i)
<1> USE DEF IInv
<1>1. ASSUME WriteStatus(s)
      PROVE  /\ \A o \in Order : o # req[s].ord => order'[o] = order[o]
             /\ moves' = moves
             /\ req[s].ord \in Order /\ Exists(req[s].ord) /\ order'[req[s].ord].status # "NONE"
             /\ order'[req[s].ord].deducted = order[req[s].ord].deducted
             /\ order'[req[s].ord].restored = order[req[s].ord].restored
  <2> DEFINE o == req[s].ord
  <2>1. o \in Order /\ Exists(o) /\ req[s].to # "NONE"
    BY <1>1 DEF WriteStatus, SessionInv
  <2>2. order[o] \in OrderRow
    BY <2>1 DEF TypeOK
  <2>3. order' = [order EXCEPT ![o] = order'[o]]
    BY <1>1, <2>1 DEF WriteStatus, TypeOK
  <2>4. \A p \in Order : p # o => order'[p] = order[p]
    BY <2>3 DEF TypeOK
  <2>5. /\ order'[o].status = req[s].to
        /\ order'[o].deducted = order[o].deducted
        /\ order'[o].restored = order[o].restored
    BY <1>1, <2>1, <2>2 DEF WriteStatus, TypeOK, OrderRow
  <2> QED
    BY <1>1, <2>1, <2>4, <2>5 DEF WriteStatus, Exists
<1>2. ASSUME Commit(s)
      PROVE  /\ \A o \in Order : o # req[s].ord => order'[o] = order[o] /\ moves'[o] = moves[o]
             /\ req[s].ord \in Order /\ order'[req[s].ord].status # "NONE"
             /\ order'[req[s].ord] = OrderAfter(s)
             /\ \A i \in Tracked : moves'[req[s].ord][i] = MoveAfter(s, i)
  <2> DEFINE o == req[s].ord
  <2>1. o \in Order /\ (req[s].op = "create" \/ Exists(o))
    BY <1>2 DEF Commit, Open, SessionInv
  <2>2. order[o] \in OrderRow
    BY <2>1 DEF TypeOK
  <2>3. OrderAfter(s).status # "NONE"
    BY <2>1, <2>2 DEF OrderAfter, NoRow, Exists, OrderRow
  <2>4. order' = [order EXCEPT ![o] = OrderAfter(s)]
    BY <1>2 DEF Commit
  <2>5. moves' = [moves EXCEPT ![o] = [i \in Tracked |-> MoveAfter(s, i)]]
    BY <1>2 DEF Commit
  <2>6. order'[o] = OrderAfter(s) /\ moves'[o] = [i \in Tracked |-> MoveAfter(s, i)]
    BY <2>1, <2>4, <2>5 DEF TypeOK
  <2>7. \A p \in Order : p # o => order'[p] = order[p] /\ moves'[p] = moves[p]
    BY <2>4, <2>5 DEF TypeOK
  <2> QED
    BY <2>1, <2>3, <2>6, <2>7 DEF Exists
<1>3. ASSUME ~Commit(s), ~WriteStatus(s) PROVE order' = order /\ moves' = moves
  <2>1. CASE CreateOrder(s)
    BY <2>1 DEF CreateOrder
  <2>2. CASE Read(s)
    BY <2>2, ReadIsReadStep DEF ReadStep, Checked
  <2>3. CASE BeginTx(s)
    BY <2>3, BeginIsBeginStep DEF BeginStep
  <2>4. CASE ReadStock(s) \/ WriteStock(s) \/ Abort(s)
    BY <2>4 DEF ReadStock, WriteStock, Abort
  <2> QED
    BY <1>3, <2>1, <2>2, <2>3, <2>4 DEF Step
<1> QED
  BY <1>1, <1>2, <1>3

\* The effects of a session's steps on its request and its transaction.
LEMMA CreateEffect ==
  ASSUME IInv, NEW s \in Session, CreateOrder(s)
  PROVE  /\ \A t \in Session \ {s} : req'[t] = req[t] /\ tx'[t] = tx[t]
         /\ req'[s].phase = "open" /\ req'[s].op = "create"
         /\ req'[s].ord \in Order /\ ~Exists(req'[s].ord)
         /\ \A t \in Session : req[t].ord # req'[s].ord
         /\ \E want \in [Item -> 0..MaxQty] :
              tx'[s] = [NoTxn EXCEPT !.todo = [i \in Tracked |-> -want[i]]]
<1>0. req \in [Session -> Request] /\ tx \in [Session -> Txn]
  BY DEF IInv, TypeOK
<1>1. PICK o \in Order, want \in [Item -> 0..MaxQty] :
        /\ ~Exists(o)
        /\ \A t \in Session : req[t].ord # o
        /\ req' = [req EXCEPT ![s] = [Idle EXCEPT !.phase = "open",
                     !.op = "create", !.ord = o, !.to = "PENDING", !.want = want]]
        /\ tx' = [tx EXCEPT ![s] =
                     [NoTxn EXCEPT !.todo = [i \in Tracked |-> -want[i]]]]
  BY DEF CreateOrder
<1>2. /\ req'[s] = [Idle EXCEPT !.phase = "open",
                     !.op = "create", !.ord = o, !.to = "PENDING", !.want = want]
      /\ tx'[s] = [NoTxn EXCEPT !.todo = [i \in Tracked |-> -want[i]]]
      /\ \A t \in Session \ {s} : req'[t] = req[t] /\ tx'[t] = tx[t]
  BY <1>0, <1>1
<1>3. req'[s].phase = "open" /\ req'[s].op = "create" /\ req'[s].ord = o
  BY <1>2 DEF Idle
<1> QED
  BY <1>1, <1>2, <1>3

LEMMA ReadEffect ==
  ASSUME IInv, NEW s \in Session, Read(s)
  PROVE  /\ \A t \in Session \ {s} : req'[t] = req[t]
         /\ tx' = tx
         /\ req[s].phase = "idle" /\ req'[s].phase = "checked"
         /\ req'[s].op \in Ops \ {"create"}
         /\ req'[s].ord \in Order /\ Exists(req'[s].ord)
         /\ req'[s].op \in {"status", "hold", "resume", "pay"} => req'[s].to # "NONE"
<1>0. req \in [Session -> Request]
  BY DEF IInv, TypeOK
<1>1. PICK op \in AllOps, o \in Order, row \in Nat, to \in Status,
           want \in [Item -> 0..MaxQty], seen \in [Item -> Nat] :
        ReadStep(s, op, o, row, to, want, seen)
  BY ReadIsReadStep DEF IInv
<1>2. /\ req'[s] = [phase |-> "checked", op |-> op, ord |-> o, row |-> row,
                    to |-> to, want |-> want, seen |-> seen]
      /\ tx' = tx
      /\ \A t \in Session \ {s} : req'[t] = req[t]
  BY <1>0, <1>1 DEF ReadStep, Checked
<1> QED
  BY <1>1, <1>2 DEF ReadStep

LEMMA BeginEffect ==
  ASSUME IInv, NEW s \in Session, BeginTx(s)
  PROVE  /\ \A t \in Session \ {s} : req'[t] = req[t] /\ tx'[t] = tx[t]
         /\ req[s].phase = "checked" /\ req'[s].phase = "open"
         /\ req'[s].op = req[s].op /\ req'[s].ord = req[s].ord
         /\ req'[s].to = req[s].to
         /\ req[s].op = "status" => req[s].to = "CANCELLED"
         /\ req[s].op \in LockingOps => OrderFree(s, req[s].ord)
         /\ \E todo \in [Tracked -> Int], claim \in BOOLEAN :
              /\ tx'[s] = [NoTxn EXCEPT !.todo = todo, !.claim = claim]
              /\ Restores(req[s].op) =>
                   LET o == req[s].ord IN
                   /\ claim = (order[o].deducted /\ ~order[o].restored)
                   /\ todo = [i \in Tracked |->
                                IF claim THEN -moves[o][i].out ELSE 0]
<1>0. req \in [Session -> Request] /\ tx \in [Session -> Txn]
  BY DEF IInv, TypeOK
<1>1. PICK row \in Nat, todo \in [Tracked -> Int], claim \in BOOLEAN :
        BeginStep(s, row, todo, claim)
  BY BeginIsBeginStep DEF IInv
<1>2. /\ req'[s].phase = "open" /\ req'[s].op = req[s].op
      /\ req'[s].ord = req[s].ord /\ req'[s].to = req[s].to
      /\ \A t \in Session \ {s} : req'[t] = req[t]
  BY <1>0, <1>1 DEF BeginStep, Request
<1>3. /\ tx'[s] = [NoTxn EXCEPT !.todo = todo, !.claim = claim]
      /\ \A t \in Session \ {s} : tx'[t] = tx[t]
  BY <1>0, <1>1 DEF BeginStep
<1> QED
  BY <1>1, <1>2, <1>3 DEF BeginStep

\* A step leaves the other sessions alone; the last step of a request leaves
\* nothing of it.
LEMMA RequestChange ==
  ASSUME IInv, NEW s \in Session, Step(s)
  PROVE  /\ \A t \in Session \ {s} : req'[t] = req[t] /\ tx'[t] = tx[t]
         /\ WriteStatus(s) \/ Commit(s) \/ Abort(s)
              => req'[s] = Idle /\ tx'[s] = NoTxn
         /\ ReadStock(s) \/ WriteStock(s) => req' = req /\ order' = order
<1>0. req \in [Session -> Request] /\ tx \in [Session -> Txn]
  BY DEF IInv, TypeOK
<1>1. WriteStatus(s) \/ Commit(s) \/ Abort(s) =>
        /\ \A t \in Session \ {s} : req'[t] = req[t] /\ tx'[t] = tx[t]
        /\ req'[s] = Idle /\ tx'[s] = NoTxn
  BY <1>0 DEF WriteStatus, Commit, Abort, Finish
<1>2. ReadStock(s) \/ WriteStock(s) =>
        /\ \A t \in Session \ {s} : req'[t] = req[t] /\ tx'[t] = tx[t]
        /\ req' = req /\ order' = order
  BY <1>0 DEF ReadStock, WriteStock
<1> QED
  BY <1>1, <1>2, CreateEffect, ReadEffect, BeginEffect DEF Step

\* What applyStockDelta's two statements do to the transaction.
LEMMA StockChange ==
  ASSUME IInv, NEW s \in Session
  PROVE  /\ ReadStock(s) => \E i \in Tracked :
              /\ tx[s].todo[i] # 0
              /\ tx'[s] = [todo |-> tx[s].todo, cur |-> i, before |-> stock[i],
                           after |-> tx[s].after, did |-> tx[s].did,
                           moved |-> tx[s].moved, wrote |-> tx[s].wrote,
                           claim |-> tx[s].claim]
         /\ WriteStock(s) =>
              /\ tx[s].cur \in Tracked
              /\ \E n \in Nat : /\ \/ n = tx[s].before + tx[s].todo[tx[s].cur]
                                   \/ n = 0 /\ tx[s].before + tx[s].todo[tx[s].cur] < 0
                                /\ tx'[s] = Applied(tx[s], n, n - tx[s].before)
<1> USE DEF IInv
<1>0. tx \in [Session -> Txn] /\ tx[s] \in Txn
  BY DEF TypeOK
<1>1. ASSUME ReadStock(s)
      PROVE  \E i \in Tracked :
              /\ tx[s].todo[i] # 0
              /\ tx'[s] = [todo |-> tx[s].todo, cur |-> i, before |-> stock[i],
                           after |-> tx[s].after, did |-> tx[s].did,
                           moved |-> tx[s].moved, wrote |-> tx[s].wrote,
                           claim |-> tx[s].claim]
  <2>1. PICK i \in Tracked :
          /\ tx[s].todo[i] # 0
          /\ tx' = [tx EXCEPT ![s].cur = i, ![s].before = stock[i]]
    BY <1>1 DEF ReadStock
  <2>2. tx'[s] = [tx[s] EXCEPT !.cur = i, !.before = stock[i]]
    BY <1>0, <2>1
  <2> QED
    BY <1>0, <2>1, <2>2 DEF Txn
<1>2. ASSUME WriteStock(s)
      PROVE  /\ tx[s].cur \in Tracked
             /\ \E n \in Nat : /\ \/ n = tx[s].before + tx[s].todo[tx[s].cur]
                                  \/ n = 0 /\ tx[s].before + tx[s].todo[tx[s].cur] < 0
                               /\ tx'[s] = Applied(tx[s], n, n - tx[s].before)
  <2> DEFINE sum == tx[s].before + tx[s].todo[tx[s].cur]
             n   == IF sum < 0 THEN 0 ELSE sum
  <2>1. tx[s].cur \in Tracked
    BY <1>0, <1>2 DEF WriteStock, Txn
  <2>2. sum \in Int
    BY <1>0, <2>1 DEF Txn
  <2>3. tx'[s] = Applied(tx[s], n, n - tx[s].before)
    BY <1>0, <1>2 DEF WriteStock
  <2>4. n \in Nat /\ (n = sum \/ (n = 0 /\ sum < 0))
    BY <2>2
  <2> HIDE DEF n
  <2> QED
    BY <2>1, <2>3, <2>4
<1> QED
  BY <1>1, <1>2

\* An order that exists keeps existing, and one that another session creates
\* does not come to exist.
LEMMA ExistenceKept ==
  ASSUME IInv, NEW s \in Session, Step(s), NEW o \in Order
  PROVE  /\ Exists(o) => order'[o].status # "NONE"
         /\ ~Exists(o) /\ o # req[s].ord => order'[o].status = "NONE"
BY OrderChange DEF Exists

LEMMA SessionStep ==
  ASSUME IInv, NEW s \in Session, Step(s)
  PROVE  SessionInv'
<1> USE DEF IInv
<1> SUFFICES ASSUME NEW t \in Session
             PROVE  /\ req'[t].phase = "idle" => req'[t].ord = NoOrder
                    /\ req'[t].phase # "idle" => req'[t].ord \in Order /\ req'[t].op # "none"
                    /\ req'[t].phase = "checked" => req'[t].op # "create"
                    /\ req'[t].phase # "idle" /\ req'[t].op # "create"
                         => order'[req'[t].ord].status # "NONE"
                    /\ req'[t].phase # "idle" /\ req'[t].op = "create"
                         => order'[req'[t].ord].status = "NONE"
                    /\ /\ req'[t].phase # "idle"
                       /\ req'[t].op \in {"status", "hold", "resume", "pay"}
                       => req'[t].to # "NONE"
                    /\ req'[t].phase = "open" /\ req'[t].op = "status"
                         => req'[t].to = "CANCELLED"
  BY DEF SessionInv, Open, Exists
<1>1. CASE t # s
  <2>1. req'[t] = req[t]
    BY <1>1, RequestChange
  <2>2. req[t].phase # "idle" /\ req[t].op = "create" => req[s].ord # req[t].ord
    BY <1>1 DEF CreateInv
  <2> QED
    BY <2>1, <2>2, ExistenceKept DEF SessionInv, Open, Exists
<1>2. CASE t = s
  <2>1. CASE WriteStatus(s) \/ Commit(s) \/ Abort(s)
    <3>1. req'[s] = Idle
      BY <2>1, RequestChange
    <3> QED
      BY <1>2, <3>1 DEF Idle
  <2>2. CASE ReadStock(s) \/ WriteStock(s)
    <3>1. req' = req /\ order' = order
      BY <2>2 DEF ReadStock, WriteStock
    <3> QED
      BY <1>2, <3>1 DEF SessionInv, Open, Exists
  <2>3. CASE CreateOrder(s)
    <3>1. order' = order
      BY <2>3 DEF CreateOrder
    <3>2. /\ req'[s].phase = "open" /\ req'[s].op = "create"
          /\ req'[s].ord \in Order /\ ~Exists(req'[s].ord)
      BY <2>3, CreateEffect
    <3> QED
      BY <1>2, <3>1, <3>2 DEF Exists
  <2>4. CASE Read(s)
    <3>1. order' = order
      BY <2>4, ReadIsReadStep DEF ReadStep, Checked
    <3>2. /\ req'[s].phase = "checked"
          /\ req'[s].op \in Ops \ {"create"}
          /\ req'[s].ord \in Order /\ Exists(req'[s].ord)
          /\ req'[s].op \in {"status", "hold", "resume", "pay"} => req'[s].to # "NONE"
      BY <2>4, ReadEffect
    <3> QED
      BY <1>2, <3>1, <3>2, OpsAssumption DEF Exists, AllOps, EditOps
  <2>5. CASE BeginTx(s)
    <3>1. order' = order
      BY <2>5, BeginIsBeginStep DEF BeginStep
    <3>2. /\ req[s].phase = "checked" /\ req'[s].phase = "open"
          /\ req'[s].op = req[s].op /\ req'[s].ord = req[s].ord
          /\ req'[s].to = req[s].to
          /\ req[s].op = "status" => req[s].to = "CANCELLED"
      BY <2>5, BeginEffect
    <3> QED
      BY <1>2, <3>1, <3>2 DEF Exists, SessionInv
  <2> QED
    BY <2>1, <2>2, <2>3, <2>4, <2>5 DEF Step
<1> QED
  BY <1>1, <1>2

LEMMA CreateStep ==
  ASSUME IInv, NEW s \in Session, Step(s)
  PROVE  CreateInv'
<1> USE DEF IInv
<1> SUFFICES ASSUME NEW t \in Session, NEW u \in Session, t # u,
                    req'[t].phase # "idle", req'[t].op = "create"
             PROVE  req'[u].ord # req'[t].ord
  BY DEF CreateInv
<1>0. SessionInv'
  BY SessionStep
<1>1. CASE t = s
  <2>1. req'[u] = req[u]
    BY <1>1, RequestChange
  <2>2. CASE ReadStock(s) \/ WriteStock(s)
    BY <1>1, <2>1, <2>2 DEF ReadStock, WriteStock, CreateInv
  <2>3. CASE CreateOrder(s)
    BY <1>1, <2>1, <2>3, CreateEffect
  <2>4. CASE Read(s)
    BY <1>1, <2>4, ReadEffect
  <2>5. CASE BeginTx(s)
    BY <1>1, <2>5, BeginEffect, ZenonT(60) DEF SessionInv
  <2>6. CASE WriteStatus(s) \/ Commit(s) \/ Abort(s)
    <3>1. req'[s] = Idle
      BY <2>6, RequestChange
    <3> QED
      BY <1>1, <3>1 DEF Idle
  <2> QED
    BY <2>2, <2>3, <2>4, <2>5, <2>6 DEF Step
<1>2. CASE u = s
  <2>1. req'[t] = req[t] /\ req[t].ord \in Order /\ ~Exists(req[t].ord)
    BY <1>2, RequestChange DEF SessionInv
  <2>2. CASE ReadStock(s) \/ WriteStock(s)
    BY <1>2, <2>1, <2>2 DEF ReadStock, WriteStock, CreateInv
  <2>3. CASE CreateOrder(s)
    BY <1>2, <2>1, <2>3, CreateEffect
  <2>4. CASE Read(s)
    BY <1>2, <2>1, <2>4, ReadEffect
  <2>5. CASE BeginTx(s)
    <3>1. req'[u].ord = req[u].ord
      BY <1>2, <2>5, BeginEffect
    <3> QED
      BY <2>1, <3>1 DEF CreateInv
  <2>6. CASE WriteStatus(s) \/ Commit(s) \/ Abort(s)
    <3>1. req'[s] = Idle
      BY <2>6, RequestChange
    <3> QED
      BY <1>2, <2>1, <3>1, NullAssumption DEF Idle
  <2> QED
    BY <2>2, <2>3, <2>4, <2>5, <2>6 DEF Step
<1>3. CASE t # s /\ u # s
  BY <1>3, RequestChange DEF CreateInv
<1> QED
  BY <1>1, <1>2, <1>3

LEMMA LockStep ==
  ASSUME IInv, NEW s \in Session, Step(s)
  PROVE  LockInv'
<1> USE DEF IInv
\* Session s works in a transaction that locks its row: it did, or it found the
\* row free.
<1>1. ASSUME NEW t \in Session \ {s},
             req'[s].phase = "open", req'[s].op \in LockingOps,
             req'[t].phase = "open", req'[t].op \in LockingOps
      PROVE  req'[s].ord # req'[t].ord
  <2>1. req'[t] = req[t]
    BY RequestChange
  <2>2. CASE ReadStock(s) \/ WriteStock(s)
    BY <1>1, <2>1, <2>2, RequestChange DEF LockInv, Open
  <2>3. CASE CreateOrder(s)
    BY <1>1, <2>3, CreateEffect DEF LockingOps
  <2>4. CASE Read(s)
    BY <1>1, <2>4, ReadEffect
  <2>5. CASE BeginTx(s)
    <3>1. /\ req'[s].ord = req[s].ord /\ req'[s].op = req[s].op
          /\ req[s].op \in LockingOps => OrderFree(s, req[s].ord)
      BY <2>5, BeginEffect
    <3>2. OrderFree(s, req[s].ord)
      BY <1>1, <3>1
    <3> QED
      BY <1>1, <2>1, <3>1, <3>2 DEF OrderFree, LocksOrder, Open, LockingOps
  <2>6. CASE WriteStatus(s) \/ Commit(s) \/ Abort(s)
    BY <1>1, <2>6, RequestChange DEF Idle
  <2> QED
    BY <2>2, <2>3, <2>4, <2>5, <2>6 DEF Step
<1>2. ASSUME NEW t \in Session \ {s}, NEW u \in Session \ {s}, t # u,
             req'[t].phase = "open", req'[t].op \in LockingOps,
             req'[u].phase = "open", req'[u].op \in LockingOps
      PROVE  req'[t].ord # req'[u].ord
  BY <1>2, RequestChange DEF LockInv, Open
<1> QED
  BY <1>1, <1>2 DEF LockInv, Open

LEMMA AbsentStep ==
  ASSUME IInv, NEW s \in Session, Step(s)
  PROVE  AbsentInv'
<1> USE DEF IInv
<1> SUFFICES ASSUME NEW o \in Order, order'[o].status = "NONE"
             PROVE  /\ ~order'[o].deducted /\ ~order'[o].restored
                    /\ \A i \in Tracked : moves'[o][i].out = 0
  BY DEF AbsentInv, Exists
<1>1. ~Exists(o)
  BY ExistenceKept DEF Exists
<1>2. order'[o] = order[o] /\ moves'[o] = moves[o]
  <2>1. o = req[s].ord => ~Commit(s) /\ ~WriteStatus(s)
    BY OrderChange
  <2> QED
    BY <2>1, OrderChange
<1> QED
  BY <1>1, <1>2 DEF AbsentInv

\* No other session changes the claims of an order while a transaction that
\* locks its row is open.
LEMMA ClaimsKept ==
  ASSUME IInv, NEW s \in Session, Step(s), NEW t \in Session \ {s},
         Open(t), req[t].op \in LockingOps
  PROVE  LET o == req[t].ord IN
         /\ o \in Order
         /\ order'[o].deducted = order[o].deducted
         /\ order'[o].restored = order[o].restored
<1> USE DEF IInv
<1> DEFINE o == req[t].ord
<1>1. o \in Order /\ Exists(o)
  BY DEF SessionInv, Open, LockingOps
<1>2. CASE o # req[s].ord
  BY <1>1, <1>2, OrderChange
<1>3. CASE o = req[s].ord /\ Commit(s)
  <2>1. req[s].op \notin LockingOps
    BY <1>3 DEF LockInv, Commit
  <2>2. req[s].op # "create"
    BY <1>1, <1>3 DEF SessionInv, Commit, Open
  <2>3. OrderAfter(s) = order[o]
    BY <1>3, <2>1, <2>2 DEF OrderAfter, LockingOps
  <2> QED
    BY <1>1, <1>3, <2>3, OrderChange
<1>4. CASE o = req[s].ord /\ ~Commit(s)
  BY <1>1, <1>4, OrderChange
<1> QED
  BY <1>2, <1>3, <1>4

LEMMA ClaimStep ==
  ASSUME IInv, NEW s \in Session, Step(s)
  PROVE  ClaimInv'
<1> USE DEF IInv
<1> SUFFICES ASSUME NEW t \in Session, req'[t].phase = "open", Restores(req'[t].op)
             PROVE  /\ tx'[t].claim => /\ order'[req'[t].ord].deducted
                                       /\ ~order'[req'[t].ord].restored
                    /\ ~tx'[t].claim => /\ tx'[t].moved = {}
                                        /\ \A i \in Tracked : tx'[t].todo[i] = 0
  BY DEF ClaimInv, Open
<1>1. CASE t # s
  <2>1. req'[t] = req[t] /\ tx'[t] = tx[t]
    BY <1>1, RequestChange
  <2>2. Open(t) /\ req[t].op \in LockingOps /\ Restores(req[t].op)
    BY <2>1 DEF Open, LockingOps, Restores
  <2>3. /\ order'[req[t].ord].deducted = order[req[t].ord].deducted
        /\ order'[req[t].ord].restored = order[req[t].ord].restored
    BY <1>1, <2>2, ClaimsKept
  <2> QED
    BY <2>1, <2>2, <2>3 DEF ClaimInv
<1>2. CASE t = s
  <2>1. CASE WriteStatus(s) \/ Commit(s) \/ Abort(s)
    BY <1>2, <2>1, RequestChange DEF Idle
  <2>2. CASE CreateOrder(s)
    BY <1>2, <2>2, CreateEffect DEF Restores
  <2>3. CASE Read(s)
    BY <1>2, <2>3, ReadEffect
  <2>4. CASE BeginTx(s)
    <3>1. order' = order
      BY <2>4, BeginIsBeginStep DEF BeginStep
    <3>2. req'[s].ord = req[s].ord /\ req'[s].op = req[s].op
      BY <2>4, BeginEffect
    <3> DEFINE o == req[s].ord
    <3>3. PICK todo \in [Tracked -> Int], claim \in BOOLEAN :
            /\ tx'[s] = [NoTxn EXCEPT !.todo = todo, !.claim = claim]
            /\ Restores(req[s].op) =>
                 /\ claim = (order[o].deducted /\ ~order[o].restored)
                 /\ todo = [i \in Tracked |->
                              IF claim THEN -moves[o][i].out ELSE 0]
      BY <2>4, BeginEffect
    <3>4. tx'[s].claim = claim /\ tx'[s].moved = {} /\ tx'[s].todo = todo
      BY <3>3 DEF NoTxn
    <3>5. /\ claim = (order[o].deducted /\ ~order[o].restored)
          /\ ~claim => \A i \in Tracked : todo[i] = 0
      BY <1>2, <3>2, <3>3
    <3> QED
      BY <1>2, <3>1, <3>2, <3>4, <3>5
  <2>5. CASE ReadStock(s)
    <3>1. req' = req /\ order' = order
      BY <2>5, RequestChange
    <3>2. tx'[s].claim = tx[s].claim /\ tx'[s].moved = tx[s].moved /\ tx'[s].todo = tx[s].todo
      <4>1. PICK i \in Tracked :
              tx'[s] = [todo |-> tx[s].todo, cur |-> i, before |-> stock[i],
                        after |-> tx[s].after, did |-> tx[s].did,
                        moved |-> tx[s].moved, wrote |-> tx[s].wrote,
                        claim |-> tx[s].claim]
        BY <2>5, StockChange
      <4> QED
        BY <4>1
    <3> QED
      BY <1>2, <3>1, <3>2 DEF ClaimInv, Open
  <2>6. CASE WriteStock(s)
    <3>1. req' = req /\ order' = order
      BY <2>6, RequestChange
    <3>2. tx'[s].claim = tx[s].claim
      <4>1. PICK n \in Nat : tx'[s] = Applied(tx[s], n, n - tx[s].before)
        BY <2>6, StockChange
      <4> QED
        BY <4>1 DEF Applied
    <3>3. tx[s].claim
      <4>1. tx[s].cur \in Tracked /\ tx[s].todo[tx[s].cur] # 0
        BY <2>6, StockChange, NullAssumption, TrackedAssumption DEF WriteInv
      <4> QED
        BY <1>2, <3>1, <4>1 DEF ClaimInv, Open
    <3> QED
      BY <1>2, <3>1, <3>2, <3>3 DEF ClaimInv, Open
  <2> QED
    BY <2>1, <2>2, <2>3, <2>4, <2>5, <2>6 DEF Step
<1> QED
  BY <1>1, <1>2

LEMMA WriteStep ==
  ASSUME IInv, NEW s \in Session, Step(s)
  PROVE  WriteInv'
<1> USE DEF IInv
<1> DEFINE Good(t) == /\ t.before >= 0
                      /\ t.cur # NoItem => t.todo[t.cur] # 0
                      /\ \A i \in t.wrote : t.after[i] >= 0
<1>0. Good(NoTxn) /\ Good(tx[s]) /\ tx[s] \in Txn
  BY DEF NoTxn, WriteInv, TypeOK
<1>1. Good(tx'[s])
  <2>1. CASE WriteStatus(s) \/ Commit(s) \/ Abort(s)
    BY <1>0, <2>1, RequestChange
  <2>2. CASE CreateOrder(s)
    <3>1. PICK want \in [Item -> 0..MaxQty] :
            tx'[s] = [NoTxn EXCEPT !.todo = [i \in Tracked |-> -want[i]]]
      BY <2>2, CreateEffect
    <3> QED
      BY <3>1 DEF NoTxn
  <2>3. CASE Read(s)
    BY <1>0, <2>3, ReadEffect
  <2>4. CASE BeginTx(s)
    <3>1. PICK todo, claim :
            tx'[s] = [NoTxn EXCEPT !.todo = todo, !.claim = claim]
      <4>1. \E row \in Nat, todo \in [Tracked -> Int], claim \in BOOLEAN :
              BeginStep(s, row, todo, claim)
        BY <2>4, BeginIsBeginStep
      <4> QED
        BY <4>1 DEF BeginStep, TypeOK
    <3> QED
      BY <3>1 DEF NoTxn
  <2>5. CASE ReadStock(s)
    <3>1. PICK i \in Tracked :
            /\ tx[s].todo[i] # 0
            /\ tx'[s] = [todo |-> tx[s].todo, cur |-> i, before |-> stock[i],
                         after |-> tx[s].after, did |-> tx[s].did,
                         moved |-> tx[s].moved, wrote |-> tx[s].wrote,
                         claim |-> tx[s].claim]
      BY <2>5, StockChange
    <3> QED
      BY <1>0, <3>1 DEF StockNeverNegative
  <2>6. CASE WriteStock(s)
    <3>1. PICK n \in Nat : tx'[s] = Applied(tx[s], n, n - tx[s].before)
      BY <2>6, StockChange
    <3> DEFINE c == tx[s].cur
    <3>2. c \in Tracked
      BY <2>6, StockChange
    <3>3. /\ tx'[s].before = 0 /\ tx'[s].cur = NoItem
          /\ tx'[s].wrote \subseteq tx[s].wrote \cup {c}
          /\ tx'[s].after = [tx[s].after EXCEPT ![c] = n]
      BY <3>1 DEF Applied
    <3>4. ASSUME NEW i \in tx'[s].wrote PROVE tx'[s].after[i] >= 0
      BY <1>0, <3>2, <3>3 DEF Txn
    <3> QED
      BY <3>3, <3>4
  <2> QED
    BY <2>1, <2>2, <2>3, <2>4, <2>5, <2>6 DEF Step
<1>2. \A t \in Session \ {s} : Good(tx'[t])
  BY RequestChange DEF WriteInv
<1> QED
  BY <1>1, <1>2 DEF WriteInv

\* The clamp of applyStockDelta: stock is not negative after a step.
LEMMA NonNegativeStep ==
  ASSUME IInv, NEW s \in Session, Step(s)
  PROVE  StockNeverNegative'
<1> USE DEF IInv
<1>1. CASE Commit(s)
  BY <1>1 DEF Commit, StockNeverNegative, WriteInv
<1>2. CASE CreateOrder(s) \/ WriteStatus(s) \/ ReadStock(s) \/ WriteStock(s) \/ Abort(s)
  BY <1>2 DEF CreateOrder, WriteStatus, ReadStock, WriteStock, Abort, StockNeverNegative
<1>3. CASE Read(s)
  BY <1>3, ReadIsReadStep DEF ReadStep, Checked, StockNeverNegative
<1>4. CASE BeginTx(s)
  BY <1>4, BeginIsBeginStep DEF BeginStep, StockNeverNegative
<1> QED
  BY <1>1, <1>2, <1>3, <1>4 DEF Step

\* The movements a commit adds: a restore counts, anything else is reserved.
LEMMA MoveAfterFields ==
  ASSUME NEW s \in Session, NEW i \in Tracked, NEW m \in Move,
         m = moves[req[s].ord][i]
  PROVE  /\ i \notin tx[s].moved => MoveAfter(s, i) = m
         /\ ~Restores(req[s].op) => /\ MoveAfter(s, i).restores = m.restores
                                    /\ MoveAfter(s, i).back = m.back
         /\ Restores(req[s].op) => /\ MoveAfter(s, i).restores <= m.restores + 1
                                   /\ MoveAfter(s, i).out = m.out
<1>1. CASE i \notin tx[s].moved
  BY <1>1 DEF MoveAfter, Move
<1>2. CASE i \in tx[s].moved /\ Restores(req[s].op)
  BY <1>2 DEF MoveAfter, Move
<1>3. CASE i \in tx[s].moved /\ ~Restores(req[s].op)
  BY <1>3 DEF MoveAfter, Move
<1> QED
  BY <1>1, <1>2, <1>3

\* The claim on stockRestoredAt: a commit that restores stock is the first.
LEMMA RestoreStep ==
  ASSUME IInv, NEW s \in Session, Step(s)
  PROVE  RestoredAtMostOnce'
<1> USE DEF IInv
<1> SUFFICES ASSUME NEW o \in Order
             PROVE  /\ order'[o].restored => order'[o].deducted
                    /\ \A i \in Tracked :
                         /\ moves'[o][i].restores <= 1
                         /\ ~order'[o].restored
                              => moves'[o][i].restores = 0 /\ moves'[o][i].back = 0
  BY DEF RestoredAtMostOnce
<1>0. /\ order[o] \in OrderRow
      /\ \A i \in Tracked : moves[o][i] \in Move
  BY DEF TypeOK
<1>1. CASE ~(Commit(s) /\ o = req[s].ord)
  <2>1. /\ moves'[o] = moves[o]
        /\ order'[o].deducted = order[o].deducted
        /\ order'[o].restored = order[o].restored
    BY <1>1, OrderChange
  <2> QED
    BY <2>1 DEF RestoredAtMostOnce
<1>2. CASE Commit(s) /\ o = req[s].ord
  <2>0. /\ order'[o] = OrderAfter(s)
        /\ \A i \in Tracked : moves'[o][i] = MoveAfter(s, i)
        /\ Open(s)
    BY <1>2, OrderChange, ZenonT(60) DEF Commit
  <2>1. CASE req[s].op = "create"
    <3>1. ~order[o].restored
      BY <1>2, <2>0, <2>1 DEF AbsentInv, SessionInv, Open
    <3>2. order'[o].deducted /\ ~order'[o].restored
      BY <2>0, <2>1 DEF OrderAfter, NoRow
    <3>3. ASSUME NEW i \in Tracked
          PROVE  moves'[o][i].restores = 0 /\ moves'[o][i].back = 0
      <4>1. moves[o][i].restores = 0 /\ moves[o][i].back = 0
        BY <3>1 DEF RestoredAtMostOnce
      <4>2. ~Restores(req[s].op)
        BY <2>1 DEF Restores
      <4> QED
        BY <1>0, <1>2, <2>0, <4>1, <4>2, MoveAfterFields
    <3> QED
      BY <3>2, <3>3
  <2>2. CASE Restores(req[s].op) /\ tx[s].claim
    <3>1. order[o].deducted /\ ~order[o].restored
      BY <1>2, <2>0, <2>2 DEF ClaimInv
    <3>2. order'[o].deducted /\ order'[o].restored
      BY <1>0, <1>2, <2>0, <2>2, <3>1 DEF OrderAfter, Restores, OrderRow
    <3>3. ASSUME NEW i \in Tracked PROVE moves'[o][i].restores <= 1
      <4>1. moves[o][i].restores = 0
        BY <3>1 DEF RestoredAtMostOnce
      <4> QED
        BY <1>0, <1>2, <2>0, <2>2, <4>1, MoveAfterFields
    <3> QED
      BY <3>2, <3>3
  <2>3. CASE Restores(req[s].op) /\ ~tx[s].claim
    <3>1. tx[s].moved = {}
      BY <2>0, <2>3 DEF ClaimInv
    <3>2. \A i \in Tracked : moves'[o][i] = moves[o][i]
      BY <1>2, <2>0, <3>1 DEF MoveAfter
    <3>3. /\ order'[o].deducted = order[o].deducted
          /\ order'[o].restored = order[o].restored
      BY <1>0, <1>2, <2>0, <2>3 DEF OrderAfter, Restores, OrderRow
    <3> QED
      BY <3>2, <3>3 DEF RestoredAtMostOnce
  <2>4. CASE ~Restores(req[s].op) /\ req[s].op # "create"
    <3>1. order'[o] = order[o]
      BY <1>2, <2>0, <2>4 DEF OrderAfter, Restores
    <3>2. ASSUME NEW i \in Tracked
          PROVE  /\ moves'[o][i].restores = moves[o][i].restores
                 /\ moves'[o][i].back = moves[o][i].back
      BY <1>0, <1>2, <2>0, <2>4, MoveAfterFields
    <3> QED
      BY <3>1, <3>2 DEF RestoredAtMostOnce
  <2> QED
    BY <2>1, <2>2, <2>3, <2>4
<1> QED
  BY <1>1, <1>2

-----------------------------------------------------------------------------
(* Theorems *)

LEMMA InvNext ==
  ASSUME IInv, [Next]_vars
  PROVE  IInv'
<1>1. TypeOK'
  BY NextType DEF IInv
<1>2. CASE UNCHANGED vars
  BY <1>2 DEF vars, IInv, TypeOK, SessionInv, CreateInv, LockInv, AbsentInv,
              ClaimInv, WriteInv, StockNeverNegative, RestoredAtMostOnce,
              Open, Exists
<1>3. CASE Next
  <2>1. PICK s \in Session : Step(s)
    BY <1>3 DEF Next, Step
  <2> QED
    BY <1>1, <2>1, SessionStep, CreateStep, LockStep, AbsentStep, ClaimStep,
       WriteStep, NonNegativeStep, RestoreStep DEF IInv
<1> QED
  BY <1>2, <1>3

LEMMA Invariance == Spec => []IInv
<1>1. Init => IInv
  BY InitInv
<1>2. IInv /\ [Next]_vars => IInv'
  BY InvNext
<1> QED
  BY <1>1, <1>2, PTL DEF Spec

\* Every variable keeps its type, whatever the handlers interleave: in
\* particular no quantity of a line leaves 0..MaxQty.
THEOREM TypeCorrect == Spec => []TypeOK
<1>1. IInv => TypeOK
  BY DEF IInv
<1> QED
  BY <1>1, Invariance, PTL

\* For any orders, items, sessions and initial stock, applyStockDelta never
\* publishes a negative currentStock, although it computes from a stale read.
THEOREM StockIsNeverNegative == Spec => []StockNeverNegative
<1>1. IInv => StockNeverNegative
  BY DEF IInv
<1> QED
  BY <1>1, Invariance, PTL

\* For any orders, items and sessions, the claim of restoreStockForCancelledOrder
\* lets the stock of an order be restored at most once per item.
THEOREM ReservationIsRestoredAtMostOnce == Spec => []RestoredAtMostOnce
<1>1. IInv => RestoredAtMostOnce
  BY DEF IInv
<1> QED
  BY <1>1, Invariance, PTL

-----------------------------------------------------------------------------
(* Without edits, a restore undoes the reservation *)

LEMMA OpStep ==
  ASSUME NoEdits, IInv, OpInv, NEW s \in Session, Step(s)
  PROVE  OpInv'
<1> SUFFICES ASSUME NEW t \in Session
             PROVE  /\ req'[t].phase # "idle" => req'[t].op \notin EditOps
                    /\ req'[t].phase = "open" =>
                         req'[t].op = "create" \/ Restores(req'[t].op)
  BY DEF OpInv, Open
<1>1. CASE t # s
  BY <1>1, RequestChange DEF OpInv, Open
<1>2. CASE t = s
  <2>1. CASE WriteStatus(s) \/ Commit(s) \/ Abort(s)
    BY <1>2, <2>1, RequestChange DEF Idle
  <2>2. CASE ReadStock(s) \/ WriteStock(s)
    BY <1>2, <2>2, RequestChange DEF OpInv, Open
  <2>3. CASE CreateOrder(s)
    BY <1>2, <2>3, CreateEffect DEF EditOps
  <2>4. CASE Read(s)
    BY <1>2, <2>4, ReadEffect DEF NoEdits
  <2>5. CASE BeginTx(s)
    <3>1. req[s].phase = "checked" /\ req'[s].op = req[s].op
      BY <2>5, BeginEffect
    <3>2. req[s].op \in {"cancel", "status", "delete"} \cup EditOps
      BY <2>5 DEF BeginTx, BeginAdd, BeginSetQty, BeginRemove, BeginReplace,
                  BeginCancel, BeginCancelByStatus, BeginDelete, Checking, EditOps
    <3> QED
      BY <1>2, <3>1, <3>2 DEF OpInv, Restores
  <2> QED
    BY <2>1, <2>2, <2>3, <2>4, <2>5 DEF Step
<1> QED
  BY <1>1, <1>2

\* What a committing create or restore does to the movements of its order.
LEMMA CommitMoves ==
  ASSUME UInv, NEW s \in Session, Commit(s), NEW i \in Tracked
  PROVE  LET m == moves[req[s].ord][i]
             n == moves'[req[s].ord][i]
         IN /\ m.out \in Int /\ m.back \in Int /\ tx[s].did[i] \in Int
            /\ req[s].op = "create" =>
                 /\ m.out = 0 /\ m.back = 0 /\ n.back = 0
                 /\ n.out = IF i \in tx[s].moved THEN tx[s].did[i] ELSE 0
            /\ Restores(req[s].op) /\ ~tx[s].claim => n = m
            /\ Restores(req[s].op) /\ tx[s].claim => n.out = m.out /\ n.out + n.back = 0
<1> USE DEF UInv, IInv
<1> DEFINE o == req[s].ord
           m == moves[o][i]
           n == moves'[o][i]
<1>0. /\ o \in Order /\ n = MoveAfter(s, i) /\ Open(s)
      /\ \A j \in Tracked : tx[s].todo[j] = 0
  BY OrderChange DEF Commit, Step
<1>1. m \in Move /\ m.out \in Int /\ m.back \in Int /\ tx[s].did[i] \in Int
  BY <1>0 DEF TypeOK, Move, Txn
<1>2. ASSUME req[s].op = "create"
      PROVE  /\ m.out = 0 /\ m.back = 0 /\ n.back = 0
             /\ n.out = IF i \in tx[s].moved THEN tx[s].did[i] ELSE 0
  <2>1. m.out = 0 /\ m.back = 0
    BY <1>0, <1>2 DEF SessionInv, AbsentInv, RestoredAtMostOnce, Open
  <2>2. CASE i \in tx[s].moved
    <3>1. n = [out |-> m.out + tx[s].did[i], back |-> m.back,
               restores |-> m.restores]
      BY <1>0, <1>2, <2>2 DEF MoveAfter, Restores
    <3> QED
      BY <1>1, <2>1, <2>2, <3>1
  <2>3. CASE i \notin tx[s].moved
    <3>1. n = m
      BY <1>0, <1>1, <2>3, MoveAfterFields
    <3> QED
      BY <2>1, <2>3, <3>1
  <2> QED
    BY <2>1, <2>2, <2>3
<1>3. Restores(req[s].op) /\ ~tx[s].claim => n = m
  BY <1>0, <1>1, MoveAfterFields DEF ClaimInv
<1>4. ASSUME Restores(req[s].op), tx[s].claim
      PROVE  n.out = m.out /\ n.out + n.back = 0
  <2>1. m.back = 0
    BY <1>0, <1>4 DEF ClaimInv, RestoredAtMostOnce
  <2>2. IF i \in tx[s].moved THEN tx[s].did[i] = -m.out ELSE tx[s].todo[i] = -m.out
    BY <1>0, <1>4 DEF UndoInv, GiveBack
  <2>3. CASE i \in tx[s].moved
    <3>1. n = [out |-> m.out, back |-> m.back + tx[s].did[i],
               restores |-> m.restores + 1]
      BY <1>0, <1>4, <2>3 DEF MoveAfter
    <3> QED
      BY <1>1, <2>1, <2>2, <2>3, <3>1
  <2>4. CASE i \notin tx[s].moved
    <3>1. n = m
      BY <1>0, <1>1, <2>4, MoveAfterFields
    <3>2. m.out = 0
      BY <1>0, <1>1, <2>2, <2>4
    <3> QED
      BY <2>1, <3>1, <3>2
  <2> QED
    BY <2>3, <2>4
<1> QED
  BY <1>1, <1>2, <1>3, <1>4

\* A transaction of a create or a restore, after applyStockDelta's write.
LEMMA AppliedDelta ==
  ASSUME IInv, NEW s \in Session, WriteStock(s)
  PROVE  LET c == tx[s].cur IN
         /\ c \in Tracked /\ tx[s].todo[c] # 0 /\ tx[s].todo[c] \in Int
         /\ tx'[s].todo = [tx[s].todo EXCEPT ![c] = 0]
         /\ tx'[s].moved = tx[s].moved \cup {c}
         /\ tx'[s].claim = tx[s].claim
         /\ \E d \in Int : /\ tx'[s].did = [tx[s].did EXCEPT ![c] = d]
                           /\ tx[s].todo[c] >= 0 => d = tx[s].todo[c]
                           /\ tx[s].todo[c] <= 0 => d <= 0
<1> DEFINE c == tx[s].cur
<1>0. tx[s] \in Txn
  BY DEF IInv, TypeOK
<1>1. c \in Tracked
  BY StockChange
<1>2. tx[s].todo[c] # 0
  BY <1>1, NullAssumption, TrackedAssumption DEF IInv, WriteInv
<1>3. PICK n \in Nat : /\ \/ n = tx[s].before + tx[s].todo[tx[s].cur]
                          \/ n = 0 /\ tx[s].before + tx[s].todo[tx[s].cur] < 0
                       /\ tx'[s] = Applied(tx[s], n, n - tx[s].before)
  <2>1. \E n \in Nat : /\ \/ n = tx[s].before + tx[s].todo[tx[s].cur]
                          \/ n = 0 /\ tx[s].before + tx[s].todo[tx[s].cur] < 0
                       /\ tx'[s] = Applied(tx[s], n, n - tx[s].before)
    BY StockChange
  <2> QED
    BY <2>1
<1>4. tx[s].before \in Int /\ tx[s].before >= 0 /\ tx[s].todo[c] \in Int
  BY <1>0, <1>1 DEF Txn, IInv, WriteInv
<1> DEFINE d == n - tx[s].before
<1>5. /\ d \in Int
      /\ tx[s].todo[c] >= 0 => d = tx[s].todo[c]
      /\ tx[s].todo[c] <= 0 => d <= 0
  BY <1>3, <1>4
<1>6. /\ tx'[s].todo = [tx[s].todo EXCEPT ![c] = 0]
      /\ tx'[s].moved = tx[s].moved \cup {c}
      /\ tx'[s].claim = tx[s].claim
      /\ tx'[s].did = [tx[s].did EXCEPT ![c] = d]
  BY <1>3 DEF Applied
<1> HIDE DEF d
<1> QED
  BY <1>1, <1>2, <1>4, <1>5, <1>6

LEMMA TakeStep ==
  ASSUME NoEdits, UInv, NEW s \in Session, Step(s)
  PROVE  TakeInv'
<1> USE DEF UInv
<1>1. ASSUME NEW o \in Order, NEW i \in Tracked PROVE moves'[o][i].out <= 0
  <2>1. CASE ~(Commit(s) /\ o = req[s].ord)
    BY <2>1, OrderChange DEF TakeInv
  <2>2. CASE Commit(s) /\ o = req[s].ord
    <3>1. Open(s) /\ (req[s].op = "create" \/ Restores(req[s].op))
      BY <2>2 DEF Commit, OpInv
    <3>2. CASE req[s].op = "create"
      BY <2>2, <3>1, <3>2, CommitMoves DEF TakeInv
    <3>3. CASE Restores(req[s].op)
      BY <2>2, <3>3, CommitMoves DEF TakeInv
    <3> QED
      BY <3>1, <3>2, <3>3
  <2> QED
    BY <2>1, <2>2
<1>2. ASSUME NEW t \in Session, req'[t].phase = "open", req'[t].op = "create",
             NEW i \in Tracked
      PROVE  tx'[t].todo[i] <= 0 /\ tx'[t].did[i] <= 0
  <2>1. CASE t # s
    BY <1>2, <2>1, RequestChange DEF TakeInv, Open
  <2>2. CASE t = s /\ (WriteStatus(s) \/ Commit(s) \/ Abort(s))
    BY <1>2, <2>2, RequestChange DEF Idle
  <2>3. CASE t = s /\ CreateOrder(s)
    <3>1. PICK want \in [Item -> 0..MaxQty] :
            tx'[s] = [NoTxn EXCEPT !.todo = [j \in Tracked |-> -want[j]]]
      BY <2>3, CreateEffect
    <3>2. tx'[s].todo = [j \in Tracked |-> -want[j]] /\ tx'[s].did = Zero
      BY <3>1 DEF NoTxn
    <3>3. want[i] \in Nat
      BY TrackedAssumption, BoundAssumption
    <3> QED
      BY <2>3, <3>2, <3>3 DEF Zero
  <2>4. CASE t = s /\ Read(s)
    BY <1>2, <2>4, ReadEffect
  <2>5. CASE t = s /\ BeginTx(s)
    <3>1. req[s].phase = "checked" /\ req'[s].op = req[s].op
      BY <2>5, BeginEffect DEF UInv
    <3> QED
      BY <1>2, <2>5, <3>1 DEF IInv, SessionInv
  <2>6. CASE t = s /\ ReadStock(s)
    <3>1. tx'[s].todo = tx[s].todo /\ tx'[s].did = tx[s].did /\ req' = req
      <4>1. PICK j \in Tracked :
              tx'[s] = [todo |-> tx[s].todo, cur |-> j, before |-> stock[j],
                        after |-> tx[s].after, did |-> tx[s].did,
                        moved |-> tx[s].moved, wrote |-> tx[s].wrote,
                        claim |-> tx[s].claim]
        BY <2>6, StockChange
      <4> QED
        BY <2>6, <4>1, RequestChange
    <3> QED
      BY <1>2, <2>6, <3>1 DEF TakeInv, Open
  <2>7. CASE t = s /\ WriteStock(s)
    <3>0. tx[s] \in Txn
      BY DEF IInv, TypeOK
    <3> DEFINE c == tx[s].cur
    <3>1. req' = req
      BY <2>7, RequestChange
    <3>2. \A j \in Tracked : tx[s].todo[j] <= 0 /\ tx[s].did[j] <= 0
      BY <1>2, <2>7, <3>1 DEF TakeInv, Open
    <3>3. PICK d \in Int : /\ tx'[s].did = [tx[s].did EXCEPT ![c] = d]
                           /\ tx[s].todo[c] <= 0 => d <= 0
      BY <2>7, AppliedDelta
    <3>4. c \in Tracked /\ tx'[s].todo = [tx[s].todo EXCEPT ![c] = 0]
      BY <2>7, AppliedDelta
    <3> QED
      BY <2>7, <3>0, <3>2, <3>3, <3>4 DEF Txn
  <2> QED
    BY <2>2, <2>3, <2>4, <2>5, <2>6, <2>7, <2>1 DEF Step
<1> QED
  BY <1>1, <1>2 DEF TakeInv, Open

LEMMA UndoStep ==
  ASSUME NoEdits, UInv, NEW s \in Session, Step(s)
  PROVE  UndoInv'
<1> USE DEF UInv
<1> SUFFICES ASSUME NEW t \in Session, req'[t].phase = "open",
                    Restores(req'[t].op), tx'[t].claim
             PROVE  GiveBack(tx'[t], moves'[req'[t].ord])
  BY DEF UndoInv, Open, GiveBack
<1>1. CASE t # s
  <2>1. req'[t] = req[t] /\ tx'[t] = tx[t]
    BY <1>1, RequestChange
  <2>2. GiveBack(tx[t], moves[req[t].ord])
    BY <2>1 DEF UndoInv, Open
  <2>3. moves'[req[t].ord] = moves[req[t].ord]
    <3>1. req[t].ord \in Order /\ Exists(req[t].ord)
      BY <2>1 DEF IInv, SessionInv, Restores, Open
    <3>2. CASE Commit(s)
      <4>1. Open(s) /\ (req[s].op = "create" \/ Restores(req[s].op))
        BY <3>2 DEF Commit, OpInv
      <4>2. req[s].ord # req[t].ord
        BY <1>1, <2>1, <3>1, <4>1 DEF IInv, SessionInv, LockInv, LockingOps, Restores, Open
      <4> QED
        BY <3>1, <4>2, OrderChange
    <3>3. CASE ~Commit(s)
      BY <3>3, OrderChange
    <3> QED
      BY <3>2, <3>3
  <2> QED
    BY <2>1, <2>2, <2>3
<1>2. CASE t = s
  <2>1. CASE WriteStatus(s) \/ Commit(s) \/ Abort(s)
    BY <1>2, <2>1, RequestChange DEF Idle
  <2>2. CASE CreateOrder(s)
    BY <1>2, <2>2, CreateEffect DEF Restores
  <2>3. CASE Read(s)
    BY <1>2, <2>3, ReadEffect
  <2>4. CASE BeginTx(s)
    <3> DEFINE o == req[s].ord
    <3>0. req'[s].ord = o /\ req'[s].op = req[s].op /\ moves' = moves
      BY <2>4, BeginEffect, OrderChange, BeginIsBeginStep DEF BeginStep, IInv
    <3>1. PICK todo \in [Tracked -> Int], claim \in BOOLEAN :
            /\ tx'[s] = [NoTxn EXCEPT !.todo = todo, !.claim = claim]
            /\ Restores(req[s].op) =>
                 /\ claim = (order[o].deducted /\ ~order[o].restored)
                 /\ todo = [i \in Tracked |->
                              IF claim THEN -moves[o][i].out ELSE 0]
      BY <2>4, BeginEffect
    <3>2. tx'[s].todo = todo /\ tx'[s].moved = {} /\ tx'[s].claim = claim
      BY <3>1 DEF NoTxn
    <3>3. todo = [i \in Tracked |-> -moves[o][i].out]
      BY <1>2, <3>0, <3>1, <3>2
    <3> QED
      BY <1>2, <3>0, <3>2, <3>3 DEF GiveBack
  <2>5. CASE ReadStock(s)
    <3>1. PICK j \in Tracked :
            tx'[s] = [todo |-> tx[s].todo, cur |-> j, before |-> stock[j],
                      after |-> tx[s].after, did |-> tx[s].did,
                      moved |-> tx[s].moved, wrote |-> tx[s].wrote,
                      claim |-> tx[s].claim]
      BY <2>5, StockChange DEF UInv
    <3>2. req' = req /\ moves' = moves
      BY <2>5, RequestChange DEF ReadStock
    <3>3. GiveBack(tx[s], moves[req[s].ord])
      BY <1>2, <3>1, <3>2 DEF UndoInv, Open
    <3> QED
      BY <1>2, <3>1, <3>2, <3>3 DEF GiveBack
  <2>6. CASE WriteStock(s)
    <3> DEFINE c == tx[s].cur
               m == moves[req[s].ord]
    <3>0. tx[s] \in Txn
      BY DEF IInv, TypeOK
    <3>1. req' = req /\ moves' = moves
      BY <2>6, RequestChange DEF WriteStock
    <3>2. /\ c \in Tracked /\ tx[s].todo[c] # 0 /\ tx[s].todo[c] \in Int
          /\ tx'[s].todo = [tx[s].todo EXCEPT ![c] = 0]
          /\ tx'[s].moved = tx[s].moved \cup {c}
          /\ tx'[s].claim = tx[s].claim
      BY <2>6, AppliedDelta
    <3>3. PICK d \in Int : /\ tx'[s].did = [tx[s].did EXCEPT ![c] = d]
                           /\ tx[s].todo[c] >= 0 => d = tx[s].todo[c]
      BY <2>6, AppliedDelta
    <3>4. GiveBack(tx[s], m)
      BY <1>2, <3>1, <3>2 DEF UndoInv, Open
    <3>5. req[s].ord \in Order
      BY <1>2, <3>1 DEF IInv, SessionInv, Open
    <3>6. tx[s].todo[c] = -m[c].out /\ m[c].out <= 0 /\ m[c].out \in Int
      BY <3>2, <3>4, <3>5 DEF GiveBack, TakeInv, IInv, TypeOK, Move
    <3>7. d = -m[c].out
      BY <3>2, <3>3, <3>6, SMTT(30)
    <3>8. ASSUME NEW i \in Tracked
          PROVE  IF i \in tx'[s].moved THEN tx'[s].todo[i] = 0 /\ tx'[s].did[i] = -m[i].out
                                       ELSE tx'[s].todo[i] = -m[i].out
      <4>1. CASE i = c
        BY <3>0, <3>2, <3>3, <3>7, <4>1, SMTT(30) DEF Txn
      <4>2. CASE i # c
        BY <3>0, <3>2, <3>3, <3>4, <4>2 DEF Txn, GiveBack
      <4> QED
        BY <4>1, <4>2
    <3> QED
      BY <1>2, <3>1, <3>8 DEF GiveBack
  <2> QED
    BY <2>1, <2>2, <2>3, <2>4, <2>5, <2>6 DEF Step
<1> QED
  BY <1>1, <1>2

LEMMA RestoreUndoesStep ==
  ASSUME NoEdits, UInv, NEW s \in Session, Step(s)
  PROVE  RestoreUndoesReservation'
<1> USE DEF UInv
<1> SUFFICES ASSUME NEW o \in Order, order'[o].restored, NEW i \in Tracked
             PROVE  moves'[o][i].out + moves'[o][i].back = 0
  BY DEF RestoreUndoesReservation, Net
<1>0. order[o] \in OrderRow
  BY DEF IInv, TypeOK
<1>1. CASE ~(Commit(s) /\ o = req[s].ord)
  <2>1. moves'[o] = moves[o] /\ order'[o].restored = order[o].restored
    BY <1>1, OrderChange
  <2> QED
    BY <2>1 DEF RestoreUndoesReservation, Net
<1>2. CASE Commit(s) /\ o = req[s].ord
  <2>0. order'[o] = OrderAfter(s) /\ Open(s) /\ (req[s].op = "create" \/ Restores(req[s].op))
    BY <1>2, OrderChange DEF Commit, OpInv
  <2>1. req[s].op # "create"
    BY <2>0 DEF OrderAfter, NoRow
  <2>2. CASE tx[s].claim
    BY <1>2, <2>0, <2>1, <2>2, CommitMoves
  <2>3. CASE ~tx[s].claim
    <3>1. moves'[o][i] = moves[o][i]
      BY <1>2, <2>0, <2>1, <2>3, CommitMoves
    <3>2. order[o].restored
      BY <1>0, <1>2, <2>0, <2>1, <2>3 DEF OrderAfter, Restores, OrderRow
    <3> QED
      BY <3>1, <3>2 DEF RestoreUndoesReservation, Net
  <2> QED
    BY <2>2, <2>3
<1> QED
  BY <1>1, <1>2

LEMMA UndoInit ==
  ASSUME Init PROVE UInv
<1>1. IInv
  BY InitInv
<1>2. OpInv /\ UndoInv
  BY DEF Init, OpInv, UndoInv, Idle, Open
<1>3. TakeInv /\ RestoreUndoesReservation
  BY DEF Init, TakeInv, RestoreUndoesReservation, Net, Idle, Open, NoRow
<1> QED
  BY <1>1, <1>2, <1>3 DEF UInv

LEMMA UndoNext ==
  ASSUME NoEdits, UInv, [Next]_vars
  PROVE  UInv'
<1>1. IInv'
  BY InvNext DEF UInv
<1>2. CASE UNCHANGED vars
  BY <1>1, <1>2 DEF vars, UInv, OpInv, TakeInv, UndoInv, GiveBack, Open,
                    RestoreUndoesReservation, Net
<1>3. CASE Next
  <2>1. PICK s \in Session : Step(s)
    BY <1>3 DEF Next, Step
  <2> QED
    BY <1>1, <2>1, OpStep, TakeStep, UndoStep, RestoreUndoesStep DEF UInv
<1> QED
  BY <1>2, <1>3

\* If no operation edits lines, a cancelled or deleted order whose stock was
\* restored holds none of it, however its deduction was clamped and whatever
\* raced with it (restoreStockForCancelledOrder reverses the movements).
THEOREM RestoreUndoesTheReservation ==
  ASSUME NoEdits
  PROVE  Spec => []RestoreUndoesReservation
<1>1. Init => UInv
  BY UndoInit
<1>2. UInv /\ [Next]_vars => UInv'
  BY UndoNext
<1>3. UInv => RestoreUndoesReservation
  BY DEF UInv
<1> QED
  BY <1>1, <1>2, <1>3, PTL DEF Spec

-----------------------------------------------------------------------------
(* Without edits, the handlers implement Reservation *)

ClaimOf(row) == IF row.restored THEN "released"
                ELSE IF row.deducted THEN "held" ELSE "none"

claimBar == [o \in Order |-> ClaimOf(order[o])]
netBar   == [o \in Order |-> [i \in Tracked |-> Net(o, i)]]

LEMMA InitImplements ==
  ASSUME Init PROVE Abstract!Init
BY DEF Init, Abstract!Init, NoRow, Net

\* A step that leaves the claims and the movements of every order alone maps to
\* a stutter.
LEMMA Stutters ==
  ASSUME TypeOK, moves' = moves,
         \A o \in Order : /\ order'[o].restored = order[o].restored
                          /\ order'[o].deducted = order[o].deducted
  PROVE  UNCHANGED Abstract!vars
BY DEF Abstract!vars, Net

\* A commit maps to a step of its order, or to a stutter.
LEMMA CommitImplements ==
  ASSUME UInv, NEW s \in Session, Commit(s)
  PROVE  Abstract!Next \/ UNCHANGED Abstract!vars
<1> USE DEF UInv, IInv
<1>a. req[s].ord \in Order
  BY OrderChange DEF Step
<1>b. PICK o \in Order : o = req[s].ord
  BY <1>a
<1>0. /\ Open(s) /\ (req[s].op = "create" \/ Restores(req[s].op))
      /\ order'[o] = OrderAfter(s)
      /\ \A p \in Order : p # o => order'[p] = order[p] /\ moves'[p] = moves[p]
  BY <1>b, OrderChange DEF Commit, Step, OpInv
<1>1. order[o] \in OrderRow
  BY <1>0 DEF TypeOK
<1>2. /\ claimBar' = [claimBar EXCEPT ![o] = ClaimOf(order'[o])]
      /\ netBar' = [netBar EXCEPT ![o] =
            [i \in Tracked |-> moves'[o][i].out + moves'[o][i].back]]
  BY <1>0 DEF claimBar, netBar, Net
<1>3. CASE req[s].op = "create"
  <2>1. claimBar[o] = "none"
    BY <1>b, <1>0, <1>3 DEF SessionInv, AbsentInv, Open, claimBar, ClaimOf
  <2>2. ClaimOf(order'[o]) = "held"
    BY <1>0, <1>3 DEF OrderAfter, NoRow, ClaimOf
  <2>3. ASSUME NEW i \in Tracked
        PROVE  moves'[o][i].out + moves'[o][i].back <= 0
    <3>1. /\ moves'[o][i].back = 0 /\ tx[s].did[i] \in Int
          /\ moves'[o][i].out = IF i \in tx[s].moved THEN tx[s].did[i] ELSE 0
      BY <1>b, <1>3, CommitMoves
    <3>2. tx[s].did[i] <= 0
      BY <1>0, <1>3 DEF TakeInv
    <3> QED
      BY <3>1, <3>2
  <2>4. netBar'[o] = [i \in Tracked |-> moves'[o][i].out + moves'[o][i].back]
    BY <1>0, <1>2 DEF netBar
  <2>5. /\ netBar' = [netBar EXCEPT ![o] = netBar'[o]]
        /\ \A i \in Tracked : netBar'[o][i] <= 0
    BY <1>2, <2>3, <2>4
  <2>6. claimBar' = [claimBar EXCEPT ![o] = "held"]
    BY <1>2, <2>2
  <2>7. Abstract!Reserve(o)
    BY <2>1, <2>5, <2>6 DEF Abstract!Reserve, claimBar, netBar, ClaimOf, Net
  <2> QED
    BY <2>7 DEF Abstract!Next
<1>4. CASE Restores(req[s].op) /\ tx[s].claim
  <2>1. claimBar[o] = "held"
    BY <1>b, <1>0, <1>4 DEF ClaimInv, claimBar, ClaimOf
  <2>2. ClaimOf(order'[o]) = "released"
    BY <1>b, <1>0, <1>1, <1>4 DEF OrderAfter, Restores, OrderRow, ClaimOf
  <2>3. \A i \in Tracked : moves'[o][i].out + moves'[o][i].back = 0
    BY <1>b, <1>4, CommitMoves
  <2>4. netBar' = [netBar EXCEPT ![o] = [i \in Tracked |-> 0]]
    BY <1>2, <2>3
  <2>5. claimBar' = [claimBar EXCEPT ![o] = "released"]
    BY <1>2, <2>2
  <2>6. Abstract!Release(o)
    BY <2>1, <2>4, <2>5 DEF Abstract!Release, claimBar, netBar, ClaimOf, Net
  <2> QED
    BY <2>6 DEF Abstract!Next
<1>5. CASE Restores(req[s].op) /\ ~tx[s].claim
  <2>1. /\ order'[o].deducted = order[o].deducted
        /\ order'[o].restored = order[o].restored
    BY <1>b, <1>0, <1>1, <1>5 DEF OrderAfter, Restores, OrderRow
  <2>2. \A i \in Tracked : moves'[o][i] = moves[o][i]
    BY <1>b, <1>5, CommitMoves
  <2>3. moves' = moves
    <3>1. moves' \in [Order -> [Tracked -> Move]] /\ moves \in [Order -> [Tracked -> Move]]
      BY NextType DEF Next, TypeOK
    <3>2. \A p \in Order : moves'[p] = moves[p]
      BY <1>0, <2>2, <3>1
    <3> QED
      BY <3>1, <3>2
  <2>4. \A p \in Order : /\ order'[p].restored = order[p].restored
                         /\ order'[p].deducted = order[p].deducted
    BY <1>0, <2>1
  <2> QED
    BY <2>3, <2>4, Stutters
<1> QED
  BY <1>0, <1>3, <1>4, <1>5

LEMMA NextImplements ==
  ASSUME UInv, [Next]_vars
  PROVE  [Abstract!Next]_(Abstract!vars)
<1>1. TypeOK
  BY DEF UInv, IInv
<1>2. CASE UNCHANGED vars
  BY <1>1, <1>2, Stutters DEF vars
<1>3. CASE Next
  <2>1. PICK s \in Session : Step(s)
    BY <1>3 DEF Next, Step
  <2>2. CASE Commit(s)
    BY <2>2, CommitImplements
  <2>3. CASE ~Commit(s)
    <3>1. /\ moves' = moves
          /\ \A o \in Order : /\ order'[o].restored = order[o].restored
                              /\ order'[o].deducted = order[o].deducted
      BY <2>1, <2>3, OrderChange DEF UInv
    <3> QED
      BY <1>1, <3>1, Stutters
  <2> QED
    BY <2>2, <2>3
<1> QED
  BY <1>2, <1>3

\* If no operation edits lines, whatever the handlers interleave looks, order by
\* order, like one reservation that is released at most once and completely:
\* the "order-level claims" of inventory.service.js.
THEOREM HandlersImplementReservation ==
  ASSUME NoEdits
  PROVE  Spec => ImplementsReservation
<1>1. Init => UInv /\ Abstract!Init
  BY UndoInit, InitImplements
<1>2. UInv /\ [Next]_vars => UInv'
  BY UndoNext
<1>3. UInv /\ [Next]_vars => [Abstract!Next]_(Abstract!vars)
  BY NextImplements
<1> QED
  BY <1>1, <1>2, <1>3, PTL DEF Spec, ImplementsReservation, Abstract!Spec

-----------------------------------------------------------------------------
(* The quantities of the rows *)

\* What the rows ls have of item i, row by row.
OfItem(ls, i) == [k \in 1..Len(ls) |-> IF ls[k].item = i THEN ls[k].qty ELSE 0]

LEMMA OfItemNat ==
  ASSUME NEW ls \in Seq(Line), NEW i
  PROVE  /\ IsFiniteSet(1..Len(ls)) /\ Len(ls) \in Nat
         /\ \A k \in 1..Len(ls) : OfItem(ls, i)[k] \in Nat
<1>1. Len(ls) \in Nat /\ IsFiniteSet(1..Len(ls))
  BY FS_Interval
<1>2. ASSUME NEW k \in 1..Len(ls) PROVE OfItem(ls, i)[k] \in Nat
  <2>1. ls[k] \in Line
    BY RowType
  <2>2. ls[k].qty \in Nat
    BY <2>1, BoundAssumption DEF Line
  <2> QED
    BY <2>2 DEF OfItem
<1> QED
  BY <1>1, <1>2

\* A quantity of rows is their sum.
LEMMA QtyIs ==
  ASSUME NEW ls \in Seq(Line), NEW i
  PROVE  QtyOf(ls, i) = Total(1..Len(ls), OfItem(ls, i)) /\ QtyOf(ls, i) \in Nat
<1> DEFINE D == DOMAIN ls
           w == OfItem(ls, i)
           c == [s \in SUBSET D |-> Max(s)]
           f == CHOOSE h : h = [s \in SUBSET D |->
                  IF s = {} THEN 0
                  ELSE h[s \ {Max(s)}]
                         + IF ls[Max(s)].item = i THEN ls[Max(s)].qty ELSE 0]
<1>1. QtyOf(ls, i) = f[D]
  BY DEF QtyOf, FoldLeft, MapThenFoldSet
<1>2. D = 1..Len(ls) /\ IsFiniteSet(D) /\ D \subseteq Nat /\ \A k \in D : w[k] \in Nat
  BY OfItemNat
<1>3. Picks(c, D)
  <2>1. ASSUME NEW s \in SUBSET D, s # {} PROVE Max(s) \in s
    <3>1. IsFiniteSet(s) /\ s \subseteq Nat
      BY <1>2, FS_Subset
    <3> QED
      BY <2>1, <3>1, LargestExists DEF Max
  <2> QED
    BY <2>1 DEF Picks
<1>4. \A k \in D : w[k] \in Int
  BY <1>2
<1>5. ASSUME NEW h
      PROVE  AddsTo(h, D, w, c) <=>
               h = [s \in SUBSET D |->
                  IF s = {} THEN 0
                  ELSE h[s \ {Max(s)}]
                         + IF ls[Max(s)].item = i THEN ls[Max(s)].qty ELSE 0]
  <2>1. ASSUME NEW s \in SUBSET D, s # {}
        PROVE  /\ c[s] = Max(s)
               /\ w[c[s]] = IF ls[Max(s)].item = i THEN ls[Max(s)].qty ELSE 0
    <3>1. c[s] = Max(s) /\ c[s] \in 1..Len(ls)
      BY <1>2, <1>3, <2>1 DEF Picks
    <3> QED
      BY <3>1 DEF OfItem
  <2> HIDE DEF D, w, c
  <2> QED
    BY <2>1 DEF AddsTo
<1>6. AddsTo(f, D, w, c)
  <2> HIDE DEF D, w, c
  <2>1. PICK g : AddsTo(g, D, w, c)
    BY <1>2, <1>3, <1>4, FoldExists
  <2> QED
    BY <1>5, <2>1
<1>7. f[D] = Total(D, w)
  <2> HIDE DEF D, w, c, f
  <2> QED
    BY <1>2, <1>3, <1>4, <1>6, FoldIs
<1>8. Total(D, w) \in Nat
  <2> HIDE DEF D, w
  <2> QED
    BY <1>2, TotalNat
<1> QED
  BY <1>1, <1>2, <1>7, <1>8

LEMMA CountIs ==
  ASSUME NEW n \in Nat
  PROVE  Cardinality(1..n) = n
<1>1. n \in Int /\ 1 \in Int
  OBVIOUS
<1>2. Cardinality(1..n) = IF 1 > n THEN 0 ELSE n - 1 + 1
  BY <1>1, FS_Interval, Zenon
<1>3. PICK c : c = Cardinality(1..n)
  OBVIOUS
<1>4. c = n
  BY <1>2, <1>3
<1> QED
  BY <1>3, <1>4

\* The rows of wanted quantities: one per wanted item.
LEMMA NewRowsAre ==
  ASSUME NEW want \in [Item -> 0..MaxQty]
  PROVE  LET ns == NewRows(want) IN
         /\ ns \in Seq(Line)
         /\ \A k \in 1..Len(ns) : ns[k].qty = want[ns[k].item] /\ ns[k].qty > 0
         /\ \A j, k \in 1..Len(ns) : ns[j].item = ns[k].item => j = k
         /\ \A i \in Item : want[i] > 0 => \E k \in 1..Len(ns) : ns[k].item = i
<1> DEFINE D == {j \in Item : want[j] > 0}
           S == {[item |-> i, qty |-> want[i]] : i \in D}
           n == Cardinality(S)
           ns == NewRows(want)
<1>0. ns \in Seq(Line)
  BY NewRowsType
<1>1. IsFiniteSet(S)
  <2>1. IsFiniteSet(D)
    BY FS_Subset, TrackedAssumption
  <2> DEFINE f == [i \in D |-> [item |-> i, qty |-> want[i]]]
  <2>2. f \in Surjection(D, S)
    BY DEF Surjection
  <2> QED
    BY <2>1, <2>2, FS_Surjection
<1>2. PICK T : T = S
  OBVIOUS
<1>3. ns = SetToSeq(T)
  BY <1>2 DEF NewRows
<1>4. PICK m : m = Cardinality(T) /\ m \in Nat /\ IsFiniteSet(T)
  BY <1>1, <1>2, FS_CardinalityType
<1>5. ns \in [1..m -> T] /\ IsInjective(ns)
  <2>1. PICK f \in Bijection(1..m, T) : TRUE
    BY <1>4, FS_CardinalityType DEF ExistsBijection
  <2>2. f \in [1..m -> T] /\ IsInjective(f)
    BY <2>1 DEF Bijection, Injection, Surjection, IsInjective
  <2> QED
    BY <1>3, <1>4, <2>2 DEF SetToSeq
<1>6. Len(ns) = m
  BY <1>0, <1>4, <1>5
<1>7. \A x \in T : x.item \in Item /\ x.qty = want[x.item] /\ want[x.item] > 0
  BY <1>2
<1>8. \A x, y \in T : x.item = y.item => x = y
  BY <1>2
<1>9. \A x \in T : \E k \in 1..m : ns[k] = x
  <2>1. ns \in Injection(1..m, T)
    BY <1>5 DEF Injection, IsInjective
  <2>2. Cardinality(1..m) = m
    BY <1>4, CountIs
  <2> HIDE DEF ns
  <2>3. ns \in Surjection(1..m, T)
    <3>1. Cardinality(1..m) = Cardinality(T)
      BY <1>4, <2>2
    <3> QED
      BY <1>4, <2>1, <3>1, FS_Injection, Zenon
  <2> QED
    BY <2>3 DEF Surjection
<1>10. ASSUME NEW i \in Item, want[i] > 0 PROVE \E k \in 1..m : ns[k].item = i
  <2>0. [item |-> i, qty |-> want[i]] \in S
    BY <1>10
  <2>1. PICK x \in T : x.item = i
    BY <1>2, <2>0
  <2> QED
    BY <1>9, <2>1
<1> HIDE DEF ns
<1>11. \A k \in 1..m : ns[k] \in T
  BY <1>5
<1>12. \A j, k \in 1..m : ns[j] = ns[k] => j = k
  BY <1>5 DEF IsInjective
<1>13. \A j, k \in 1..m : ns[j].item = ns[k].item => j = k
  BY <1>8, <1>11, <1>12
<1>14. \A k \in 1..m : ns[k].qty = want[ns[k].item] /\ ns[k].qty > 0
  BY <1>7, <1>11
<1> QED
  BY <1>0, <1>6, <1>10, <1>13, <1>14 DEF ns

\* No rows, no quantity.
LEMMA QtyNone ==
  ASSUME NEW i
  PROVE  QtyOf(<<>>, i) = 0
<1>1. <<>> \in Seq(Line) /\ 1..Len(<<>>) = {}
  OBVIOUS
<1> QED
  BY <1>1, QtyIs, TotalEmpty

\* Rows created for wanted quantities add them.
LEMMA QtyAdded ==
  ASSUME NEW ls \in Seq(Line), NEW want \in [Item -> 0..MaxQty], NEW i \in Item
  PROVE  QtyOf(ls \o NewRows(want), i) = QtyOf(ls, i) + want[i]
<1> DEFINE ns == NewRows(want)
           all == ls \o ns
           v == OfItem(ls, i)
           w == OfItem(all, i)
           n == Len(ls)
           m == Len(ns)
<1>1. /\ ns \in Seq(Line)
      /\ \A k \in 1..m : ns[k].qty = want[ns[k].item] /\ ns[k].qty > 0
      /\ \A j, k \in 1..m : ns[j].item = ns[k].item => j = k
      /\ want[i] > 0 => \E k \in 1..m : ns[k].item = i
  BY NewRowsAre
<1>2. want[i] \in Nat
  BY BoundAssumption
<1> HIDE DEF ns
<1>3. /\ all \in Seq(Line) /\ Len(all) = n + m /\ n \in Nat /\ m \in Nat
      /\ \A k \in 1..n : all[k] = ls[k]
      /\ \A k \in (n + 1)..(n + m) : k - n \in 1..m /\ all[k] = ns[k - n]
  BY <1>1
<1>4. IsFiniteSet(1..Len(all)) /\ \A k \in 1..Len(all) : w[k] \in Nat
  BY <1>3, OfItemNat
<1>5. IsFiniteSet(1..n) /\ \A k \in 1..n : v[k] \in Nat
  BY OfItemNat
<1>6. QtyOf(ls, i) = Total(1..n, v) /\ QtyOf(ls, i) \in Nat
  BY QtyIs
<1>7. QtyOf(all, i) = Total(1..Len(all), w)
  BY <1>3, QtyIs
<1>8. \A k \in 1..n : w[k] = v[k] /\ k \in 1..Len(all)
  BY <1>3 DEF OfItem
<1>9. ASSUME NEW k \in 1..Len(all), k \notin 1..n
      PROVE  k - n \in 1..m /\ w[k] = IF ns[k - n].item = i THEN ns[k - n].qty ELSE 0
  <2>1. k \in (n + 1)..(n + m)
    BY <1>3, <1>9
  <2> QED
    BY <1>3, <2>1 DEF OfItem
<1> HIDE DEF all, v, w, n, m
<1>10. Total(1..n, w) = Total(1..n, v)
  <2>1. IsFiniteSet(1..n) /\ \A k \in 1..n : v[k] \in Int /\ w[k] = v[k]
    BY <1>5, <1>8
  <2> QED
    BY <2>1, TotalSame
<1>11. \A k \in 1..Len(all) : w[k] \in Int
  BY <1>4
<1>12. CASE want[i] = 0
  <2>1. ASSUME NEW k \in (1..Len(all)) \ (1..n) PROVE w[k] = 0
    <3>1. k - n \in 1..m /\ (ns[k - n].item = i => ns[k - n].qty = 0 /\ ns[k - n].qty > 0)
      BY <1>1, <1>9, <1>12, <2>1
    <3> QED
      BY <1>9, <2>1, <3>1
  <2>2. 1..n \in SUBSET (1..Len(all))
    BY <1>8
  <2>3. Total(1..Len(all), w) = Total(1..n, w)
    BY <1>4, <1>11, <2>1, <2>2, TotalSparse
  <2> QED
    BY <1>6, <1>7, <1>10, <1>12, <2>3 DEF all, ns
<1>13. CASE want[i] > 0
  <2>1. PICK j \in 1..m : ns[j].item = i
    BY <1>1, <1>13
  <2>2. PICK x : x = n + j
    OBVIOUS
  <2>3. x \in 1..Len(all) /\ x \notin 1..n /\ x - n = j
    BY <1>3, <2>1, <2>2
  <2>4. w[x] = want[i]
    BY <1>1, <1>9, <2>1, <2>3
  <2> DEFINE T == (1..n) \cup {x}
  <2>5. ASSUME NEW k \in (1..Len(all)) \ T PROVE w[k] = 0
    <3>1. k - n \in 1..m /\ k - n # j
      <4>1. k \in 1..Len(all) /\ k \notin 1..n /\ k # x
        BY <2>5
      <4> QED
        BY <1>3, <1>9, <2>1, <2>2, <4>1
    <3>2. ns[k - n].item # i
      BY <1>1, <2>1, <3>1
    <3> QED
      BY <1>9, <2>5, <3>2
  <2>6. T \in SUBSET (1..Len(all)) /\ T \ {x} = 1..n /\ x \in T
    BY <1>8, <2>3
  <2> HIDE DEF T
  <2>7. Total(1..Len(all), w) = Total(T, w)
    BY <1>4, <1>11, <2>5, <2>6, TotalSparse
  <2>8. IsFiniteSet(T) /\ \A k \in T : w[k] \in Int
    BY <1>4, <1>11, <2>6, FS_Subset
  <2>a. Total(T, w) = w[x] + Total(T \ {x}, w)
    BY <2>6, <2>8, TotalStep
  <2>9. Total(T, w) = w[x] + Total(1..n, w)
    BY <2>6, <2>a
  <2> QED
    BY <1>2, <1>6, <1>7, <1>10, <2>4, <2>7, <2>9 DEF all, ns
<1> QED
  BY <1>2, <1>12, <1>13

\* A row that gets a quantity gives up the one it had.
LEMMA QtySet ==
  ASSUME NEW ls \in Seq(Line), NEW row \in 1..Len(ls), NEW q \in 0..MaxQty, NEW i \in Item
  PROVE  QtyOf(SetQty(ls, row, q), i) =
           IF ls[row].item = i THEN QtyOf(ls, i) - ls[row].qty + q ELSE QtyOf(ls, i)
<1> DEFINE new == SetQty(ls, row, q)
           v == OfItem(ls, i)
           w == OfItem(new, i)
<1>1. new \in Seq(Line)
  BY SetQtyType DEF SetQty
<1>2. ls[row] \in Line /\ ls[row].qty \in Nat /\ q \in Nat
  <2>1. ls[row] \in Line
    BY RowType
  <2> QED
    BY <2>1, BoundAssumption DEF Line
<1>3. /\ Len(new) = Len(ls)
      /\ \A k \in 1..Len(ls) : k # row => new[k] = ls[k]
      /\ new[row] = [ls[row] EXCEPT !.qty = q]
  BY DEF SetQty
<1>4. new[row].qty = q /\ new[row].item = ls[row].item
  BY <1>2, <1>3 DEF Line
<1>5. /\ QtyOf(ls, i) = Total(1..Len(ls), v) /\ QtyOf(ls, i) \in Nat
      /\ QtyOf(new, i) = Total(1..Len(ls), w)
  <2> HIDE DEF new
  <2> QED
    BY <1>1, <1>3, QtyIs
<1>6. IsFiniteSet(1..Len(ls)) /\ \A k \in 1..Len(ls) : v[k] \in Nat /\ w[k] \in Nat
  <2> HIDE DEF new
  <2> QED
    BY <1>1, <1>3, OfItemNat
<1>7. \A k \in 1..Len(ls) : k # row => w[k] = v[k]
  <2> HIDE DEF new
  <2> QED
    BY <1>3 DEF OfItem
<1>8. /\ v[row] = IF ls[row].item = i THEN ls[row].qty ELSE 0
      /\ w[row] = IF ls[row].item = i THEN q ELSE 0
  <2> HIDE DEF new
  <2> QED
    BY <1>3, <1>4 DEF OfItem
<1> HIDE DEF new, v, w
<1>9. Total(1..Len(ls), w) = w[row] + Total(1..Len(ls), v) - v[row]
  <2>1. PICK D : D = 1..Len(ls)
    OBVIOUS
  <2>2. /\ IsFiniteSet(D) /\ row \in D
        /\ \A k \in D : v[k] \in Int /\ w[k] \in Int
        /\ \A k \in D : k # row => w[k] = v[k]
    BY <1>6, <1>7, <2>1
  <2>3. Total(D, w) = w[row] + Total(D, v) - v[row]
    <3>1. IsFiniteSet(D)
      BY <2>2
    <3>2. row \in D
      BY <2>2
    <3>3. \A k \in D : v[k] \in Int
      BY <2>2
    <3>4. \A k \in D : w[k] \in Int
      BY <2>2
    <3>5. \A k \in D \ {row} : w[k] = v[k]
      BY <2>2
    <3> QED
      BY <3>1, <3>2, <3>3, <3>4, <3>5, TotalChanged
  <2> QED
    BY <2>1, <2>3
<1>10. QtyOf(new, i) = w[row] + QtyOf(ls, i) - v[row]
  BY <1>5, <1>9
<1>11. QtyOf(new, i) = IF ls[row].item = i THEN QtyOf(ls, i) - ls[row].qty + q ELSE QtyOf(ls, i)
  BY <1>2, <1>5, <1>8, <1>10
<1> QED
  BY <1>11 DEF new

\* When updateOrder finds every row, the order has what was wanted.
LEMMA QtyReplaced ==
  ASSUME NEW ls \in Seq(Line), NEW want \in [Item -> 0..MaxQty], NEW i \in Item
  PROVE  QtyOf(Replaced(ls, want, Len(ls)), i) = want[i]
<1> DEFINE n == Len(ls)
           found == {k \in LiveRows(ls) : k <= n}
           missing == [x \in Item |-> IF \E k \in found : ls[k].item = x
                                      THEN 0 ELSE want[x]]
           first(k) == /\ k \in found
                       /\ \A j \in found : ls[j].item = ls[k].item => k <= j
           kept == [k \in 1..Len(ls) |->
                      [ls[k] EXCEPT !.qty = IF k > n THEN @
                         ELSE IF first(k) THEN want[ls[k].item] ELSE 0]]
           w == OfItem(kept, i)
<1>0. n \in Nat /\ \A k \in 1..n : ~(k > n) /\ k \in Nat
  OBVIOUS
<1>1. missing \in [Item -> 0..MaxQty]
  BY BoundAssumption
<1>2. Replaced(ls, want, n) = kept \o NewRows(missing)
  BY DEF Replaced
<1>3. ASSUME NEW k \in 1..n
      PROVE  /\ kept[k] \in Line /\ kept[k].item = ls[k].item
             /\ kept[k].qty = IF first(k) THEN want[ls[k].item] ELSE 0
  <2>1. ls[k] \in Line /\ ls[k].item \in Item
    BY RowType
  <2> DEFINE q == IF first(k) THEN want[ls[k].item] ELSE 0
  <2>2. q \in 0..MaxQty
    <3> HIDE DEF first
    <3> QED BY <2>1, BoundAssumption
  <2>3. kept[k] = [ls[k] EXCEPT !.qty = q]
    <3> HIDE DEF first
    <3> QED BY <1>0
  <2> HIDE DEF kept, q
  <2>4. kept[k] \in Line /\ kept[k].item = ls[k].item /\ kept[k].qty = q
    BY <2>1, <2>2, <2>3 DEF Line
  <2> QED
    BY <2>4 DEF q
<1>4. kept = [k \in 1..Len(ls) |-> kept[k]] /\ Len(kept) = n
  OBVIOUS
<1>5. kept \in Seq(Line)
  <2> HIDE DEF kept
  <2> QED
    BY <1>3, <1>4, RewriteType
<1>6. QtyOf(kept \o NewRows(missing), i) = QtyOf(kept, i) + missing[i]
  <2> HIDE DEF kept, missing
  <2> QED
    BY <1>1, <1>5, QtyAdded
<1>7. QtyOf(kept, i) = Total(1..n, w) /\ QtyOf(kept, i) \in Nat
  <2> HIDE DEF kept
  <2> QED
    BY <1>4, <1>5, QtyIs
<1>8. IsFiniteSet(1..n) /\ \A k \in 1..n : w[k] \in Nat
  <2> HIDE DEF kept
  <2> QED
    BY <1>4, <1>5, OfItemNat
<1>9. \A k \in 1..n : w[k] = IF ls[k].item = i /\ first(k) THEN want[i] ELSE 0
  <2> SUFFICES ASSUME NEW k \in 1..n
               PROVE  w[k] = IF ls[k].item = i /\ first(k) THEN want[i] ELSE 0
    OBVIOUS
  <2>1. w[k] = IF kept[k].item = i THEN kept[k].qty ELSE 0
    <3> HIDE DEF kept
    <3> QED
      BY <1>4 DEF OfItem
  <2> HIDE DEF kept, w, first
  <2> QED
    BY <1>3, <2>1
<1>10. want[i] \in Nat
  BY BoundAssumption
<1> HIDE DEF kept, w
<1>11. CASE \E k \in found : ls[k].item = i
  <2>1. missing[i] = 0
    BY <1>11
  <2> DEFINE Mine == {k \in found : ls[k].item = i}
  <2>2. PICK x \in Mine : \A k \in Mine : x <= k
    <3>1. Mine \subseteq Nat /\ Mine # {}
      BY <1>0, <1>11 DEF LiveRows
    <3> HIDE DEF Mine
    <3> QED
      BY <3>1, LeastExists
  <2>3. x \in 1..n /\ ls[x].item = i /\ first(x)
    BY <2>2 DEF LiveRows
  <2>4. \A k \in 1..n : ls[k].item = i /\ first(k) => k = x
    <3> SUFFICES ASSUME NEW k \in 1..n, ls[k].item = i, first(k) PROVE k = x
      OBVIOUS
    <3>1. k \in Mine /\ k <= x
      BY <2>2, <2>3
    <3>2. x <= k
      BY <2>2, <3>1
    <3> QED
      BY <1>0, <2>3, <3>1, <3>2
  <2> HIDE DEF first, Mine, found
  <2>5. w[x] = want[i]
    BY <1>9, <2>3
  <2>6. \A k \in (1..n) \ {x} : w[k] = 0
    BY <1>9, <2>4
  <2>7. Total(1..n, w) = Total({x}, w)
    <3>1. {x} \in SUBSET (1..n) /\ \A k \in 1..n : w[k] \in Int
      BY <1>8, <2>3
    <3> QED
      BY <1>8, <2>6, <3>1, TotalSparse
  <2>8. Total({x}, w) = w[x]
    <3>1. w[x] \in Int
      BY <1>8, <2>3
    <3> QED
      BY <3>1, TotalOne
  <2>9. QtyOf(kept, i) = want[i]
    BY <1>7, <2>5, <2>7, <2>8
  <2> HIDE DEF missing
  <2> QED
    BY <1>2, <1>6, <1>10, <2>1, <2>9
<1>12. CASE ~ \E k \in found : ls[k].item = i
  <2>1. missing[i] = want[i]
    BY <1>12
  <2>2. \A k \in 1..n : w[k] = 0
    <3>1. \A k \in 1..n : ~(ls[k].item = i /\ first(k))
      BY <1>12
    <3> HIDE DEF first
    <3> QED
      BY <1>9, <3>1
  <2>3. Total(1..n, w) = 0
    BY <1>8, <2>2, TotalZero
  <2>4. QtyOf(kept, i) = 0
    BY <1>7, <2>3
  <2> HIDE DEF missing
  <2> QED
    BY <1>2, <1>6, <1>10, <2>1, <2>4
<1> QED
  BY <1>11, <1>12

-----------------------------------------------------------------------------
(* Requests served one after the other *)

\* What a transaction asks of the stock of an item.
Asked(r, t, m, i) ==
  IF Restores(r.op) THEN IF t.claim THEN -m[i].out ELSE 0 ELSE r.seen[i] - r.want[i]

\* At most one request is at work, and a session without one has read nothing.
AloneInv ==
  /\ \A s, t \in Session : s # t => Idle \in {req[s], req[t]}
  /\ \A s \in Session : req[s].phase = "idle" => req[s] = Idle

\* A transaction writes what it found, and of a plentiful item all it asks for.
WorkOK(r, t, m, st) ==
  /\ \A i \in t.moved : /\ t.todo[i] = 0
                        /\ t.after[i] = st[i] + t.did[i]
                        /\ i \notin t.wrote => t.did[i] = 0
                        /\ i \in Plenty => t.did[i] = Asked(r, t, m, i)
  /\ \A i \in Tracked \ t.moved : t.todo[i] = Asked(r, t, m, i) /\ i \notin t.wrote
  /\ t.cur # NoItem => t.before = st[t.cur]

WorkInv == \A s \in Session : Open(s) => WorkOK(req[s], tx[s], moves[req[s].ord], stock)

\* What a request has read of its order is still so.
FoundOK(r, claim, row, ls) ==
  /\ r.op \notin {"create", "cancel", "delete"} => row.status # "CANCELLED"
  /\ r.op \in {"hold", "resume", "pay"} => r.to # "CANCELLED" /\ r.phase # "open"
  /\ r.op \in {"create", "add"} => r.seen = Nothing
  /\ r.op \in {"setQty", "remove"} =>
       /\ r.row \in 1..Len(ls)
       /\ \A i \in Item : IF ls[r.row].item = i THEN r.seen[i] = ls[r.row].qty
                                               ELSE r.seen[i] = 0 /\ r.want[i] = 0
  /\ r.op = "remove" => r.want = Nothing
  /\ r.op = "replace" => \A i \in Item : r.seen[i] = QtyOf(ls, i)
  /\ r.op = "replace" /\ r.phase = "open" => r.row = Len(ls)
  /\ Restores(r.op) /\ r.phase = "open" => claim = (row.deducted /\ ~row.restored)

FoundInv ==
  \A s \in Session : req[s].phase # "idle" =>
    FoundOK(req[s], tx[s].claim, order[req[s].ord], lines[req[s].ord])

\* An order's stock is restored when it is cancelled or deleted.
RowInv ==
  \A o \in Order :
    /\ Exists(o) => order[o].deducted
    /\ ~Exists(o) => lines[o] = <<>> /\ \A i \in Tracked : Net(o, i) = 0
    /\ order[o].status = "CANCELLED" => order[o].restored
    /\ order[o].restored /\ ~order[o].deleted => order[o].status = "CANCELLED"

\* The quantity that n requests can ask for.
Room(n) == n * MaxQty

\* Every edit of its lines lets an order grow by what one request can ask for.
Editing(o) == \E s \in Session : req[s].ord = o /\ req[s].op \in EditOps

RoomInv ==
  \A o \in Order, i \in Item :
    IF Editing(o) THEN edits > 0 /\ QtyOf(lines[o], i) <= Room(edits)
    ELSE QtyOf(lines[o], i) <= Room(edits + 1)

\* Of a plentiful item an order never took more than its lines ask for.
HeldInv == \A o \in Order, i \in Plenty : -Net(o, i) <= QtyOf(lines[o], i)

Books == /\ RowInv /\ HeldInv
         /\ LedgerBalances /\ ReservedMatchesLines /\ CancelledReturnsStock

SerialInv == IInv /\ AloneInv /\ WorkInv /\ FoundInv /\ RoomInv /\ Books

\* No step puts a second request to work.
Alone == \A s, t \in Session : s # t => Idle \in {req'[s], req'[t]}

-----------------------------------------------------------------------------
(* What the ledger comes to *)

LEMMA SumOverIs ==
  ASSUME NEW f \in [Order -> Int]
  PROVE  SumOver(f) = Total(Order, f)
<1> DEFINE c == [u \in SUBSET Order |-> CHOOSE x \in u : TRUE]
           E(h) == [u \in SUBSET Order |->
                      IF u = {} THEN 0
                      ELSE f[CHOOSE x \in u : TRUE] + h[u \ {CHOOSE x \in u : TRUE}]]
           g == CHOOSE h : h = E(h)
<1>0. DOMAIN f = Order
  OBVIOUS
<1>1. SumOver(f) = g[Order]
  BY <1>0 DEF SumOver, FoldFunction, FoldFunctionOnSet, MapThenFoldSet
<1>2. Picks(c, Order)
  BY DEF Picks
<1>3. \A x \in Order : f[x] \in Int
  OBVIOUS
<1>4. ASSUME NEW h PROVE Adds(h, Order, f, c) <=> h = E(h)
  <2> DEFINE A == [u \in SUBSET Order |->
                    IF u = {} THEN 0 ELSE f[c[u]] + h[u \ {c[u]}]]
  <2>1. ASSUME NEW u \in SUBSET Order PROVE A[u] = E(h)[u]
    <3>1. c[u] = CHOOSE x \in u : TRUE
      OBVIOUS
    <3> HIDE DEF c
    <3> QED
      BY <3>1
  <2>2. A = E(h)
    <3> HIDE DEF c
    <3> QED
      BY <2>1
  <2>3. Adds(h, Order, f, c) <=> h = A
    <3> HIDE DEF c
    <3> QED
      BY Zenon DEF Adds
  <2> HIDE DEF A, c, E
  <2> QED
    BY <2>2, <2>3
<1>5. Adds(g, Order, f, c)
  <2> HIDE DEF c, E
  <2>1. PICK h : Adds(h, Order, f, c)
    BY <1>2, <1>3, OrderAssumption, AddsExists
  <2>2. h = E(h)
    BY <1>4, <2>1
  <2>3. g = E(g)
    BY <2>2, Zenon
  <2> HIDE DEF g
  <2> QED
    BY <1>4, <2>3
<1>6. g[Order] = Total(Order, f)
  <2> HIDE DEF c, g
  <2> QED
    BY <1>2, <1>3, <1>5, OrderAssumption, TotalIs
<1> QED
  BY <1>1, <1>6

\* The net movements of an item, order by order.
NetOf(m, i) == [o \in Order |-> m[o][i].out + m[o][i].back]

Balanced(st, m) == \A i \in Tracked : st[i] = InitStock[i] + Total(Order, NetOf(m, i))

LEMMA NetOfType ==
  ASSUME NEW m \in [Order -> [Tracked -> Move]], NEW i \in Tracked
  PROVE  /\ NetOf(m, i) \in [Order -> Int]
         /\ SumOver(NetOf(m, i)) = Total(Order, NetOf(m, i))
<1>1. NetOf(m, i) \in [Order -> Int]
  BY DEF NetOf, Move
<1> QED
  BY <1>1, SumOverIs

LEMMA LedgerIs ==
  ASSUME TypeOK
  PROVE  LedgerBalances <=> Balanced(stock, moves)
<1>1. \A i \in Tracked : SumOver([o \in Order |-> Net(o, i)]) = Total(Order, NetOf(moves, i))
  BY NetOfType DEF TypeOK, NetOf, Net
<1> QED
  BY <1>1 DEF LedgerBalances, Balanced

LEMMA LedgerIsAfter ==
  ASSUME TypeOK'
  PROVE  LedgerBalances' <=> Balanced(stock', moves')
<1>1. PICK m : m = moves' /\ m \in [Order -> [Tracked -> Move]]
  BY DEF TypeOK
<1>2. ASSUME NEW i \in Tracked
      PROVE  SumOver([o \in Order |-> Net(o, i)])' = Total(Order, NetOf(m, i))
  <2>1. SumOver(NetOf(m, i)) = Total(Order, NetOf(m, i))
    BY <1>1, NetOfType
  <2> QED
    BY <1>1, <2>1 DEF NetOf, Net
<1> QED
  BY <1>1, <1>2 DEF LedgerBalances, Balanced

\* One request asks for no more than the room it adds.
LEMMA RoomIs ==
  /\ \A n \in Nat : Room(n) \in Nat /\ Room(n + 1) = Room(n) + MaxQty
  /\ \A n, m \in Nat : n <= m => Room(n) <= Room(m)
<1>1. MaxQty \in Nat
  BY BoundAssumption
<1>2. ASSUME NEW n \in Nat PROVE Room(n) \in Nat /\ Room(n + 1) = Room(n) + MaxQty
  BY <1>1 DEF Room
<1>3. ASSUME NEW n \in Nat, NEW m \in Nat, n <= m PROVE Room(n) <= Room(m)
  <2>1. PICK d \in Nat : m = n + d
    <3>1. m - n \in Nat /\ m = n + (m - n)
      BY <1>3
    <3> QED
      BY <3>1
  <2>2. d * MaxQty \in Nat /\ n * MaxQty \in Nat
    BY <1>1
  <2>3. m * MaxQty = n * MaxQty + d * MaxQty
    BY <1>1, <2>1
  <2> QED
    BY <2>2, <2>3 DEF Room
<1> QED
  BY <1>2, <1>3

\* The other sessions do nothing, before the step and after it.
LEMMA OthersIdle ==
  ASSUME SerialInv, NEW s \in Session, Step(s), Alone
  PROVE  \A t \in Session \ {s} : req[t] = Idle /\ req'[t] = Idle
<1> USE DEF SerialInv
<1>0. \A t \in Session \ {s} : req'[t] = req[t]
  BY RequestChange
<1>1. CASE req[s] # Idle
  BY <1>0, <1>1 DEF AloneInv
<1>2. CASE req[s] = Idle
  <2>1. req[s].phase = "idle"
    BY <1>2 DEF Idle
  <2>2. ~WriteStatus(s) /\ ~BeginTx(s) /\ ~ReadStock(s) /\ ~WriteStock(s)
        /\ ~Commit(s) /\ ~Abort(s)
    <3>1. ~BeginTx(s)
      BY <2>1, BeginEffect
    <3> QED
      BY <2>1, <3>1 DEF WriteStatus, ReadStock, WriteStock, Commit, Abort, Open
  <2>3. req'[s].phase # "idle"
    BY <2>2, CreateEffect, ReadEffect DEF Step
  <2>4. req'[s] # Idle
    BY <2>3 DEF Idle
  <2> QED
    BY <1>0, <2>4 DEF Alone
<1> QED
  BY <1>1, <1>2

LEMMA AloneStep ==
  ASSUME SerialInv, NEW s \in Session, Step(s), Alone
  PROVE  AloneInv'
<1> USE DEF SerialInv
<1>1. \A t \in Session \ {s} : req'[t] = Idle
  BY OthersIdle
<1>2. req'[s].phase = "idle" => req'[s] = Idle
  <2>1. CASE WriteStatus(s) \/ Commit(s) \/ Abort(s)
    BY <2>1, RequestChange
  <2>2. CASE CreateOrder(s) \/ Read(s) \/ BeginTx(s)
    BY <2>2, CreateEffect, ReadEffect, BeginEffect
  <2>3. CASE ReadStock(s) \/ WriteStock(s)
    <3>1. req' = req
      BY <2>3, RequestChange
    <3> QED
      BY <3>1 DEF AloneInv
  <2> QED
    BY <2>1, <2>2, <2>3 DEF Step
<1> QED
  BY <1>1, <1>2 DEF Alone, AloneInv

-----------------------------------------------------------------------------
(* What the transaction at work finds and writes *)

\* The request and the transaction of a create.
LEMMA CreateRequest ==
  ASSUME SerialInv, NEW s \in Session, CreateOrder(s)
  PROVE  LET r == req'[s] IN
         /\ r.phase = "open" /\ r.op = "create" /\ r.seen = Nothing
         /\ tx'[s].moved = {} /\ tx'[s].wrote = {} /\ tx'[s].cur = NoItem
         /\ \A i \in Tracked : tx'[s].todo[i] = -r.want[i] /\ r.want[i] \in Nat
<1>0. req \in [Session -> Request] /\ tx \in [Session -> Txn]
  BY DEF SerialInv, IInv, TypeOK
<1>1. PICK o \in Order, want \in [Item -> 0..MaxQty] :
        /\ req' = [req EXCEPT ![s] = [Idle EXCEPT !.phase = "open",
                     !.op = "create", !.ord = o, !.to = "PENDING", !.want = want]]
        /\ tx' = [tx EXCEPT ![s] =
                     [NoTxn EXCEPT !.todo = [i \in Tracked |-> -want[i]]]]
  BY DEF CreateOrder
<1>2. /\ req'[s] = [Idle EXCEPT !.phase = "open",
                     !.op = "create", !.ord = o, !.to = "PENDING", !.want = want]
      /\ tx'[s] = [NoTxn EXCEPT !.todo = [i \in Tracked |-> -want[i]]]
  BY <1>0, <1>1
<1>3. /\ req'[s].phase = "open" /\ req'[s].op = "create" /\ req'[s].seen = Nothing
      /\ req'[s].want = want
  BY <1>2 DEF Idle
<1>4. /\ tx'[s].moved = {} /\ tx'[s].wrote = {} /\ tx'[s].cur = NoItem
      /\ tx'[s].todo = [i \in Tracked |-> -want[i]]
  BY <1>2 DEF NoTxn
<1>5. \A i \in Tracked : want[i] \in Nat
  BY TrackedAssumption, BoundAssumption
<1> QED
  BY <1>3, <1>4, <1>5

\* A transaction that begins asks for what its request wants and has read.
LEMMA BeginWork ==
  ASSUME SerialInv, NEW s \in Session, BeginTx(s)
  PROVE  LET r == req[s]
             o == req[s].ord
             t == tx'[s]
         IN /\ r.phase = "checked" /\ r.op \notin {"create", "hold", "resume", "pay", "none"}
            /\ req'[s].phase = "open"
            /\ req'[s].op = r.op /\ req'[s].ord = o /\ req'[s].to = r.to
            /\ req'[s].want = r.want /\ req'[s].seen = r.seen
            /\ req'[s].row = IF r.op = "replace" THEN Len(lines[o]) ELSE r.row
            /\ t.moved = {} /\ t.wrote = {} /\ t.cur = NoItem
            /\ \A i \in Tracked : t.todo[i] = Asked(r, t, moves[o], i)
            /\ Restores(r.op) => t.claim = (order[o].deducted /\ ~order[o].restored)
            /\ UNCHANGED <<stock, order, lines, moves, edits>>
<1> DEFINE r == req[s]
           o == req[s].ord
           t == tx'[s]
           Kept(row) ==
             /\ req'[s].phase = "open"
             /\ req'[s].op = r.op /\ req'[s].ord = o /\ req'[s].to = r.to
             /\ req'[s].want = r.want /\ req'[s].seen = r.seen /\ req'[s].row = row
             /\ UNCHANGED <<stock, order, lines, moves, edits>>
<1>0. /\ req \in [Session -> Request] /\ tx \in [Session -> Txn] /\ r \in Request
      /\ \A i \in Tracked : r.want[i] \in Int /\ r.seen[i] \in Int
  BY TrackedAssumption DEF SerialInv, IInv, TypeOK, Request
<1>1. ASSUME NEW todo, NEW claim, NEW row,
             req' = [req EXCEPT ![s].phase = "open", ![s].row = row],
             tx' = [tx EXCEPT ![s] = [NoTxn EXCEPT !.todo = todo, !.claim = claim]],
             UNCHANGED <<stock, order, lines, moves, edits>>
      PROVE  /\ Kept(row)
             /\ t.moved = {} /\ t.wrote = {} /\ t.cur = NoItem
             /\ t.todo = todo /\ t.claim = claim
  <2>1. req'[s] = [r EXCEPT !.phase = "open", !.row = row]
    BY <1>0, <1>1
  <2>2. tx'[s] = [NoTxn EXCEPT !.todo = todo, !.claim = claim]
    BY <1>0, <1>1
  <2>3. /\ req'[s].phase = "open"
        /\ req'[s].op = r.op /\ req'[s].ord = o /\ req'[s].to = r.to
        /\ req'[s].want = r.want /\ req'[s].seen = r.seen /\ req'[s].row = row
    BY <1>0, <2>1 DEF Request
  <2>4. /\ t.moved = {} /\ t.wrote = {} /\ t.cur = NoItem
        /\ t.todo = todo /\ t.claim = claim
    BY <2>2 DEF NoTxn
  <2> QED
    BY <1>1, <2>3, <2>4
<1>2. ASSUME NEW todo, NEW claim, Begin(s, todo, claim)
      PROVE  /\ Kept(r.row)
             /\ t.moved = {} /\ t.wrote = {} /\ t.cur = NoItem
             /\ t.todo = todo /\ t.claim = claim
  <2>1. req' = [req EXCEPT ![s].phase = "open", ![s].row = r.row]
    BY <1>0, <1>2 DEF Begin, Request
  <2>2. tx' = [tx EXCEPT ![s] = [NoTxn EXCEPT !.todo = todo, !.claim = claim]]
    BY <1>2 DEF Begin
  <2>3. UNCHANGED <<stock, order, lines, moves, edits>>
    BY <1>2 DEF Begin
  <2> HIDE DEF r, o, t
  <2> QED
    BY <1>1, <2>1, <2>2, <2>3 DEF r, t
<1>f. r.phase = "checked" =>
        FoundOK(r, tx[s].claim, order[o], lines[o])
  BY DEF SerialInv, FoundInv
<1>3. CASE BeginAdd(s)
  <2>1. r.phase = "checked" /\ r.op = "add" /\ Begin(s, [i \in Tracked |-> -r.want[i]], FALSE)
    BY <1>3 DEF BeginAdd, Checking
  <2>2. \A i \in Tracked : Asked(r, t, moves[o], i) = -r.want[i]
    <3>1. r.seen = Nothing
      BY <1>f, <2>1 DEF FoundOK
    <3> QED
      BY <1>0, <2>1, <3>1, TrackedAssumption DEF Asked, Restores, Nothing
  <2>3. /\ r.op \notin {"create", "hold", "resume", "pay", "none", "replace"}
        /\ ~Restores(r.op)
    BY <2>1 DEF Restores
  <2> HIDE DEF r, o, t
  <2>4. Kept(r.row)
    BY <1>2, <2>1
  <2>5. t.moved = {} /\ t.wrote = {} /\ t.cur = NoItem /\ t.todo = [i \in Tracked |-> -r.want[i]]
    BY <1>2, <2>1
  <2>6. \A i \in Tracked : t.todo[i] = Asked(r, t, moves[o], i)
    BY <2>2, <2>5
  <2> QED
    BY <2>1, <2>3, <2>4, <2>5, <2>6 DEF r, o, t
<1>4. CASE BeginSetQty(s)
  <2>1. /\ r.phase = "checked" /\ r.op = "setQty"
        /\ Begin(s, [i \in Tracked |-> r.seen[i] - r.want[i]], FALSE)
    BY <1>4 DEF BeginSetQty, Checking
  <2>2. \A i \in Tracked : Asked(r, t, moves[o], i) = r.seen[i] - r.want[i]
    BY <2>1 DEF Asked, Restores
  <2>3. /\ r.op \notin {"create", "hold", "resume", "pay", "none", "replace"}
        /\ ~Restores(r.op)
    BY <2>1 DEF Restores
  <2> HIDE DEF r, o, t
  <2>4. Kept(r.row)
    BY <1>2, <2>1
  <2>5. t.moved = {} /\ t.wrote = {} /\ t.cur = NoItem /\ t.todo = [i \in Tracked |-> r.seen[i] - r.want[i]]
    BY <1>2, <2>1
  <2>6. \A i \in Tracked : t.todo[i] = Asked(r, t, moves[o], i)
    BY <2>2, <2>5
  <2> QED
    BY <2>1, <2>3, <2>4, <2>5, <2>6 DEF r, o, t
<1>5. CASE BeginRemove(s)
  <2>1. /\ r.phase = "checked" /\ r.op = "remove"
        /\ Begin(s, [i \in Tracked |-> r.seen[i]], FALSE)
    BY <1>5 DEF BeginRemove, Checking
  <2>2. \A i \in Tracked : Asked(r, t, moves[o], i) = r.seen[i]
    <3>1. r.want = Nothing
      BY <1>f, <2>1 DEF FoundOK
    <3> QED
      BY <1>0, <2>1, <3>1, TrackedAssumption DEF Asked, Restores, Nothing
  <2>3. /\ r.op \notin {"create", "hold", "resume", "pay", "none", "replace"}
        /\ ~Restores(r.op)
    BY <2>1 DEF Restores
  <2> HIDE DEF r, o, t
  <2>4. Kept(r.row)
    BY <1>2, <2>1
  <2>5. t.moved = {} /\ t.wrote = {} /\ t.cur = NoItem /\ t.todo = [i \in Tracked |-> r.seen[i]]
    BY <1>2, <2>1
  <2>6. \A i \in Tracked : t.todo[i] = Asked(r, t, moves[o], i)
    BY <2>2, <2>5
  <2> QED
    BY <2>1, <2>3, <2>4, <2>5, <2>6 DEF r, o, t
<1>6. CASE BeginReplace(s)
  <2>1. /\ r.phase = "checked" /\ r.op = "replace"
        /\ req' = [req EXCEPT ![s].phase = "open", ![s].row = Len(lines[o])]
        /\ tx' = [tx EXCEPT ![s] = [NoTxn EXCEPT
                     !.todo = [i \in Tracked |-> r.seen[i] - r.want[i]], !.claim = FALSE]]
        /\ UNCHANGED <<stock, order, lines, moves, edits>>
    BY <1>6 DEF BeginReplace, Checking, NoTxn
  <2>2. \A i \in Tracked : Asked(r, t, moves[o], i) = r.seen[i] - r.want[i]
    BY <2>1 DEF Asked, Restores
  <2>3. r.op \notin {"create", "hold", "resume", "pay", "none"} /\ ~Restores(r.op)
    BY <2>1 DEF Restores
  <2>b. UNCHANGED <<stock, order, lines, moves, edits>>
    BY <2>1
  <2> HIDE DEF r, o, t
  <2>4. Kept(Len(lines[o]))
    BY <1>1, <2>1, <2>b
  <2>5. /\ t.moved = {} /\ t.wrote = {} /\ t.cur = NoItem
        /\ t.todo = [i \in Tracked |-> r.seen[i] - r.want[i]]
    BY <1>1, <2>1
  <2>6. \A i \in Tracked : t.todo[i] = Asked(r, t, moves[o], i)
    BY <2>2, <2>5
  <2> QED
    BY <2>1, <2>3, <2>4, <2>5, <2>6 DEF r, o, t
<1>7. CASE BeginCancel(s) \/ BeginCancelByStatus(s) \/ BeginDelete(s)
  <2> DEFINE claim == order[o].deducted /\ ~order[o].restored
             todo  == [i \in Tracked |-> IF claim THEN -moves[o][i].out ELSE 0]
  <2>1. Begin(s, todo, claim)
    BY <1>7 DEF BeginCancel, BeginCancelByStatus, BeginDelete, BeginRestore
  <2>2. r.phase = "checked" /\ r.op \in {"cancel", "status", "delete"}
    BY <1>7 DEF BeginCancel, BeginCancelByStatus, BeginDelete, Checking
  <2>3. t.claim = claim /\ t.todo = todo
    <3> HIDE DEF r, o, t, claim, todo
    <3> QED
      BY <1>2, <2>1
  <2>4. \A i \in Tracked : t.todo[i] = Asked(r, t, moves[o], i)
    BY <2>2, <2>3 DEF Asked, Restores
  <2> HIDE DEF r, o, t, todo, claim
  <2> QED
    BY <1>2, <2>1, <2>2, <2>3, <2>4 DEF r, o, t, claim
<1> QED
  BY <1>3, <1>4, <1>5, <1>6, <1>7 DEF BeginTx

\* The order, the request and the transaction of a session at work.
LEMMA AtWork ==
  ASSUME SerialInv, NEW s \in Session, Open(s)
  PROVE  LET r == req[s]
             o == req[s].ord
         IN /\ o \in Order /\ tx[s] \in Txn /\ lines[o] \in Seq(Line)
            /\ FoundOK(r, tx[s].claim, order[o], lines[o])
            /\ WorkOK(r, tx[s], moves[o], stock)
            /\ r.op \in EditOps \cup {"create", "cancel", "delete", "status"}
            /\ r.want \in [Item -> 0..MaxQty] /\ r.seen \in [Item -> Nat]
            /\ \A i \in Item : r.want[i] \in Nat /\ r.want[i] <= MaxQty /\ r.seen[i] \in Nat
            /\ \A i \in Tracked : moves[o][i] \in Move
<1> DEFINE r == req[s]
           o == req[s].ord
<1>1. /\ r.phase # "idle" /\ o \in Order /\ r.op # "none" /\ r.phase = "open"
  BY DEF SerialInv, IInv, SessionInv, Open
<1>2. r \in Request /\ tx[s] \in Txn /\ lines[o] \in Seq(Line)
      /\ \A i \in Tracked : moves[o][i] \in Move
  BY <1>1 DEF SerialInv, IInv, TypeOK
<1>3. FoundOK(r, tx[s].claim, order[o], lines[o]) /\ WorkOK(r, tx[s], moves[o], stock)
  BY <1>1 DEF SerialInv, FoundInv, WorkInv
<1>4. r.want \in [Item -> 0..MaxQty] /\ r.seen \in [Item -> Nat]
      /\ r.op \in AllOps \cup {"none"}
  BY <1>2 DEF Request
<1>5. r.op \in EditOps \cup {"create", "cancel", "delete", "status"}
  BY <1>1, <1>3, <1>4 DEF FoundOK, AllOps
<1>6. \A i \in Item : r.want[i] \in Nat /\ r.want[i] <= MaxQty /\ r.seen[i] \in Nat
  BY <1>4, BoundAssumption
<1> QED
  BY <1>1, <1>2, <1>3, <1>4, <1>5, <1>6

\* What a transaction asks for is a number.
LEMMA AskedInt ==
  ASSUME SerialInv, NEW s \in Session, Open(s), NEW i \in Tracked
  PROVE  Asked(req[s], tx[s], moves[req[s].ord], i) \in Int
<1>1. moves[req[s].ord][i] \in Move /\ i \in Item
  BY AtWork, TrackedAssumption
<1>2. moves[req[s].ord][i].out \in Int
  BY <1>1 DEF Move
<1>3. req[s].want[i] \in Nat /\ req[s].seen[i] \in Nat
  BY <1>1, AtWork
<1> QED
  BY <1>2, <1>3 DEF Asked

\* The shelf holds what a transaction asks of a plentiful item.
LEMMA Covered ==
  ASSUME SerialInv, NEW s \in Session, Open(s), NEW i \in Plenty
  PROVE  stock[i] + Asked(req[s], tx[s], moves[req[s].ord], i) >= 0
<1> DEFINE r == req[s]
           o == req[s].ord
           a == Asked(r, tx[s], moves[o], i)
           b == Room(MaxEdits + 1)
           w == NetOf(moves, i)
           v == [p \in Order |-> IF p = o THEN w[p] + a ELSE w[p]]
<1> USE DEF SerialInv, IInv
<1>0. i \in Tracked /\ i \in Item
  BY TrackedAssumption DEF Plenty
<1>1. a \in Int /\ o \in Order
  BY <1>0, AskedInt, AtWork
<1>2. w \in [Order -> Int]
  BY <1>0, NetOfType DEF TypeOK
<1>3. b \in Nat /\ MaxEdits \in Nat /\ edits \in Nat /\ edits <= MaxEdits
  BY RoomIs, BoundAssumption DEF TypeOK
<1>3a. /\ Room(edits + 1) <= b /\ Room(edits) + MaxQty <= b /\ MaxQty <= b
       /\ Room(edits) \in Nat /\ Room(edits + 1) \in Nat /\ MaxQty \in Nat
  <2>1. Room(edits + 1) <= b /\ Room(edits) <= Room(MaxEdits)
    <3>1. edits + 1 \in Nat /\ MaxEdits + 1 \in Nat /\ edits + 1 <= MaxEdits + 1
      BY <1>3
    <3> QED
      BY <1>3, <3>1, RoomIs
  <2>2. b = Room(MaxEdits) + MaxQty /\ Room(MaxEdits) \in Nat /\ MaxQty \in Nat
        /\ Room(edits) \in Nat /\ Room(edits + 1) = Room(edits) + MaxQty
    BY <1>3, RoomIs, BoundAssumption
  <2> HIDE DEF b
  <2> QED
    BY <2>1, <2>2
<1>4. \A p \in Order : QtyOf(lines[p], i) \in Nat
  BY QtyIs DEF TypeOK
<1>5. \A p \in Order : w[p] = Net(p, i)
  BY DEF NetOf, Net
<1>6. ASSUME NEW p \in Order PROVE -b <= w[p]
  <2>1. QtyOf(lines[p], i) <= b
    <3>1. QtyOf(lines[p], i) <= Room(edits) \/ QtyOf(lines[p], i) <= Room(edits + 1)
      BY <1>0 DEF RoomInv
    <3> HIDE DEF b
    <3> QED
      BY <1>3, <1>3a, <1>4, <3>1
  <2>2. -w[p] <= QtyOf(lines[p], i)
    BY <1>5 DEF Books, HeldInv
  <2> HIDE DEF b, w
  <2> QED
    BY <1>2, <1>3, <1>4, <2>1, <2>2
<1>w. r.want[i] \in Nat /\ r.want[i] <= MaxQty /\ r.seen[i] \in Nat
  BY <1>0, AtWork
<1>7. -b <= w[o] + a
  <2>1. CASE r.op = "create"
    <3>1. ~Exists(o)
      BY <1>1, <2>1 DEF SessionInv, Open
    <3>2. w[o] = 0
      BY <1>0, <1>1, <1>5, <3>1 DEF Books, RowInv
    <3>3. r.seen = Nothing
      BY <2>1, AtWork DEF FoundOK
    <3>4. a = 0 - r.want[i]
      BY <1>0, <2>1, <3>3 DEF Asked, Restores, Nothing
    <3> HIDE DEF a, b, w, r, o
    <3> QED
      BY <1>3, <1>3a, <1>w, <3>2, <3>4
  <2>2. CASE Restores(r.op)
    <3>1. CASE tx[s].claim
      <4>1. moves[o][i].back = 0
        BY <1>0, <1>1, <2>2, <3>1 DEF ClaimInv, RestoredAtMostOnce
      <4>2. moves[o][i].out \in Int
        BY <1>0, AtWork DEF Move
      <4>3. a = -moves[o][i].out /\ w[o] = moves[o][i].out
        BY <1>1, <2>2, <3>1, <4>1, <4>2 DEF Asked, NetOf
      <4> HIDE DEF a, b, w
      <4> QED
        BY <1>3, <4>2, <4>3
    <3>2. CASE ~tx[s].claim
      <4>1. a = 0
        BY <2>2, <3>2 DEF Asked
      <4> HIDE DEF a, b, w
      <4> QED
        BY <1>1, <1>2, <1>6, <4>1
    <3> QED
      BY <3>1, <3>2
  <2>3. CASE r.op \in EditOps
    <3>1. QtyOf(lines[o], i) <= Room(edits)
      BY <1>0, <1>1, <2>3 DEF RoomInv, Editing
    <3>2. -w[o] <= QtyOf(lines[o], i)
      BY <1>1, <1>5 DEF Books, HeldInv
    <3>3. a = r.seen[i] - r.want[i]
      BY <2>3 DEF Asked, Restores, EditOps
    <3>4. w[o] \in Int /\ QtyOf(lines[o], i) \in Nat
      BY <1>1, <1>2, <1>4
    <3> HIDE DEF a, b, w
    <3> QED
      BY <1>3, <1>3a, <1>w, <3>1, <3>2, <3>3, <3>4
  <2> QED
    BY <2>1, <2>2, <2>3, AtWork DEF Restores
<1>8. Total(Order, v) = v[o] + Total(Order, w) - w[o] /\ v[o] = w[o] + a
  <2>1. /\ \A p \in Order : w[p] \in Int
        /\ \A p \in Order : v[p] \in Int
        /\ \A p \in Order \ {o} : v[p] = w[p]
        /\ v[o] = w[o] + a
    <3> HIDE DEF w, a, o
    <3> QED
      BY <1>1, <1>2
  <2> HIDE DEF v, w, a, o
  <2> QED
    BY <1>1, <2>1, OrderAssumption, TotalChanged
<1>9. -(Cardinality(Order) * b) <= Total(Order, v)
  <2>1. \A p \in Order : v[p] \in Int /\ -b <= v[p]
    <3> HIDE DEF w, a, o, b
    <3> QED
      BY <1>1, <1>2, <1>6, <1>7
  <2> HIDE DEF v, b
  <2> QED
    BY <1>3, <2>1, OrderAssumption, TotalAtLeast
<1>10. stock[i] = InitStock[i] + Total(Order, w)
  BY <1>0, LedgerIs DEF Books, Balanced
<1>11. InitStock[i] >= Cardinality(Order) * b /\ InitStock[i] \in Nat
  <2>1. InitStock[i] >= Cardinality(Order) * (MaxEdits + 1) * MaxQty
    BY DEF Plenty
  <2>2. Cardinality(Order) \in Nat /\ MaxQty \in Nat /\ MaxEdits \in Nat
    BY OrderAssumption, FS_CardinalityType, BoundAssumption
  <2>3. Cardinality(Order) * (MaxEdits + 1) * MaxQty = Cardinality(Order) * b
    BY <2>2 DEF Room
  <2>4. InitStock[i] \in Nat
    BY <1>0, StockAssumption
  <2> QED
    BY <2>1, <2>3, <2>4
<1>12. PICK n, z, c, x : n = Cardinality(Order) * b /\ z = Total(Order, w) /\ c = a /\ x = w[o]
  OBVIOUS
<1>13. n \in Int /\ z \in Int /\ c \in Int /\ x \in Int
  <2>1. Cardinality(Order) \in Nat
    BY OrderAssumption, FS_CardinalityType
  <2>2. z \in Int
    <3>1. \A p \in Order : w[p] \in Int
      BY <1>2
    <3> HIDE DEF w
    <3> QED
      BY <1>12, <3>1, OrderAssumption, TotalInt
  <2>3. n \in Int
    <3> HIDE DEF b
    <3> QED
      BY <1>3, <1>12, <2>1
  <2> HIDE DEF w, a, o
  <2> QED
    BY <1>1, <1>2, <1>12, <2>2, <2>3
<1>14. -n <= x + c + z - x
  <2> HIDE DEF v, w, a, o, b
  <2> QED
    BY <1>8, <1>9, <1>12
<1> HIDE DEF v, w, a, b
<1> QED
  BY <1>10, <1>11, <1>12, <1>13, <1>14 DEF a

\* The transaction at work stays true to what it found.
LEMMA WorkStep ==
  ASSUME SerialInv, NEW s \in Session, Step(s), Alone
  PROVE  WorkInv'
<1> USE DEF SerialInv
<1> SUFFICES ASSUME req'[s].phase = "open"
             PROVE  WorkOK(req'[s], tx'[s], moves'[req'[s].ord], stock')
  <2>1. \A t \in Session \ {s} : req'[t].phase # "open"
    BY OthersIdle DEF Idle
  <2> QED
    BY <2>1 DEF WorkInv, Open
<1> DEFINE t == tx[s]
           r == req[s]
           m == moves[req[s].ord]
<1>1. CASE CreateOrder(s)
  <2>1. PICK r1, t1 : r1 = req'[s] /\ t1 = tx'[s]
    OBVIOUS
  <2>2. /\ r1.op = "create" /\ r1.seen = Nothing
        /\ t1.moved = {} /\ t1.wrote = {} /\ t1.cur = NoItem
        /\ \A i \in Tracked : t1.todo[i] = -r1.want[i] /\ r1.want[i] \in Nat
    BY <1>1, <2>1, CreateRequest
  <2>3. \A i \in Tracked : Asked(r1, t1, moves'[req'[s].ord], i) = -r1.want[i]
    BY <2>2, TrackedAssumption DEF Asked, Restores, Nothing
  <2>4. WorkOK(r1, t1, moves'[req'[s].ord], stock')
    BY <2>2, <2>3 DEF WorkOK
  <2> QED
    BY <2>1, <2>4
<1>2. CASE BeginTx(s)
  <2>1. PICK r1, t1 : r1 = req'[s] /\ t1 = tx'[s]
    OBVIOUS
  <2>2. /\ r1.op = r.op /\ r1.ord = r.ord /\ r1.want = r.want /\ r1.seen = r.seen
        /\ t1.moved = {} /\ t1.wrote = {} /\ t1.cur = NoItem
        /\ \A i \in Tracked : t1.todo[i] = Asked(r, t1, m, i)
        /\ moves' = moves
    BY <1>2, <2>1, BeginWork
  <2>3. \A i \in Tracked : Asked(r1, t1, m, i) = Asked(r, t1, m, i)
    BY <2>2 DEF Asked
  <2>4. WorkOK(r1, t1, m, stock')
    BY <2>2, <2>3 DEF WorkOK
  <2> QED
    BY <2>1, <2>2, <2>4
<1>3. CASE ReadStock(s)
  <2>1. Open(s) /\ req' = req /\ UNCHANGED <<stock, moves>>
    BY <1>3 DEF ReadStock
  <2>2. PICK i \in Tracked :
          tx'[s] = [todo |-> t.todo, cur |-> i, before |-> stock[i], after |-> t.after,
                    did |-> t.did, moved |-> t.moved, wrote |-> t.wrote, claim |-> t.claim]
    BY <1>3, StockChange
  <2>3. PICK t1 : t1 = tx'[s]
    OBVIOUS
  <2>4. /\ t1.todo = t.todo /\ t1.cur = i /\ t1.before = stock[i] /\ t1.after = t.after
        /\ t1.did = t.did /\ t1.moved = t.moved /\ t1.wrote = t.wrote /\ t1.claim = t.claim
    BY <2>2, <2>3
  <2>5. WorkOK(r, t, m, stock)
    BY <2>1, AtWork
  <2>6. WorkOK(r, t1, m, stock)
    BY <2>4, <2>5 DEF WorkOK, Asked
  <2> QED
    BY <2>1, <2>3, <2>6
<1>4. CASE WriteStock(s)
  <2>1. Open(s) /\ req' = req /\ UNCHANGED <<stock, moves>> /\ t.cur # NoItem
    BY <1>4 DEF WriteStock
  <2>2. t.cur \in Tracked /\ \E n \in Nat :
          /\ \/ n = t.before + t.todo[t.cur]
             \/ n = 0 /\ t.before + t.todo[t.cur] < 0
          /\ tx'[s] = Applied(t, n, n - t.before)
    BY <1>4, StockChange
  <2>3. PICK n \in Nat : /\ \/ n = t.before + t.todo[t.cur]
                            \/ n = 0 /\ t.before + t.todo[t.cur] < 0
                         /\ tx'[s] = Applied(t, n, n - t.before)
    BY <2>2
  <2>4. PICK c, t1 : c = t.cur /\ t1 = tx'[s]
    OBVIOUS
  <2>5. WorkOK(r, t, m, stock) /\ t \in Txn /\ c \in Tracked
    BY <2>1, <2>2, <2>4, AtWork
  <2>6. t.todo[c] # 0 /\ c \notin t.moved
    <3>1. t.todo[c] # 0
      BY <1>4, <2>4, AppliedDelta
    <3> QED
      BY <2>5, <3>1 DEF WorkOK
  <2>7. t.before = stock[c] /\ t.todo[c] = Asked(r, t, m, c) /\ c \notin t.wrote
    BY <2>1, <2>4, <2>5, <2>6 DEF WorkOK
  <2>8. stock[c] \in Int /\ Asked(r, t, m, c) \in Int
    BY <2>1, <2>5, AskedInt DEF IInv, TypeOK
  <2>9. c \in Plenty => n = stock[c] + Asked(r, t, m, c)
    <3>1. c \in Plenty => stock[c] + Asked(r, t, m, c) >= 0
      BY <2>1, Covered
    <3> QED
      BY <2>3, <2>4, <2>7, <2>8, <3>1
  <2>10. /\ t1.todo = [t.todo EXCEPT ![c] = 0] /\ t1.cur = NoItem
         /\ t1.after = [t.after EXCEPT ![c] = n]
         /\ t1.did = [t.did EXCEPT ![c] = n - stock[c]]
         /\ t1.moved = t.moved \cup {c}
         /\ t1.wrote = IF n # stock[c] THEN t.wrote \cup {c} ELSE t.wrote
         /\ t1.claim = t.claim
    BY <2>3, <2>4, <2>7 DEF Applied
  <2>11. /\ t.todo \in [Tracked -> Int] /\ t.after \in [Tracked -> Int]
         /\ t.did \in [Tracked -> Int] /\ t.moved \subseteq Tracked
    BY <2>5 DEF Txn
  <2>12. \A i \in Tracked : Asked(r, t1, m, i) = Asked(r, t, m, i)
    BY <2>10 DEF Asked
  <2>13. \A i \in Tracked \ {c} : /\ t1.todo[i] = t.todo[i] /\ t1.after[i] = t.after[i]
                                  /\ t1.did[i] = t.did[i]
                                  /\ i \in t1.moved <=> i \in t.moved
                                  /\ i \in t1.wrote <=> i \in t.wrote
    BY <2>10, <2>11
  <2>14. t1.todo[c] = 0 /\ t1.after[c] = n /\ t1.did[c] = n - stock[c] /\ c \in t1.moved
         /\ (c \notin t1.wrote => n = stock[c])
    BY <2>5, <2>7, <2>10, <2>11
  <2>15. /\ t1.after[c] = stock[c] + t1.did[c]
         /\ c \notin t1.wrote => t1.did[c] = 0
         /\ c \in Plenty => t1.did[c] = Asked(r, t1, m, c)
    <3>1. n \in Int
      OBVIOUS
    <3> QED
      BY <2>5, <2>8, <2>9, <2>12, <2>14, <3>1
  <2>16. t1.moved \subseteq Tracked
    BY <2>5, <2>10, <2>11
  <2> HIDE DEF t, r, m
  <2>17. WorkOK(r, t1, m, stock)
    <3>1. ASSUME NEW i \in t1.moved
          PROVE  /\ t1.todo[i] = 0
                 /\ t1.after[i] = stock[i] + t1.did[i]
                 /\ i \notin t1.wrote => t1.did[i] = 0
                 /\ i \in Plenty => t1.did[i] = Asked(r, t1, m, i)
      <4>1. CASE i = c
        BY <2>14, <2>15, <4>1
      <4>2. CASE i # c
        BY <2>5, <2>12, <2>13, <2>16, <4>2 DEF WorkOK
      <4> QED
        BY <4>1, <4>2
    <3>2. ASSUME NEW i \in Tracked \ t1.moved
          PROVE  t1.todo[i] = Asked(r, t1, m, i) /\ i \notin t1.wrote
      <4>1. i # c
        BY <2>14
      <4> QED
        BY <2>5, <2>12, <2>13, <4>1 DEF WorkOK
    <3> QED
      BY <2>10, <3>1, <3>2 DEF WorkOK
  <2> QED
    BY <2>1, <2>4, <2>17 DEF r, m
<1>5. ~Read(s) /\ ~(WriteStatus(s) \/ Commit(s) \/ Abort(s))
  BY ReadEffect, RequestChange DEF Idle
<1> QED
  BY <1>1, <1>2, <1>3, <1>4, <1>5 DEF Step

-----------------------------------------------------------------------------
(* What a request has read of its order *)

\* A request that passed its checks.
LEMMA CheckedRequest ==
  ASSUME TypeOK, NEW s \in Session, NEW op, NEW o, NEW row, NEW to, NEW want, NEW seen,
         Checked(s, op, o, row, to, want, seen)
  PROVE  LET r == req'[s] IN
         /\ r.phase = "checked" /\ r.op = op /\ r.ord = o /\ r.row = row /\ r.to = to
         /\ r.want = want /\ r.seen = seen
BY DEF Checked, TypeOK

\* What the requests read when they are checked.
LEMMA ReadFinds ==
  ASSUME TypeOK, NEW s \in Session, Read(s), NEW claim
  PROVE  FoundOK(req'[s], claim, order[req'[s].ord], lines[req'[s].ord])
<1>0. PICK r : r = req'[s]
  OBVIOUS
<1> SUFFICES FoundOK(r, claim, order[r.ord], lines[r.ord])
  BY <1>0
<1>1. CASE ReadForAdd(s)
  <2>1. PICK o \in Order, i \in Item, q \in 1..MaxQty :
          /\ Editable(o)
          /\ Checked(s, "add", o, 0, "NONE", [Nothing EXCEPT ![i] = q], Nothing)
    BY <1>1 DEF ReadForAdd
  <2>2. r.phase = "checked" /\ r.op = "add" /\ r.ord = o /\ r.seen = Nothing
    BY <1>0, <2>1, CheckedRequest
  <2> QED
    BY <2>1, <2>2 DEF FoundOK, Editable, Restores
<1>2. CASE ReadForSetQty(s)
  <2>0. PICK o \in Order, q \in 1..MaxQty : Editable(o) /\
          \E k \in LiveRows(lines[o]) :
            Checked(s, "setQty", o, k, "NONE",
                     [Nothing EXCEPT ![lines[o][k].item] = q],
                     [Nothing EXCEPT ![lines[o][k].item] = lines[o][k].qty])
    BY <1>2 DEF ReadForSetQty
  <2>1. PICK k \in LiveRows(lines[o]) :
          Checked(s, "setQty", o, k, "NONE",
                     [Nothing EXCEPT ![lines[o][k].item] = q],
                     [Nothing EXCEPT ![lines[o][k].item] = lines[o][k].qty])
    BY <2>0
  <2>2. /\ r.phase = "checked" /\ r.op = "setQty" /\ r.ord = o /\ r.row = k
        /\ r.want = [Nothing EXCEPT ![lines[o][k].item] = q]
        /\ r.seen = [Nothing EXCEPT ![lines[o][k].item] = lines[o][k].qty]
    BY <1>0, <2>1, CheckedRequest
  <2>3. k \in 1..Len(lines[o])
    BY DEF LiveRows
  <2>4. \A i \in Item : IF lines[o][k].item = i THEN r.seen[i] = lines[o][k].qty
                                               ELSE r.seen[i] = 0 /\ r.want[i] = 0
    BY <2>2 DEF Nothing
  <2> QED
    BY <2>0, <2>2, <2>3, <2>4 DEF FoundOK, Editable, Restores
<1>3. CASE ReadForRemove(s)
  <2>0. PICK o \in Order : Editable(o) /\
          \E k \in LiveRows(lines[o]) :
            Checked(s, "remove", o, k, "NONE", Nothing,
                     [Nothing EXCEPT ![lines[o][k].item] = lines[o][k].qty])
    BY <1>3 DEF ReadForRemove
  <2>1. PICK k \in LiveRows(lines[o]) :
          Checked(s, "remove", o, k, "NONE", Nothing,
                     [Nothing EXCEPT ![lines[o][k].item] = lines[o][k].qty])
    BY <2>0
  <2>2. /\ r.phase = "checked" /\ r.op = "remove" /\ r.ord = o /\ r.row = k
        /\ r.want = Nothing
        /\ r.seen = [Nothing EXCEPT ![lines[o][k].item] = lines[o][k].qty]
    BY <1>0, <2>1, CheckedRequest
  <2>3. k \in 1..Len(lines[o])
    BY DEF LiveRows
  <2>4. \A i \in Item : IF lines[o][k].item = i THEN r.seen[i] = lines[o][k].qty
                                               ELSE r.seen[i] = 0 /\ r.want[i] = 0
    BY <2>2 DEF Nothing
  <2> QED
    BY <2>0, <2>2, <2>3, <2>4 DEF FoundOK, Editable, Restores
<1>4. CASE ReadForReplace(s)
  <2>1. PICK o \in Order, want \in [Item -> 0..MaxQty] :
          /\ order[o].status \in {"PENDING", "HOLD"}
          /\ Checked(s, "replace", o, 0, "NONE", want, [i \in Item |-> QtyOf(lines[o], i)])
    BY <1>4 DEF ReadForReplace
  <2>2. /\ r.phase = "checked" /\ r.op = "replace" /\ r.ord = o
        /\ r.seen = [i \in Item |-> QtyOf(lines[o], i)]
    BY <1>0, <2>1, CheckedRequest
  <2>3. \A i \in Item : r.seen[i] = QtyOf(lines[o], i)
    BY <2>2
  <2> QED
    BY <2>1, <2>2, <2>3 DEF FoundOK, Restores
<1>5. CASE ReadForCancel(s)
  <2>1. PICK o \in Order : Checked(s, "cancel", o, 0, "CANCELLED", Nothing, Nothing)
    BY <1>5 DEF ReadForCancel
  <2>2. r.phase = "checked" /\ r.op = "cancel"
    BY <1>0, <2>1, CheckedRequest
  <2> QED
    BY <2>2 DEF FoundOK, Restores
<1>6. CASE ReadForDelete(s)
  <2>1. PICK o \in Order : Checked(s, "delete", o, 0, "NONE", Nothing, Nothing)
    BY <1>6 DEF ReadForDelete
  <2>2. r.phase = "checked" /\ r.op = "delete"
    BY <1>0, <2>1, CheckedRequest
  <2> QED
    BY <2>2 DEF FoundOK, Restores
<1>7. CASE ReadForStatus(s)
  <2>1. PICK o \in Order, to \in Status \ {"NONE"} :
          /\ order[o].status # "CANCELLED"
          /\ Checked(s, "status", o, 0, to, Nothing, Nothing)
    BY <1>7 DEF ReadForStatus
  <2>2. r.phase = "checked" /\ r.op = "status" /\ r.ord = o
    BY <1>0, <2>1, CheckedRequest
  <2> QED
    BY <2>1, <2>2 DEF FoundOK, Restores
<1>8. CASE ReadForHold(s)
  <2>1. PICK o \in Order : /\ order[o].status \notin {"COMPLETED", "CANCELLED", "HOLD"}
                           /\ Checked(s, "hold", o, 0, "HOLD", Nothing, Nothing)
    BY <1>8 DEF ReadForHold
  <2>2. r.phase = "checked" /\ r.op = "hold" /\ r.ord = o /\ r.to = "HOLD"
    BY <1>0, <2>1, CheckedRequest
  <2> QED
    BY <2>1, <2>2 DEF FoundOK, Restores
<1>9. CASE ReadForResume(s)
  <2>1. PICK o \in Order : /\ order[o].status = "HOLD"
                           /\ Checked(s, "resume", o, 0, "PENDING", Nothing, Nothing)
    BY <1>9 DEF ReadForResume
  <2>2. r.phase = "checked" /\ r.op = "resume" /\ r.ord = o /\ r.to = "PENDING"
    BY <1>0, <2>1, CheckedRequest
  <2> QED
    BY <2>1, <2>2 DEF FoundOK, Restores
<1>10. CASE ReadForPay(s)
  <2>1. PICK o \in Order : /\ order[o].status \notin {"COMPLETED", "CANCELLED"}
                           /\ Checked(s, "pay", o, 0, "COMPLETED", Nothing, Nothing)
    BY <1>10 DEF ReadForPay
  <2>2. r.phase = "checked" /\ r.op = "pay" /\ r.ord = o /\ r.to = "COMPLETED"
    BY <1>0, <2>1, CheckedRequest
  <2> QED
    BY <2>1, <2>2 DEF FoundOK, Restores
<1> QED
  BY <1>1, <1>2, <1>3, <1>4, <1>5, <1>6, <1>7, <1>8, <1>9, <1>10 DEF Read

\* Nobody but the request at work changes what it found.
LEMMA FoundStep ==
  ASSUME SerialInv, NEW s \in Session, Step(s), Alone
  PROVE  FoundInv'
<1> USE DEF SerialInv
<1> SUFFICES ASSUME req'[s].phase # "idle"
             PROVE  FoundOK(req'[s], tx'[s].claim, order'[req'[s].ord], lines'[req'[s].ord])
  <2>1. \A t \in Session \ {s} : req'[t].phase = "idle"
    BY OthersIdle DEF Idle
  <2> QED
    BY <2>1 DEF FoundInv
<1>1. CASE CreateOrder(s)
  <2>1. PICK r : r = req'[s]
    OBVIOUS
  <2>2. r.phase = "open" /\ r.op = "create" /\ r.seen = Nothing
    BY <1>1, <2>1, CreateRequest
  <2>3. FoundOK(r, tx'[s].claim, order'[r.ord], lines'[r.ord])
    BY <2>2 DEF FoundOK, Restores
  <2> QED
    BY <2>1, <2>3
<1>2. CASE Read(s)
  <2>1. UNCHANGED <<order, lines>>
    BY <1>2, ReadIsReadStep DEF ReadStep, Checked, IInv
  <2>2. PICK claim : claim = tx'[s].claim
    OBVIOUS
  <2>3. FoundOK(req'[s], claim, order[req'[s].ord], lines[req'[s].ord])
    BY <1>2, ReadFinds DEF IInv
  <2> QED
    BY <2>1, <2>2, <2>3
<1>3. CASE BeginTx(s)
  <2>1. PICK r, r1, t1 : r = req[s] /\ r1 = req'[s] /\ t1 = tx'[s]
    OBVIOUS
  <2>2. /\ r.phase = "checked" /\ r.op \notin {"create", "hold", "resume", "pay", "none"}
        /\ r1.phase = "open" /\ r1.op = r.op /\ r1.ord = r.ord /\ r1.to = r.to
        /\ r1.want = r.want /\ r1.seen = r.seen
        /\ r1.row = IF r.op = "replace" THEN Len(lines[r.ord]) ELSE r.row
        /\ Restores(r.op) => t1.claim = (order[r.ord].deducted /\ ~order[r.ord].restored)
        /\ UNCHANGED <<order, lines>>
    BY <1>3, <2>1, BeginWork
  <2>3. FoundOK(r, tx[s].claim, order[r.ord], lines[r.ord])
    BY <2>1, <2>2 DEF FoundInv
  <2>4. FoundOK(r1, t1.claim, order[r.ord], lines[r.ord])
    BY <2>2, <2>3 DEF FoundOK
  <2> QED
    BY <2>1, <2>2, <2>4
<1>4. CASE ReadStock(s) \/ WriteStock(s)
  <2>1. UNCHANGED <<req, order, lines>>
    BY <1>4 DEF ReadStock, WriteStock
  <2>2. tx'[s].claim = tx[s].claim
    <3>1. CASE ReadStock(s)
      <4>1. PICK i \in Tracked :
              tx'[s] = [todo |-> tx[s].todo, cur |-> i, before |-> stock[i],
                        after |-> tx[s].after, did |-> tx[s].did, moved |-> tx[s].moved,
                        wrote |-> tx[s].wrote, claim |-> tx[s].claim]
        BY <3>1, StockChange
      <4> QED
        BY <4>1
    <3>2. CASE WriteStock(s)
      BY <3>2, AppliedDelta
    <3> QED
      BY <1>4, <3>1, <3>2
  <2> QED
    BY <2>1, <2>2 DEF FoundInv
<1>5. ~(WriteStatus(s) \/ Commit(s) \/ Abort(s))
  BY RequestChange DEF Idle
<1> QED
  BY <1>1, <1>2, <1>3, <1>4, <1>5 DEF Step

-----------------------------------------------------------------------------
(* The books *)

\* A step that leaves orders, lines, stock and movements alone leaves the books as they are.
LEMMA BooksQuiet ==
  ASSUME SerialInv, TypeOK', UNCHANGED <<stock, order, lines, moves>>
  PROVE  Books'
<1> USE DEF SerialInv
<1>1. RowInv' /\ HeldInv'
  BY DEF Books, RowInv, HeldInv, Exists, Net
<1>2. ReservedMatchesLines' /\ CancelledReturnsStock'
  BY DEF Books, ReservedMatchesLines, CancelledReturnsStock, Exists, Net
<1>3. LedgerBalances'
  <2>1. Balanced(stock, moves)
    BY LedgerIs DEF Books, IInv
  <2> QED
    BY <2>1, LedgerIsAfter
<1> QED
  BY <1>1, <1>2, <1>3 DEF Books

\* A plain status write neither cancels an order nor brings a cancelled one back.
LEMMA BooksStatus ==
  ASSUME SerialInv, NEW s \in Session, WriteStatus(s), TypeOK'
  PROVE  Books'
<1> USE DEF SerialInv
<1> DEFINE o == req[s].ord
<1>1. UNCHANGED <<stock, lines, moves>>
  BY DEF WriteStatus
<1>2. /\ \A p \in Order : p # o => order'[p] = order[p]
      /\ o \in Order /\ Exists(o) /\ order'[o].status # "NONE"
      /\ order'[o].deducted = order[o].deducted
      /\ order'[o].restored = order[o].restored
  BY OrderChange DEF Step
<1>3. order'[o].deleted = order[o].deleted /\ order'[o].status = req[s].to
  <2>1. order[o] \in OrderRow /\ order \in [Order -> OrderRow]
    BY <1>2 DEF IInv, TypeOK
  <2> QED
    BY <1>2, <2>1 DEF WriteStatus, OrderRow
<1>4. order[o].status # "CANCELLED" /\ order'[o].status # "CANCELLED"
  <2>1. FoundOK(req[s], tx[s].claim, order[o], lines[o])
    BY DEF WriteStatus, FoundInv
  <2> QED
    BY <1>3, <2>1 DEF WriteStatus, FoundOK
<1>5. \A p \in Order : /\ order'[p].status = "NONE" <=> order[p].status = "NONE"
                       /\ order'[p].status = "CANCELLED" <=> order[p].status = "CANCELLED"
                       /\ order'[p].deducted = order[p].deducted
                       /\ order'[p].restored = order[p].restored
                       /\ order'[p].deleted = order[p].deleted
  BY <1>2, <1>3, <1>4 DEF Exists
<1>6. RowInv'
  BY <1>1, <1>5 DEF Books, RowInv, Exists, Net
<1>7. HeldInv'
  BY <1>1 DEF Books, HeldInv, Net
<1>8. ReservedMatchesLines' /\ CancelledReturnsStock'
  BY <1>1, <1>5 DEF Books, ReservedMatchesLines, CancelledReturnsStock, Exists, Net
<1>9. LedgerBalances'
  <2>1. Balanced(stock, moves)
    BY LedgerIs DEF Books, IInv
  <2> QED
    BY <1>1, <2>1, LedgerIsAfter
<1> QED
  BY <1>6, <1>7, <1>8, <1>9 DEF Books

-----------------------------------------------------------------------------
(* What a commit publishes *)

\* What the transaction does to the stock of an item.
Did(t, i) == IF i \in t.moved THEN t.did[i] ELSE 0

\* The stock and the movements of the order change by the same.
LEMMA CommitMoved ==
  ASSUME SerialInv, NEW s \in Session, Commit(s), NEW i \in Tracked
  PROVE  LET m == moves[req[s].ord][i]
             n == moves'[req[s].ord][i]
         IN /\ Did(tx[s], i) \in Int /\ m.out \in Int /\ m.back \in Int
            /\ stock'[i] = stock[i] + Did(tx[s], i) /\ stock[i] \in Int
            /\ n.out + n.back = m.out + m.back + Did(tx[s], i)
            /\ i \in Plenty => Did(tx[s], i) = Asked(req[s], tx[s], moves[req[s].ord], i)
            /\ Restores(req[s].op) /\ ~tx[s].claim => n = m
<1> USE DEF SerialInv
<1> DEFINE o == req[s].ord
           t == tx[s]
           m == moves[o][i]
           n == moves'[o][i]
           d == Did(t, i)
<1>0. Open(s) /\ \A j \in Tracked : t.todo[j] = 0
  BY DEF Commit
<1>1. /\ o \in Order /\ t \in Txn /\ m \in Move
      /\ WorkOK(req[s], t, moves[o], stock)
  BY <1>0, AtWork
<1>2. n = MoveAfter(s, i)
  BY OrderChange DEF Step
<1>3. m.out \in Int /\ m.back \in Int /\ t.did[i] \in Int /\ d \in Int
  BY <1>1 DEF Move, Txn, Did
<1>4. stock[i] \in Int
  BY DEF IInv, TypeOK
<1>5. stock'[i] = IF i \in t.wrote THEN t.after[i] ELSE stock[i]
  BY DEF Commit
<1>6. stock'[i] = stock[i] + d
  BY <1>1, <1>3, <1>4, <1>5 DEF WorkOK, Did
<1>7. n.out + n.back = m.out + m.back + d
  <2>1. CASE i \notin t.moved
    <3>1. n = m
      BY <1>1, <1>2, <2>1, MoveAfterFields
    <3> QED
      BY <1>3, <2>1, <3>1 DEF Did
  <2>2. CASE i \in t.moved /\ Restores(req[s].op)
    <3>1. n = [out |-> m.out, back |-> m.back + t.did[i], restores |-> m.restores + 1]
      BY <1>2, <2>2 DEF MoveAfter
    <3> QED
      BY <1>3, <2>2, <3>1 DEF Did
  <2>3. CASE i \in t.moved /\ ~Restores(req[s].op)
    <3>1. n = [out |-> m.out + t.did[i], back |-> m.back, restores |-> m.restores]
      BY <1>2, <2>3 DEF MoveAfter
    <3> QED
      BY <1>3, <2>3, <3>1 DEF Did
  <2> QED
    BY <2>1, <2>2, <2>3
<1>8. i \in Plenty => d = Asked(req[s], t, moves[o], i)
  BY <1>0, <1>1 DEF WorkOK, Did
<1>9. Restores(req[s].op) /\ ~t.claim => n = m
  <2>1. Restores(req[s].op) /\ ~t.claim => t.moved = {}
    BY <1>0 DEF IInv, ClaimInv
  <2> QED
    BY <1>1, <1>2, <2>1, MoveAfterFields
<1> HIDE DEF d
<1> QED
  BY <1>3, <1>4, <1>6, <1>7, <1>8, <1>9 DEF d

\* The lines give up what the request asked of the stock.
LEMMA CommitLines ==
  ASSUME SerialInv, NEW s \in Session, Commit(s), NEW i \in Item
  PROVE  LET r == req[s]
             o == req[s].ord
         IN /\ o \in Order /\ QtyOf(lines[o], i) \in Nat
            /\ r.want[i] \in Nat /\ r.want[i] <= MaxQty /\ r.seen[i] \in Nat
            /\ Restores(r.op) => QtyOf(lines'[o], i) = QtyOf(lines[o], i)
            /\ ~Restores(r.op) =>
                 /\ QtyOf(lines'[o], i) = QtyOf(lines[o], i) - (r.seen[i] - r.want[i])
                 /\ QtyOf(lines'[o], i) <= QtyOf(lines[o], i) + MaxQty
<1> USE DEF SerialInv
<1> DEFINE r == req[s]
           o == req[s].ord
           ls == lines[o]
           q == QtyOf(ls, i)
<1>0. Open(s)
  BY DEF Commit
<1>1. /\ o \in Order /\ ls \in Seq(Line)
      /\ FoundOK(r, tx[s].claim, order[o], ls)
      /\ r.op \in EditOps \cup {"create", "cancel", "delete", "status"}
      /\ r.want \in [Item -> 0..MaxQty] /\ r.phase = "open"
  BY <1>0, AtWork DEF Open
<1>2. r.want[i] \in Nat /\ r.want[i] <= MaxQty /\ r.seen[i] \in Nat
  BY <1>0, AtWork
<1>3. q \in Nat
  BY <1>1, QtyIs
<1>4. lines'[o] = LinesAfter(s)
  BY <1>1 DEF Commit, IInv, TypeOK
<1>5. CASE Restores(r.op)
  BY <1>1, <1>2, <1>3, <1>4, <1>5 DEF LinesAfter, Restores
<1>a. r.want[i] \in 0..MaxQty /\ MaxQty \in Nat /\ 0 \in 0..MaxQty
  BY <1>1, BoundAssumption
<1>6. CASE r.op \in {"create", "add"}
  <2>1. lines'[o] = ls \o NewRows(r.want)
    BY <1>4, <1>6 DEF LinesAfter
  <2>2. QtyOf(lines'[o], i) = q + r.want[i]
    BY <1>1, <2>1, QtyAdded
  <2>3. r.seen[i] = 0
    BY <1>1, <1>6 DEF FoundOK, Nothing
  <2> HIDE DEF q, r, o
  <2> QED
    BY <1>1, <1>2, <1>3, <1>6, <1>a, <2>2, <2>3 DEF Restores, r, o, q
<1>7. CASE r.op \in {"setQty", "remove"}
  <2>1. r.row \in 1..Len(ls) /\ IF ls[r.row].item = i THEN r.seen[i] = ls[r.row].qty
                                                      ELSE r.seen[i] = 0 /\ r.want[i] = 0
    BY <1>1, <1>7 DEF FoundOK
  <2>2. PICK w : w = IF r.op = "setQty" THEN r.want[ls[r.row].item] ELSE 0
    OBVIOUS
  <2>3. lines'[o] = SetQty(ls, r.row, w)
    BY <1>4, <1>7, <2>2 DEF LinesAfter
  <2>4. w \in 0..MaxQty
    <3>1. ls[r.row].item \in Item
      BY <1>1, <2>1, RowType
    <3> QED
      BY <1>1, <1>a, <2>2, <3>1
  <2>5. ls[r.row].item = i => w = r.want[i]
    <3>1. r.op = "remove" => r.want[i] = 0
      BY <1>1 DEF FoundOK, Nothing
    <3> QED
      BY <1>7, <2>2, <3>1
  <2>6. QtyOf(lines'[o], i) = IF ls[r.row].item = i THEN q - ls[r.row].qty + w ELSE q
    BY <1>1, <2>1, <2>3, <2>4, QtySet
  <2>7. QtyOf(lines'[o], i) = q - (r.seen[i] - r.want[i])
    <3> HIDE DEF q, r, o, ls
    <3> QED
      BY <1>2, <1>3, <2>1, <2>5, <2>6
  <2> HIDE DEF q, r, o
  <2> QED
    BY <1>1, <1>2, <1>3, <1>7, <1>a, <2>7 DEF Restores, r, o, q
<1>8. CASE r.op = "replace"
  <2>1. r.row = Len(ls) /\ r.seen[i] = q
    BY <1>1, <1>8 DEF FoundOK
  <2>2. lines'[o] = Replaced(ls, r.want, Len(ls))
    BY <1>4, <1>8, <2>1 DEF LinesAfter
  <2>3. QtyOf(lines'[o], i) = r.want[i]
    BY <1>1, <2>2, QtyReplaced
  <2> HIDE DEF q, r, o
  <2> QED
    BY <1>1, <1>2, <1>3, <1>8, <1>a, <2>1, <2>3 DEF Restores, r, o, q
<1> QED
  BY <1>1, <1>5, <1>6, <1>7, <1>8 DEF Restores, EditOps

\* The order row a commit leaves.
LEMMA CommitRow ==
  ASSUME SerialInv, NEW s \in Session, Commit(s)
  PROVE  LET r   == req[s]
             row == order[req[s].ord]
             new == order'[req[s].ord]
         IN /\ r.ord \in Order /\ new.status # "NONE" /\ new.deducted
            /\ r.op = "create" => /\ ~Exists(r.ord)
                                  /\ new.status = "PENDING" /\ ~new.restored
            /\ r.op # "create" => Exists(r.ord)
            /\ ~Restores(r.op) /\ r.op # "create" => new = row /\ row.status # "CANCELLED"
            /\ Restores(r.op) => /\ new.restored
                                 /\ tx[s].claim <=> ~row.restored
                                 /\ r.op # "delete" => /\ new.status = "CANCELLED"
                                                       /\ new.deleted = row.deleted
                                 /\ r.op = "delete" => /\ new.status = row.status
                                                       /\ new.deleted
<1> USE DEF SerialInv
<1> DEFINE r   == req[s]
           o   == req[s].ord
           row == order[o]
           new == order'[o]
<1>0. Open(s)
  BY DEF Commit
<1>1. /\ o \in Order /\ FoundOK(r, tx[s].claim, row, lines[o])
      /\ r.op \in EditOps \cup {"create", "cancel", "delete", "status"}
      /\ tx[s] \in Txn /\ r.phase = "open"
  BY <1>0, AtWork DEF Open
<1>2. new = OrderAfter(s) /\ new.status # "NONE"
  BY OrderChange DEF Step
<1>3. row \in OrderRow
  BY <1>1 DEF IInv, TypeOK
<1>4. CASE r.op = "create"
  <2>1. ~Exists(o)
    BY <1>0, <1>4 DEF IInv, SessionInv, Open
  <2>2. new.status = "PENDING" /\ ~new.restored /\ new.deducted
    BY <1>2, <1>4 DEF OrderAfter, NoRow
  <2> QED
    BY <1>1, <1>2, <1>4, <2>1, <2>2 DEF Restores
<1>a. r.op # "create" => Exists(o) /\ row.deducted
  BY <1>0, <1>1 DEF IInv, SessionInv, Open, Books, RowInv
<1>5. CASE ~Restores(r.op) /\ r.op # "create"
  <2>1. new = row
    BY <1>2, <1>5 DEF OrderAfter, Restores
  <2>2. row.status # "CANCELLED"
    BY <1>1, <1>5 DEF FoundOK, Restores
  <2> HIDE DEF new, row
  <2> QED
    BY <1>1, <1>2, <1>5, <1>a, <2>1, <2>2 DEF new, row
<1>6. CASE Restores(r.op)
  <2>1. tx[s].claim = (row.deducted /\ ~row.restored)
    BY <1>1, <1>6 DEF FoundOK
  <2>2. r.op # "create"
    BY <1>6 DEF Restores
  <2>3. tx[s].claim \in BOOLEAN /\ row.restored \in BOOLEAN
    BY <1>1, <1>3 DEF Txn, OrderRow
  <2>4. tx[s].claim <=> ~row.restored
    BY <1>a, <2>1, <2>2
  <2>5. CASE r.op = "delete"
    <3>1. new = [row EXCEPT !.deleted = TRUE, !.restored = @ \/ tx[s].claim]
      BY <1>2, <2>5 DEF OrderAfter
    <3>2. /\ new.deleted /\ new.status = row.status /\ new.deducted = row.deducted
          /\ new.restored = (row.restored \/ tx[s].claim)
      BY <1>3, <3>1 DEF OrderRow
    <3> HIDE DEF new, row
    <3> QED
      BY <1>1, <1>2, <1>6, <1>a, <2>2, <2>4, <2>5, <3>2 DEF new, row
  <2>6. CASE r.op # "delete"
    <3>1. new = [row EXCEPT !.status = "CANCELLED", !.restored = @ \/ tx[s].claim]
      BY <1>2, <1>6, <2>6 DEF OrderAfter, Restores
    <3>2. /\ new.deleted = row.deleted /\ new.status = "CANCELLED"
          /\ new.deducted = row.deducted
          /\ new.restored = (row.restored \/ tx[s].claim)
      BY <1>3, <3>1 DEF OrderRow
    <3> HIDE DEF new, row
    <3> QED
      BY <1>1, <1>2, <1>6, <1>a, <2>2, <2>4, <2>6, <3>2 DEF new, row
  <2> QED
    BY <2>5, <2>6
<1> QED
  BY <1>4, <1>5, <1>6

\* The net movements of an item after a step.
NetAfter(o, i) == moves'[o][i].out + moves'[o][i].back

\* Of a plentiful item the order holds afterwards: nothing if this gave it back, else
\* what it held and what was asked for.
LEMMA CommitNet ==
  ASSUME SerialInv, NEW s \in Session, Commit(s), NEW i \in Plenty
  PROVE  LET r == req[s]
             o == req[s].ord
         IN /\ Net(o, i) \in Int
            /\ Restores(r.op) /\ tx[s].claim => NetAfter(o, i) = 0
            /\ Restores(r.op) /\ ~tx[s].claim => NetAfter(o, i) = Net(o, i)
            /\ ~Restores(r.op) => NetAfter(o, i) = Net(o, i) + r.seen[i] - r.want[i]
<1> USE DEF SerialInv
<1> DEFINE r == req[s]
           o == req[s].ord
           m == moves[o][i]
           n == moves'[o][i]
<1>0. i \in Tracked /\ i \in Item /\ Open(s)
  BY TrackedAssumption DEF Plenty, Commit
<1>1. /\ m.out \in Int /\ m.back \in Int /\ o \in Order
      /\ n.out + n.back = m.out + m.back + Did(tx[s], i)
      /\ Did(tx[s], i) = Asked(r, tx[s], moves[o], i)
      /\ Restores(r.op) /\ ~tx[s].claim => n = m
  BY <1>0, CommitMoved, AtWork
<1>2. r.want[i] \in Nat /\ r.seen[i] \in Nat
  BY <1>0, AtWork
<1>3. CASE Restores(r.op) /\ tx[s].claim
  <2>1. m.back = 0
    BY <1>0, <1>1, <1>3 DEF IInv, ClaimInv, RestoredAtMostOnce
  <2>2. Asked(r, tx[s], moves[o], i) = -m.out
    BY <1>3 DEF Asked
  <2> HIDE DEF m, n
  <2>3. n.out + n.back = 0
    BY <1>1, <2>1, <2>2
  <2> QED
    BY <1>1, <1>3, <2>3 DEF Net, NetAfter, m, n
<1>4. CASE Restores(r.op) /\ ~tx[s].claim
  BY <1>1, <1>4 DEF Net, NetAfter
<1>5. CASE ~Restores(r.op)
  <2>1. Asked(r, tx[s], moves[o], i) = r.seen[i] - r.want[i]
    BY <1>5 DEF Asked
  <2> HIDE DEF m, n
  <2>2. n.out + n.back = m.out + m.back + r.seen[i] - r.want[i]
    BY <1>1, <1>2, <2>1
  <2> QED
    BY <1>1, <1>5, <2>2 DEF Net, NetAfter, m, n
<1> QED
  BY <1>3, <1>4, <1>5

\* The ledger moves with the stock.
LEMMA CommitLedger ==
  ASSUME SerialInv, NEW s \in Session, Commit(s), TypeOK'
  PROVE  LedgerBalances'
<1> USE DEF SerialInv
<1>1. Balanced(stock, moves)
  BY LedgerIs DEF Books, IInv
<1>2. PICK m, st : /\ m = moves' /\ m \in [Order -> [Tracked -> Move]]
                   /\ st = stock'
  BY DEF TypeOK
<1>3. PICK o : o = req[s].ord /\ o \in Order
  BY CommitRow
<1>c. ASSUME NEW i \in Tracked
      PROVE  /\ Did(tx[s], i) \in Int /\ st[i] = stock[i] + Did(tx[s], i)
             /\ m[o][i].out + m[o][i].back
                  = moves[o][i].out + moves[o][i].back + Did(tx[s], i)
  <2>1. LET a == moves[req[s].ord][i]
            b == moves'[req[s].ord][i]
        IN /\ Did(tx[s], i) \in Int /\ stock'[i] = stock[i] + Did(tx[s], i)
           /\ b.out + b.back = a.out + a.back + Did(tx[s], i)
    BY CommitMoved
  <2> QED
    BY <1>2, <1>3, <2>1
<1>4. ASSUME NEW i \in Tracked PROVE st[i] = InitStock[i] + Total(Order, NetOf(m, i))
  <2>1. PICK w, v, d : w = NetOf(moves, i) /\ v = NetOf(m, i) /\ d = Did(tx[s], i)
    OBVIOUS
  <2>2. w \in [Order -> Int] /\ v \in [Order -> Int]
    BY <1>2, <2>1, NetOfType DEF IInv, TypeOK
  <2>3. d \in Int /\ st[i] = stock[i] + d /\ v[o] = w[o] + d
    <3>1. /\ d \in Int /\ st[i] = stock[i] + d
          /\ m[o][i].out + m[o][i].back = moves[o][i].out + moves[o][i].back + d
      BY <1>c, <2>1
    <3> QED
      BY <1>3, <2>1, <3>1 DEF NetOf
  <2>4. \A p \in Order \ {o} : v[p] = w[p]
    <3>1. \A p \in Order \ {o} : m[p] = moves[p]
      BY <1>2, <1>3, OrderChange DEF Step
    <3> QED
      BY <2>1, <3>1 DEF NetOf
  <2>5. Total(Order, v) = v[o] + Total(Order, w) - w[o]
    <3>1. \A p \in Order : w[p] \in Int
      BY <2>2
    <3>2. \A p \in Order : v[p] \in Int
      BY <2>2
    <3>3. IsFiniteSet(Order) /\ o \in Order
      BY <1>3, OrderAssumption
    <3> HIDE DEF SerialInv
    <3> QED
      BY <2>4, <3>1, <3>2, <3>3, TotalChanged
  <2>6. Total(Order, w) \in Int
    <3>1. \A p \in Order : w[p] \in Int
      BY <2>2
    <3> QED
      BY <3>1, OrderAssumption, TotalInt
  <2>7. stock[i] = InitStock[i] + Total(Order, w) /\ InitStock[i] \in Int
    BY <1>1, <2>1, StockAssumption DEF Balanced
  <2>8. v[o] \in Int /\ w[o] \in Int
    BY <1>3, <2>2
  <2>9. st[i] = InitStock[i] + Total(Order, v)
    BY <2>3, <2>5, <2>6, <2>7, <2>8
  <2> QED
    BY <2>1, <2>9
<1> QED
  BY <1>2, <1>4, LedgerIsAfter DEF Balanced

LEMMA BooksCommit ==
  ASSUME SerialInv, NEW s \in Session, Commit(s), TypeOK'
  PROVE  Books'
<1> USE DEF SerialInv
<1> DEFINE r == req[s]
           o == req[s].ord
<1>1. \A p \in Order : p # o => /\ order'[p] = order[p] /\ moves'[p] = moves[p]
                                /\ lines'[p] = lines[p]
  <2>1. \A p \in Order : p # o => lines'[p] = lines[p]
    BY DEF Commit, IInv, TypeOK
  <2> QED
    BY <2>1, OrderChange DEF Step
<1>2. o \in Order /\ order'[o].status # "NONE"
  BY CommitRow
<1>3. \A i \in Plenty : i \in Tracked /\ i \in Item
  BY TrackedAssumption DEF Plenty
<1>4. ASSUME NEW p \in Order
      PROVE  /\ order'[p].status # "NONE" => order'[p].deducted
             /\ order'[p].status = "NONE" =>
                  lines'[p] = <<>> /\ \A i \in Tracked : NetAfter(p, i) = 0
             /\ order'[p].status = "CANCELLED" => order'[p].restored
             /\ order'[p].restored /\ ~order'[p].deleted => order'[p].status = "CANCELLED"
  <2>1. CASE p # o
    BY <1>1, <2>1 DEF Books, RowInv, Exists, Net, NetAfter
  <2>2. CASE p = o
    <3>1. order'[o].deducted /\ order'[o].status # "NONE"
      BY <1>2, CommitRow
    <3>2. order[o].status = "CANCELLED" => order[o].restored
      BY <1>2 DEF Books, RowInv
    <3>3. order[o].restored /\ ~order[o].deleted => order[o].status = "CANCELLED"
      BY <1>2 DEF Books, RowInv
    <3>4. order'[o].status = "CANCELLED" => order'[o].restored
      BY <3>2, CommitRow
    <3>5. order'[o].restored /\ ~order'[o].deleted => order'[o].status = "CANCELLED"
      BY <3>3, CommitRow
    <3> QED
      BY <2>2, <3>1, <3>4, <3>5
  <2> QED
    BY <2>1, <2>2
<1>5. RowInv'
  BY <1>4 DEF RowInv, Exists, Net, NetAfter
<1>6. ASSUME NEW p \in Order, NEW i \in Plenty
      PROVE  -NetAfter(p, i) <= QtyOf(lines'[p], i)
  <2>1. -Net(p, i) <= QtyOf(lines[p], i)
    BY DEF Books, HeldInv
  <2>2. CASE p # o
    BY <1>1, <2>1, <2>2 DEF Net, NetAfter
  <2>3. CASE p = o
    <3>1. PICK n, n1, q, q1 : n = Net(o, i) /\ n1 = NetAfter(o, i) /\ q = QtyOf(lines[o], i)
                              /\ q1 = QtyOf(lines'[o], i)
      OBVIOUS
    <3>2. /\ n \in Int
          /\ Restores(r.op) => n1 = 0 \/ n1 = n
          /\ ~Restores(r.op) => n1 = n + r.seen[i] - r.want[i]
      BY <3>1, CommitNet
    <3>3. /\ q \in Nat /\ r.want[i] \in Nat /\ r.seen[i] \in Nat
          /\ Restores(r.op) => q1 = q
          /\ ~Restores(r.op) => q1 = q - (r.seen[i] - r.want[i])
      BY <1>3, <3>1, CommitLines
    <3>4. -n <= q
      BY <2>1, <2>3, <3>1
    <3>5. -n1 <= q1
      <4> HIDE DEF r
      <4> QED
        BY <3>2, <3>3, <3>4
    <3> QED
      BY <2>3, <3>1, <3>5
  <2> QED
    BY <2>2, <2>3
<1>7. HeldInv'
  BY <1>6 DEF HeldInv, Plenty, Net, NetAfter
<1>8. ASSUME NEW p \in Order, order'[p].status # "NONE", ~order'[p].restored, NEW i \in Plenty
      PROVE  -NetAfter(p, i) = QtyOf(lines'[p], i)
  <2>1. CASE p # o
    BY <1>1, <1>8, <2>1 DEF Books, ReservedMatchesLines, Exists, Net, NetAfter
  <2>2. CASE p = o
    <3>1. PICK n, n1, q, q1 : n = Net(o, i) /\ n1 = NetAfter(o, i) /\ q = QtyOf(lines[o], i)
                              /\ q1 = QtyOf(lines'[o], i)
      OBVIOUS
    <3>2. ~Restores(r.op)
      BY <1>8, <2>2, CommitRow
    <3>3. n \in Int /\ n1 = n + r.seen[i] - r.want[i]
      BY <3>1, <3>2, CommitNet
    <3>4. /\ q \in Nat /\ r.want[i] \in Nat /\ r.seen[i] \in Nat
          /\ q1 = q - (r.seen[i] - r.want[i])
      BY <1>3, <3>1, <3>2, CommitLines
    <3>5. n + q = 0
      <4>1. CASE r.op = "create"
        <5>1. ~Exists(o)
          BY <4>1, CommitRow
        <5>2. n = 0 /\ lines[o] = <<>>
          BY <1>2, <1>3, <3>1, <5>1 DEF Books, RowInv
        <5>3. q = 0
          BY <3>1, <5>2, QtyNone
        <5>4. n = 0 /\ q = 0 /\ n \in Int /\ q \in Int
          BY <3>3, <3>4, <5>2, <5>3
        <5> HIDE DEF r, o, SerialInv
        <5> QED
          BY <5>4
      <4>2. CASE r.op # "create"
        <5>1. Exists(o) /\ ~order[o].restored
          BY <1>8, <2>2, <3>2, <4>2, CommitRow
        <5>2. -n = q
          BY <1>2, <3>1, <5>1 DEF Books, ReservedMatchesLines
        <5> HIDE DEF r, o, SerialInv
        <5> QED
          BY <3>3, <3>4, <5>2
      <4> QED
        BY <4>1, <4>2
    <3>6. -n1 = q1
      <4> HIDE DEF r
      <4> QED
        BY <3>3, <3>4, <3>5
    <3> QED
      BY <2>2, <3>1, <3>6
  <2> QED
    BY <2>1, <2>2
<1>9. ReservedMatchesLines'
  BY <1>8 DEF ReservedMatchesLines, Plenty, Exists, Net, NetAfter
<1>10. ASSUME NEW p \in Order, order'[p].status = "CANCELLED", ~order'[p].deleted,
              NEW i \in Plenty
       PROVE  NetAfter(p, i) = 0
  <2>1. CASE p # o
    BY <1>1, <1>10, <2>1 DEF Books, CancelledReturnsStock, Net, NetAfter
  <2>2. CASE p = o
    <3>1. Restores(r.op) /\ r.op # "delete"
      BY <1>10, <2>2, CommitRow
    <3>2. CASE tx[s].claim
      BY <2>2, <3>1, <3>2, CommitNet
    <3>3. CASE ~tx[s].claim
      <4>1. order[o].restored /\ ~order[o].deleted
        BY <1>10, <2>2, <3>1, <3>3, CommitRow
      <4>2. Net(o, i) = 0
        BY <1>2, <4>1 DEF Books, RowInv, CancelledReturnsStock
      <4> QED
        BY <2>2, <3>1, <3>3, <4>2, CommitNet
    <3> QED
      BY <3>2, <3>3
  <2> QED
    BY <2>1, <2>2
<1>11. CancelledReturnsStock'
  BY <1>10 DEF CancelledReturnsStock, Plenty, Net, NetAfter
<1> QED
  BY <1>5, <1>7, <1>9, <1>11, CommitLedger DEF Books

-----------------------------------------------------------------------------
(* The room for a line *)

\* An order whose lines and number of edits stay has the room it had.
LEMMA RoomKept ==
  ASSUME SerialInv, UNCHANGED <<lines, edits>>,
         \A o \in Order : (\E s \in Session : req'[s].ord = o /\ req'[s].op \in EditOps)
                            => Editing(o)
  PROVE  RoomInv'
<1>1. ASSUME NEW o \in Order, NEW i \in Item
      PROVE  /\ Editing(o) => edits > 0 /\ QtyOf(lines[o], i) <= Room(edits)
             /\ QtyOf(lines[o], i) <= Room(edits + 1)
  <2>1. edits \in Nat
    BY DEF SerialInv, IInv, TypeOK
  <2>2. Room(edits) \in Nat /\ Room(edits + 1) \in Nat /\ Room(edits) <= Room(edits + 1)
    <3>1. edits + 1 \in Nat /\ edits <= edits + 1
      BY <2>1
    <3> QED
      BY <2>1, <3>1, RoomIs
  <2>3. QtyOf(lines[o], i) \in Nat
    BY QtyIs DEF SerialInv, IInv, TypeOK
  <2>4. IF Editing(o) THEN edits > 0 /\ QtyOf(lines[o], i) <= Room(edits)
        ELSE QtyOf(lines[o], i) <= Room(edits + 1)
    BY DEF SerialInv, RoomInv
  <2> QED
    BY <2>2, <2>3, <2>4
<1> QED
  BY <1>1 DEF RoomInv, Editing

\* Nobody at work edits lines.
LEMMA NobodyEdits ==
  ASSUME NEW s \in Session, \A t \in Session \ {s} : req'[t] = Idle,
         req'[s].op \notin EditOps
  PROVE  \A o \in Order : ~\E t \in Session : req'[t].ord = o /\ req'[t].op \in EditOps
<1>1. Idle.op \notin EditOps
  BY DEF Idle, EditOps
<1> QED
  BY <1>1

\* A request to edit lines is counted when it is made.
LEMMA RoomRead ==
  ASSUME SerialInv, NEW s \in Session, Read(s), Alone
  PROVE  RoomInv'
<1> USE DEF SerialInv
<1>0. /\ \A t \in Session \ {s} : req[t] = Idle /\ req'[t] = Idle
      /\ req[s].phase = "idle"
  BY OthersIdle, ReadEffect DEF Step
<1>1. PICK op \in AllOps, o \in Order, row \in Nat, to \in Status,
           want \in [Item -> 0..MaxQty], seen \in [Item -> Nat] :
        ReadStep(s, op, o, row, to, want, seen)
  BY ReadIsReadStep DEF IInv
<1>2. Checked(s, op, o, row, to, want, seen)
  BY <1>1 DEF ReadStep
<1>3. req'[s].op = op /\ edits' = edits + (IF op \in EditOps THEN 1 ELSE 0)
      /\ lines' = lines
  <2>1. req'[s].op = op
    BY <1>2, CheckedRequest DEF IInv
  <2> QED
    BY <1>2, <2>1 DEF Checked
<1>4. edits \in Nat
  BY DEF IInv, TypeOK
<1>5. CASE op \notin EditOps
  <2>1. lines' = lines /\ edits' = edits
    BY <1>3, <1>4, <1>5
  <2> QED
    BY <1>0, <1>3, <1>5, <2>1, NobodyEdits, RoomKept
<1>6. CASE op \in EditOps
  <2>1. edits' = edits + 1 /\ edits' > 0 /\ edits' \in Nat /\ edits' + 1 \in Nat
        /\ edits' <= edits' + 1
    BY <1>3, <1>4, <1>6
  <2>2. PICK e : e = edits'
    OBVIOUS
  <2>3. Room(e) \in Nat /\ Room(e + 1) \in Nat /\ Room(e) <= Room(e + 1)
    BY <2>1, <2>2, RoomIs
  <2>4. ASSUME NEW p \in Order, NEW i \in Item
        PROVE  QtyOf(lines'[p], i) <= Room(e) /\ QtyOf(lines'[p], i) <= Room(e + 1)
    <3>1. ~Editing(p)
      <4>1. \A t \in Session : req[t] = Idle
        BY <1>0 DEF AloneInv
      <4>2. Idle.op \notin EditOps
        BY DEF Idle, EditOps
      <4> QED
        BY <4>1, <4>2 DEF Editing
    <3>2. QtyOf(lines[p], i) <= Room(e)
      BY <2>1, <2>2, <3>1 DEF RoomInv
    <3>3. QtyOf(lines[p], i) \in Nat
      BY QtyIs DEF IInv, TypeOK
    <3>4. QtyOf(lines[p], i) <= Room(e + 1)
      BY <2>3, <3>2, <3>3
    <3> QED
      BY <1>3, <3>2, <3>4
  <2> QED
    BY <2>1, <2>2, <2>4 DEF RoomInv
<1> QED
  BY <1>5, <1>6

\* A commit lets the lines of its order grow by what its request can ask for.
LEMMA RoomCommit ==
  ASSUME SerialInv, NEW s \in Session, Commit(s), Alone
  PROVE  RoomInv'
<1> USE DEF SerialInv
<1> DEFINE r == req[s]
           o == req[s].ord
<1>0. /\ \A t \in Session \ {s} : req'[t] = Idle
      /\ req'[s] = Idle /\ edits' = edits /\ o \in Order
      /\ \A p \in Order : p # o => lines'[p] = lines[p]
  <2>1. \A t \in Session \ {s} : req'[t] = Idle
    BY OthersIdle DEF Step
  <2>2. req'[s] = Idle
    BY RequestChange DEF Step
  <2>3. edits' = edits /\ \A p \in Order : p # o => lines'[p] = lines[p]
    BY DEF Commit, Finish, IInv, TypeOK
  <2> QED
    BY <2>1, <2>2, <2>3, CommitRow
<1>1. \A p \in Order : ~\E t \in Session : req'[t].ord = p /\ req'[t].op \in EditOps
  <2>1. req'[s].op \notin EditOps
    BY <1>0 DEF Idle, EditOps
  <2> QED
    BY <1>0, <2>1, NobodyEdits
<1>2. edits \in Nat
  BY DEF IInv, TypeOK
<1>3. /\ Room(edits) \in Nat /\ Room(edits + 1) = Room(edits) + MaxQty
      /\ Room(edits + 1) \in Nat /\ MaxQty \in Nat
  <2>1. edits + 1 \in Nat
    BY <1>2
  <2> QED
    BY <1>2, <2>1, RoomIs, BoundAssumption
<1>4. ASSUME NEW p \in Order, NEW i \in Item
      PROVE  /\ QtyOf(lines[p], i) <= Room(edits + 1)
             /\ Editing(p) => QtyOf(lines[p], i) <= Room(edits)
             /\ QtyOf(lines[p], i) \in Nat
  <2>1. QtyOf(lines[p], i) \in Nat
    BY QtyIs DEF IInv, TypeOK
  <2>2. IF Editing(p) THEN edits > 0 /\ QtyOf(lines[p], i) <= Room(edits)
        ELSE QtyOf(lines[p], i) <= Room(edits + 1)
    BY DEF RoomInv
  <2>3. MaxQty >= 0 /\ Room(edits + 1) >= Room(edits)
    <3> HIDE DEF SerialInv
    <3> QED
      BY <1>3
  <2> HIDE DEF SerialInv
  <2> QED
    BY <1>3, <2>1, <2>2, <2>3
<1>5. ASSUME NEW p \in Order, NEW i \in Item
      PROVE  QtyOf(lines'[p], i) <= Room(edits + 1)
  <2>1. CASE p # o
    BY <1>0, <1>4, <2>1
  <2>2. CASE p = o
    <3>1. /\ Restores(r.op) => QtyOf(lines'[o], i) = QtyOf(lines[o], i)
          /\ ~Restores(r.op) => /\ QtyOf(lines'[o], i) = QtyOf(lines[o], i) - (r.seen[i] - r.want[i])
                                /\ QtyOf(lines'[o], i) <= QtyOf(lines[o], i) + MaxQty
          /\ r.seen[i] \in Nat /\ r.want[i] \in Nat
      BY CommitLines
    <3>2. CASE Restores(r.op)
      BY <1>4, <2>2, <3>1, <3>2
    <3>3. CASE r.op \in EditOps
      <4>1. Editing(o)
        BY <3>3 DEF Editing
      <4>2. QtyOf(lines[o], i) <= Room(edits) /\ QtyOf(lines[o], i) \in Nat
        BY <1>0, <1>4, <4>1
      <4>3. ~Restores(r.op)
        BY <3>3 DEF Restores, EditOps
      <4>4. PICK q, q1 : q = QtyOf(lines[o], i) /\ q1 = QtyOf(lines'[o], i)
        OBVIOUS
      <4>5. q \in Nat /\ q1 = q - (r.seen[i] - r.want[i]) /\ q1 <= q + MaxQty
            /\ q <= Room(edits) /\ r.seen[i] \in Nat /\ r.want[i] \in Nat
        BY <3>1, <4>2, <4>3, <4>4
      <4>6. q1 <= Room(edits + 1)
        <5> HIDE DEF r, o, SerialInv
        <5> QED
          BY <1>3, <4>5
      <4> QED
        BY <2>2, <4>4, <4>6
    <3>4. CASE r.op = "create"
      <4>1. ~Exists(o)
        BY <3>4, CommitRow
      <4>2. lines[o] = <<>>
        BY <1>0, <4>1 DEF Books, RowInv
      <4>3. QtyOf(lines[o], i) = 0
        BY <4>2, QtyNone
      <4>4. ~Restores(r.op)
        BY <3>4 DEF Restores
      <4>5. PICK q, q1 : q = QtyOf(lines[o], i) /\ q1 = QtyOf(lines'[o], i)
        OBVIOUS
      <4>6. q = 0 /\ q1 = q - (r.seen[i] - r.want[i]) /\ q1 <= q + MaxQty
            /\ r.seen[i] \in Nat /\ r.want[i] \in Nat
        BY <3>1, <4>3, <4>4, <4>5
      <4>7. q1 <= Room(edits + 1)
        <5> HIDE DEF r, o, SerialInv
        <5> QED
          BY <1>3, <4>6
      <4> QED
        BY <2>2, <4>5, <4>7
    <3> QED
      <4>1. r.op \in EditOps \cup {"create", "cancel", "delete", "status"}
        BY AtWork DEF Commit
      <4> QED
        BY <3>2, <3>3, <3>4, <4>1 DEF Restores
  <2> QED
    BY <2>1, <2>2
<1> QED
  BY <1>0, <1>1, <1>5 DEF RoomInv, Editing

LEMMA RoomStep ==
  ASSUME SerialInv, NEW s \in Session, Step(s), Alone
  PROVE  RoomInv'
<1>0. \A t \in Session \ {s} : req[t] = Idle /\ req'[t] = Idle
  BY OthersIdle
<1>1. CASE WriteStatus(s) \/ Abort(s)
  <2>1. req'[s] = Idle
    BY <1>1, RequestChange DEF SerialInv
  <2>2. req'[s].op \notin EditOps
    BY <2>1 DEF Idle, EditOps
  <2>3. UNCHANGED <<lines, edits>>
    BY <1>1 DEF WriteStatus, Abort, Finish
  <2> QED
    BY <1>0, <2>2, <2>3, NobodyEdits, RoomKept
<1>2. CASE CreateOrder(s)
  <2>1. req'[s].op \notin EditOps
    BY <1>2, CreateRequest DEF EditOps
  <2>2. UNCHANGED <<lines, edits>>
    BY <1>2 DEF CreateOrder
  <2> QED
    BY <1>0, <2>1, <2>2, NobodyEdits, RoomKept
<1>3. CASE BeginTx(s) \/ ReadStock(s) \/ WriteStock(s)
  <2>1. req'[s].op = req[s].op /\ req'[s].ord = req[s].ord
    BY <1>3, BeginEffect, RequestChange DEF SerialInv
  <2>2. UNCHANGED <<lines, edits>>
    <3>1. CASE BeginTx(s)
      BY <3>1, BeginWork
    <3>2. CASE ReadStock(s) \/ WriteStock(s)
      BY <3>2 DEF ReadStock, WriteStock
    <3> QED
      BY <1>3, <3>1, <3>2
  <2>3. ASSUME NEW o \in Order, NEW t \in Session, req'[t].ord = o, req'[t].op \in EditOps
        PROVE  Editing(o)
    <3>1. req[t].ord = o /\ req[t].op \in EditOps
      BY <1>0, <2>1, <2>3
    <3> QED
      BY <3>1 DEF Editing
  <2> QED
    BY <2>2, <2>3, RoomKept
<1> QED
  BY <1>1, <1>2, <1>3, RoomRead, RoomCommit DEF Step

-----------------------------------------------------------------------------
(* Requests served one after the other keep the stock exact *)

LEMMA BooksStep ==
  ASSUME SerialInv, NEW s \in Session, Step(s), TypeOK'
  PROVE  Books'
<1>1. CASE BeginTx(s)
  <2>1. UNCHANGED <<stock, order, lines, moves>>
    BY <1>1, BeginWork
  <2> QED
    BY <2>1, BooksQuiet
<1>2. CASE Read(s)
  <2>1. UNCHANGED <<stock, order, lines, moves>>
    BY <1>2, ReadIsReadStep DEF ReadStep, Checked, SerialInv, IInv
  <2> QED
    BY <2>1, BooksQuiet
<1>3. CASE CreateOrder(s) \/ ReadStock(s) \/ WriteStock(s) \/ Abort(s)
  <2>1. UNCHANGED <<stock, order, lines, moves>>
    BY <1>3 DEF CreateOrder, ReadStock, WriteStock, Abort
  <2> QED
    BY <2>1, BooksQuiet
<1> QED
  BY <1>1, <1>2, <1>3, BooksStatus, BooksCommit DEF Step

LEMMA SerialInvStep ==
  ASSUME SerialInv, NEW s \in Session, Step(s), Alone
  PROVE  SerialInv'
<1>1. IInv' /\ TypeOK'
  <2>1. Next
    BY DEF Step, Next
  <2> QED
    BY <2>1, InvNext DEF SerialInv, IInv
<1> QED
  BY <1>1, AloneStep, WorkStep, FoundStep, RoomStep, BooksStep DEF SerialInv

LEMMA SerialStart ==
  ASSUME Init
  PROVE  SerialInv
<1>1. IInv
  BY InitInv
<1>2. AloneInv /\ WorkInv /\ FoundInv
  BY DEF Init, AloneInv, WorkInv, FoundInv, Open, Idle
<1>3. \A o \in Order, i \in Tracked : Net(o, i) = 0
  BY DEF Init, Net
<1>4. \A o \in Order : lines[o] = <<>> /\ ~Exists(o) /\ order[o].status # "CANCELLED"
                       /\ ~order[o].restored
  BY DEF Init, Exists, NoRow
<1>5. RowInv /\ ReservedMatchesLines /\ CancelledReturnsStock
  BY <1>3, <1>4 DEF RowInv, ReservedMatchesLines, CancelledReturnsStock
<1>6. \A i : QtyOf(<<>>, i) = 0
  BY QtyNone
<1>7. HeldInv
  <2>1. ASSUME NEW o \in Order, NEW i \in Plenty PROVE -Net(o, i) <= QtyOf(lines[o], i)
    <3>1. PICK n, q : n = Net(o, i) /\ q = QtyOf(lines[o], i)
      OBVIOUS
    <3>2. n = 0 /\ q = 0
      BY <1>3, <1>4, <1>6, <3>1 DEF Plenty
    <3>3. -n <= q
      BY <3>2
    <3> QED
      BY <3>1, <3>3
  <2> QED
    BY <2>1 DEF HeldInv
<1>8. RoomInv
  <2>1. edits = 0 /\ Room(0 + 1) \in Nat /\ 0 + 1 = 1
    <3>1. 0 + 1 \in Nat
      OBVIOUS
    <3> QED
      BY <3>1, RoomIs DEF Init
  <2>2. \A o \in Order : ~Editing(o)
    BY DEF Init, Editing, Idle, EditOps
  <2> QED
    BY <1>4, <1>6, <2>1, <2>2 DEF RoomInv
<1>9. LedgerBalances
  <2>1. ASSUME NEW i \in Tracked PROVE stock[i] = InitStock[i] + Total(Order, NetOf(moves, i))
    <3>1. \A o \in Order : NetOf(moves, i)[o] = 0
      BY <1>3 DEF NetOf, Net
    <3>2. Total(Order, NetOf(moves, i)) = 0
      BY <3>1, OrderAssumption, TotalZero
    <3>3. stock[i] = InitStock[i] /\ InitStock[i] \in Int
      BY StockAssumption DEF Init
    <3> QED
      BY <3>2, <3>3
  <2> QED
    BY <1>1, <2>1, LedgerIs DEF Balanced, IInv
<1> QED
  BY <1>1, <1>2, <1>5, <1>7, <1>8, <1>9 DEF SerialInv, Books

LEMMA SerialStutters ==
  ASSUME SerialInv, UNCHANGED vars
  PROVE  SerialInv'
<1> USE DEF SerialInv
<1>1. TypeOK' /\ IInv'
  BY InvNext DEF IInv
<1>2. UNCHANGED <<stock, order, lines, moves, req, tx, edits>>
  BY DEF vars
<1>3. Books'
  BY <1>1, <1>2, BooksQuiet
<1>4. AloneInv' /\ WorkInv' /\ FoundInv'
  BY <1>2 DEF AloneInv, WorkInv, FoundInv, Open
<1>5. RoomInv'
  BY <1>2 DEF RoomInv, Editing
<1> QED
  BY <1>1, <1>3, <1>4, <1>5

LEMMA SerialStep ==
  ASSUME mix = "serial" => SerialInv, [MCNext]_<<vars, mix>>
  PROVE  (mix = "serial" => SerialInv)'
<1>1. CASE MCNext /\ mix = "serial"
  <2>1. Alone /\ \E s \in Session : Step(s)
    BY <1>1 DEF MCNext, Serial, Alone, Next, Step
  <2> QED
    BY <1>1, <2>1, SerialInvStep
<1>2. CASE MCNext /\ mix # "serial"
  BY <1>2 DEF MCNext
<1>3. CASE UNCHANGED <<vars, mix>>
  BY <1>3, SerialStutters
<1> QED
  BY <1>1, <1>2, <1>3

\* Requests served one after the other, for any orders, items, quantities and number
\* of edits, and wherever a request is cut short: stock and movements account for
\* every piece, a live order has reserved what its lines say of an item that never
\* runs out, and a cancelled one that nobody deleted has given it all back.
THEOREM SerialIsExactAlways == MCSpec => []SerialIsExact
<1>1. MCInit => (mix = "serial" => SerialInv)
  BY SerialStart DEF MCInit
<1>2. (mix = "serial" => SerialInv) /\ [MCNext]_<<vars, mix>> => (mix = "serial" => SerialInv)'
  BY SerialStep
<1>3. (mix = "serial" => SerialInv) => SerialIsExact
  BY DEF SerialInv, Books, SerialIsExact
<1> QED
  BY <1>1, <1>2, <1>3, PTL DEF MCSpec

=============================================================================
