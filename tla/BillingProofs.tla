---------------------------- MODULE BillingProofs ---------------------------
(****************************************************************************)
(* Theorems of Billing and of Discounts, the money of an order.             *)
(*                                                                          *)
(* Billing: its type invariant, that a bill never shows more paid than was  *)
(* received, that one-click payment takes the money of an order once, and   *)
(* that an order with a live bill is completed unless a handler that looks  *)
(* at no bill reopened it.                                                  *)
(*                                                                          *)
(* Discounts: that the uses of a promotion are counted. A use is claimed by *)
(* an update under a condition and given back by another: the invariant says*)
(* what each open transaction still holds of the limit that it read, and    *)
(* which rows it has to itself. And that orders show the discounts they     *)
(* have: the invariant says what a request that is alone on its order has   *)
(* read of it.                                                              *)
(*                                                                          *)
(* MCDiscounts: that requests served one after the other keep bills exact   *)
(* and leave the totals of settled ones alone.                              *)
(****************************************************************************)
EXTENDS MCDiscounts, Sums, FiniteSetTheorems, WellFoundedInduction, TLAPS

-----------------------------------------------------------------------------
(* Bills: the inductive invariants *)

\* A session at work has an operation and an order, and the number it drew is
\* a bill's.
SessionInv ==
  \A s \in Session :
    /\ req[s].phase # "idle" => req[s].ord \in Order /\ req[s].op \in Ops
    /\ req[s].phase = "numbered" => req[s].no # 0

\* What a payment read of its bill, and what it has received itself, has been
\* received.
SeenInv ==
  \A s \in Session :
    /\ req[s].phase = "checked" /\ req[s].op \in {"pay", "split"}
         => req[s].paid <= received[req[s].ord]
    /\ req[s].phase \in {"inserted", "named"} /\ req[s].op = "pay"
         => req[s].paid + req[s].amt <= received[req[s].ord]

BInv == TypeOK /\ SessionInv
CInv == BInv /\ SeenInv /\ CreditIsReceived

\* The instances with exact amounts, one-click payment and cancels only.
CollectOnly == Ops \subseteq {"collect", "cancelOrder", "complete"} /\ Slack = 0

\* A collect at work pays its grand total for an order that had no bill.
ExactInv ==
  \A s \in Session :
    req[s].phase \in {"ordered", "checked", "numbered"} /\ req[s].op = "collect"
      => req[s].amt = req[s].grand

FreshInv ==
  /\ \A s \in Session : req[s].phase = "checked" => ~req[s].had
  /\ \A o \in Order : ~bill[o].cancelled /\ (~HasBill(o) => received[o] = 0)

OInv == BInv /\ ExactInv /\ FreshInv /\ CollectedOnce

\* A createBill at work found its order completed; the order is, unless it got
\* a bill meanwhile or was taken away.  A cancelBill at work has a bill.
BillableInv ==
  \A s \in Session :
    /\ /\ req[s].phase \in {"ordered", "checked", "numbered"}
       /\ req[s].op = "bill"
       /\ req[s].status = "COMPLETED"
       => \/ HasBill(req[s].ord) \/ req[s].ord \in loose
          \/ order[req[s].ord].status = "COMPLETED"
    /\ req[s].phase \in {"checked", "numbered"} /\ req[s].op = "bill"
       => req[s].status = "COMPLETED"
    /\ req[s].phase = "checked" /\ req[s].op = "cancelBill"
       => HasBill(req[s].ord)

LInv == BInv /\ BillableInv /\ LiveBillMeansCompleted

-----------------------------------------------------------------------------
(* Numbers and amounts *)

LEMMA MaxExists ==
  ASSUME NEW S, IsFiniteSet(S), S \subseteq Nat, S # {}
  PROVE  Max(S) \in S
<1> DEFINE Above(x) == {y \in S : y > x}
           T == {Above(x) : x \in S}
<1>1. IsWellFoundedOn(StrictSubsetOrdering(S), FiniteSubsetsOf(S))
  BY FS_StrictSubsetOrderingWellFounded
<1>2. T \subseteq FiniteSubsetsOf(S) /\ T # {}
  <2>1. FiniteSubsetsOf(S) = SUBSET S
    BY FS_FiniteSubsetsOfFinite
  <2>2. T \subseteq SUBSET S
    OBVIOUS
  <2>3. T # {}
    OBVIOUS
  <2> QED
    BY <2>1, <2>2, <2>3
<1>3. PICK A \in T : \A B \in T : <<B, A>> \notin StrictSubsetOrdering(S)
  <2> HIDE DEF T
  <2> QED
    BY <1>1, <1>2, WFMin
<1>4. PICK x \in S : A = Above(x)
  OBVIOUS
<1>5. \A y \in S : x >= y
  <2> SUFFICES ASSUME NEW y \in S, y > x
               PROVE  FALSE
    OBVIOUS
  <2>1. x \in Nat /\ y \in Nat
    OBVIOUS
  <2>2. \A z \in S : z \in Nat /\ (z > y => z > x)
    BY <2>1
  <2>3. y \in Above(x) /\ y \notin Above(y)
    BY <2>1
  <2>4. Above(y) \subseteq Above(x)
    BY <2>2
  <2>5. <<Above(y), Above(x)>> \in StrictSubsetOrdering(S)
    BY <2>3, <2>4 DEF StrictSubsetOrdering
  <2> QED
    BY <2>5, <1>3, <1>4
<1> QED
  BY <1>5 DEF Max

LEMMA NextNumberType ==
  ASSUME bill \in [Order -> BillRow]
  PROVE  NextNumber \in Nat \ {0}
<1> DEFINE S == {bill[o].no : o \in Order}
           f == [o \in Order |-> bill[o].no]
<1>1. IsFiniteSet(S)
  <2>1. f \in Surjection(Order, S)
    BY DEF Surjection
  <2> QED
    BY <2>1, FS_Surjection, OrderAssumption
<1>2. IsFiniteSet(S \cup {0})
  BY <1>1, FS_AddElement
<1>3. S \cup {0} \subseteq Nat
  BY DEF BillRow
<1>4. Max(S \cup {0}) \in Nat
  <2> HIDE DEF S
  <2> QED
    BY <1>2, <1>3, MaxExists
<1> QED
  BY <1>4 DEF NextNumber

LEMMA DiscountedType ==
  ASSUME NEW sub \in Nat, NEW d \in Discounts
  PROVE  Discounted(sub, d) \in Nat
BY AmountAssumption DEF Discounted, AtLeastZero

\* What a session is given to go on with keeps the types of its request.
LEMMA AnswerStep ==
  ASSUME BInv, NEW s \in Session, NEW r \in Request, Answer(s, r),
         r.phase # "idle" => r.ord \in Order /\ r.op \in Ops,
         r.phase = "numbered" => r.no # 0
  PROVE  req' \in [Session -> Request] /\ SessionInv'
<1>1. req' \in [Session -> Request]
  BY DEF Answer, BInv, TypeOK
<1>2. \A t \in Session : req'[t] = IF t = s THEN r ELSE req[t]
  BY DEF Answer, BInv, TypeOK
<1> QED
  BY <1>1, <1>2 DEF BInv, SessionInv

LEMMA FinishStep ==
  ASSUME BInv, NEW s \in Session, Finish(s)
  PROVE  req' \in [Session -> Request] /\ SessionInv'
<1>1. Idle \in Request
  BY DEF Idle, Request, Phase
<1>2. Idle.phase = "idle"
  BY DEF Idle
<1>3. Answer(s, Idle)
  BY DEF Finish
<1> QED
  BY <1>1, <1>2, <1>3, AnswerStep

\* A request at work, field by field.
LEMMA RequestFields ==
  ASSUME BInv, NEW s \in Session
  PROVE  /\ req[s] \in Request
         /\ req[s].phase # "idle" => req[s].ord \in Order /\ req[s].op \in Ops
         /\ req[s].phase = "numbered" => req[s].no # 0
BY DEF BInv, TypeOK, SessionInv

LEMMA AnswerValue ==
  ASSUME BInv, NEW s \in Session, NEW r, Answer(s, r)
  PROVE  req'[s] = r /\ \A t \in Session : t # s => req'[t] = req[t]
BY DEF Answer, BInv, TypeOK

\* What the handlers write to a bill is a bill.
LEMMA SettleType ==
  ASSUME NEW row \in BillRow, NEW paid \in Nat, NEW grand \in Nat
  PROVE  Settle(row, paid, grand) \in BillRow
BY DEF Settle, BillRow

LEMMA WriteBill ==
  ASSUME BInv, NEW o \in Order, NEW row \in BillRow,
         bill' = [bill EXCEPT ![o] = row]
  PROVE  bill' \in [Order -> BillRow]
BY DEF BInv, TypeOK

\* A group that is closed only takes rows away, and no other order is loosened.
LEMMA ReleaseType ==
  ASSUME NEW o \in Order, Release(o)
  PROVE  merged' \subseteq merged
BY DEF Release

LEMMA LoosenedType ==
  ASSUME NEW o \in Order
  PROVE  Loosened(o) \subseteq {o}
BY DEF Loosened

\* What collectPayment leaves of the groups and of the orders it left open.
LEMMA CollectMarks ==
  ASSUME BInv, NEW s \in Session, NEW no, Collect(s, no), req[s].ord \in Order
  PROVE  merged' \subseteq Order \X Order /\ loose' \subseteq Order
<1>1. merged' \subseteq merged
  BY ReleaseType DEF Collect
<1>2. loose' \subseteq loose \cup {req[s].ord}
  BY DEF Collect
<1> QED
  BY <1>1, <1>2 DEF BInv, TypeOK

\* Every step of every handler keeps the types.
LEMMA BaseStep ==
  ASSUME BInv, [Next]_vars
  PROVE  BInv'
<1>d. /\ \A o \in Order, d \in Discounts :
           /\ Discounted(order[o].total, d) \in Nat
           /\ Discounted(bill[o].sub, d) + bill[o].extra \in Nat
           /\ \A c \in Charges : c \in Nat /\ Discounted(order[o].total, d) + c \in Nat
      /\ \A t \in Totals, d \in Discounts : Discounted(t, d) \in Nat
  <2>1. /\ \A o \in Order : order[o].total \in Nat /\ bill[o].sub \in Nat
                              /\ bill[o].extra \in Nat
        /\ \A c \in Charges : c \in Nat
        /\ \A t \in Totals : t \in Nat
    BY AmountAssumption DEF BInv, TypeOK, OrderRow, BillRow
  <2>2. /\ \A o \in Order, d \in Discounts : Discounted(order[o].total, d) \in Nat
        /\ \A o \in Order, d \in Discounts : Discounted(bill[o].sub, d) \in Nat
        /\ \A t \in Totals, d \in Discounts : Discounted(t, d) \in Nat
    BY <2>1, DiscountedType
  <2> QED
    BY <2>1, <2>2
<1>1. CASE UNCHANGED vars
  BY <1>1 DEF vars, BInv, TypeOK, SessionInv
<1>2. ASSUME NEW s \in Session, CollectReadOrder(s)
      PROVE  BInv'
  <2>1. PICK o \in Order, d \in Discounts, c \in Charges, amt \in 0..MaxReceived :
          Answer(s, [Idle EXCEPT !.phase = "ordered", !.op = "collect",
             !.ord = o, !.sub = order[o].total, !.extra = c,
             !.grand = Discounted(order[o].total, d) + c, !.amt = amt])
    BY <1>2 DEF CollectReadOrder
  <2>2. /\ "collect" \in Ops /\ "collect" \in AllOps
         /\ amt \in Nat
         /\ order[o].total \in Nat /\ Discounted(order[o].total, d) + c \in Nat
         /\ c \in Nat
    <3>1. Discounted(order[o].total, d) + c \in Nat /\ c \in Nat
      BY <1>d
    <3>2. order[o].total \in Nat
      BY AmountAssumption DEF BInv, TypeOK, OrderRow
    <3>3. amt \in Nat
      BY AmountAssumption
    <3> QED
      BY <1>2, <3>1, <3>2, <3>3, OpsAssumption DEF CollectReadOrder, Serve
  <2>3. req' \in [Session -> Request] /\ SessionInv'
    BY <2>1, <2>2, AnswerStep DEF Idle, Request, Phase
  <2> QED
    BY <1>2, <2>3 DEF CollectReadOrder, BInv, TypeOK
<1>3. ASSUME NEW s \in Session, CollectReadBill(s)
      PROVE  BInv'
  <2>1. req[s] \in Request /\ req[s].ord \in Order /\ req[s].op \in Ops
    BY <1>3, RequestFields DEF CollectReadBill, At
  <2>2. req' \in [Session -> Request] /\ SessionInv'
    BY <1>3, <2>1, AnswerStep, ZenonT(60) DEF
        CollectReadBill, Request, Phase, BInv, TypeOK, BillRow, Live, HasBill
  <2> QED
    BY <1>3, <2>2 DEF CollectReadBill, BInv, TypeOK
<1>4. ASSUME NEW s \in Session, CollectNumber(s)
      PROVE  BInv'
  <2>1. req[s] \in Request /\ req[s].ord \in Order /\ req[s].op \in Ops
    BY <1>4, RequestFields DEF CollectNumber, At
  <2>2. req' \in [Session -> Request] /\ SessionInv'
    BY <1>4, <2>1, AnswerStep, NextNumberType DEF
        CollectNumber, Request, Phase, BInv, TypeOK, BillRow
  <2> QED
    BY <1>4, <2>2 DEF CollectNumber, BInv, TypeOK
<1>5. ASSUME NEW s \in Session, CollectInsert(s)
      PROVE  BInv'
  <2>1. req[s] \in Request /\ req[s].ord \in Order /\ req[s].op \in Ops
    BY <1>5, RequestFields DEF CollectInsert, At
  <2>2. req' \in [Session -> Request] /\ SessionInv'
    BY <1>5, <2>1, AnswerStep DEF
        CollectInsert, Collect, Request, Phase, BInv, TypeOK, BillRow
  <2>3. order' \in [Order -> OrderRow]
    BY <1>5, <2>1 DEF
        CollectInsert, Collect, OrderRow, Request, BInv, TypeOK
  <2>4. bill' \in [Order -> BillRow]
    <3> DEFINE row == [bill[req[s].ord] EXCEPT !.no = req[s].no, !.sub = req[s].sub,
            !.extra = req[s].extra, !.grand = req[s].grand, !.paid = req[s].amt,
            !.payment = IF req[s].amt >= req[s].grand THEN "PAID" ELSE "PARTIAL",
            !.status = IF req[s].amt >= req[s].grand THEN "PAID" ELSE "UNPAID"]
    <3>1. bill[req[s].ord] \in BillRow
      BY <2>1 DEF BInv, TypeOK
    <3>2. row \in BillRow
      BY <2>1, <3>1 DEF Request, BillRow
    <3>3. bill' = [bill EXCEPT ![req[s].ord] = row]
      BY <1>5, <2>1, <3>1 DEF CollectInsert, Collect, BInv, TypeOK, BillRow
    <3> HIDE DEF row
    <3> QED
      BY <2>1, <3>2, <3>3, WriteBill DEF BInv, TypeOK
  <2>5. received' \in [Order -> Nat]
    BY <1>5, <2>1 DEF
        CollectInsert, Collect, Request, BInv, TypeOK
  <2>6. merged' \subseteq Order \X Order /\ loose' \subseteq Order
    BY <1>5, <2>1, CollectMarks DEF CollectInsert
  <2> QED
    BY <1>5, <2>2, <2>3, <2>4, <2>5, <2>6 DEF CollectInsert, BInv, TypeOK
<1>6. ASSUME NEW s \in Session, CollectConflict(s)
      PROVE  BInv'
  <2>1. req[s] \in Request /\ req[s].ord \in Order /\ req[s].op \in Ops
    BY <1>6, RequestFields DEF CollectConflict, At
  <2>2. req' \in [Session -> Request] /\ SessionInv'
    BY <1>6, <2>1, AnswerStep DEF
        CollectConflict, Request, Phase, BInv, TypeOK, BillRow
  <2> QED
    BY <1>6, <2>2 DEF CollectConflict, BInv, TypeOK
<1>7. ASSUME NEW s \in Session, CollectUpdate(s)
      PROVE  BInv'
  <2>1. req[s] \in Request /\ req[s].ord \in Order /\ req[s].op \in Ops
    BY <1>7, RequestFields DEF CollectUpdate, At
  <2>2. req' \in [Session -> Request] /\ SessionInv'
    BY <1>7, <2>1, AnswerStep, ZenonT(60) DEF
        CollectUpdate, Collect, Request, Phase, BInv, TypeOK, BillRow
  <2>3. order' \in [Order -> OrderRow]
    BY <1>7, <2>1 DEF
        CollectUpdate, Collect, OrderRow, Request, BInv, TypeOK
  <2>4. bill' \in [Order -> BillRow]
    <3> DEFINE row == [bill[req[s].ord] EXCEPT !.no = bill[req[s].ord].no, !.sub = req[s].sub,
            !.extra = req[s].extra, !.grand = req[s].grand, !.paid = req[s].amt,
            !.payment = IF req[s].amt >= req[s].grand THEN "PAID" ELSE "PARTIAL",
            !.status = IF req[s].amt >= req[s].grand THEN "PAID" ELSE "UNPAID"]
    <3>1. bill[req[s].ord] \in BillRow
      BY <2>1 DEF BInv, TypeOK
    <3>2. row \in BillRow
      BY <2>1, <3>1 DEF Request, BillRow
    <3>3. bill' = [bill EXCEPT ![req[s].ord] = row]
      BY <1>7, <2>1, <3>1 DEF CollectUpdate, Collect, BInv, TypeOK, BillRow
    <3> HIDE DEF row
    <3> QED
      BY <2>1, <3>2, <3>3, WriteBill DEF BInv, TypeOK
  <2>5. received' \in [Order -> Nat]
    BY <1>7, <2>1 DEF
        CollectUpdate, Collect, Request, BInv, TypeOK
  <2>6. merged' \subseteq Order \X Order /\ loose' \subseteq Order
    BY <1>7, <2>1, CollectMarks DEF CollectUpdate
  <2> QED
    BY <1>7, <2>2, <2>3, <2>4, <2>5, <2>6 DEF CollectUpdate, BInv, TypeOK
<1>8. ASSUME NEW s \in Session, Answered(s)
      PROVE  BInv'
  <2>1. req' \in [Session -> Request] /\ SessionInv'
    BY <1>8, FinishStep DEF
        Answered
  <2> QED
    BY <1>8, <2>1 DEF Answered, BInv, TypeOK
<1>9. ASSUME NEW s \in Session, BillReadOrder(s)
      PROVE  BInv'
  <2>1. PICK o \in Order, d \in Discounts, c \in Charges :
          Answer(s, [Idle EXCEPT !.phase = "ordered", !.op = "bill", !.ord = o,
             !.status = order[o].status, !.sub = order[o].total, !.extra = c,
             !.grand = Discounted(order[o].total, d) + c])
    BY <1>9 DEF BillReadOrder
  <2>2. "bill" \in Ops /\ "bill" \in AllOps
    BY <1>9, OpsAssumption DEF BillReadOrder, Serve
  <2>3. /\ order[o].total \in Nat /\ order[o].status \in {"OPEN", "COMPLETED", "CANCELLED"}
        /\ Discounted(order[o].total, d) + c \in Nat /\ c \in Nat
    <3>1. Discounted(order[o].total, d) + c \in Nat /\ c \in Nat
      BY <1>d
    <3> QED
      BY <3>1, AmountAssumption DEF BInv, TypeOK, OrderRow
  <2>4. req' \in [Session -> Request] /\ SessionInv'
    BY <2>1, <2>2, <2>3, AnswerStep DEF Idle, Request, Phase
  <2> QED
    BY <1>9, <2>4 DEF BillReadOrder, BInv, TypeOK
<1>10. ASSUME NEW s \in Session, BillReadBill(s)
      PROVE  BInv'
  <2>1. req[s] \in Request /\ req[s].ord \in Order /\ req[s].op \in Ops
    BY <1>10, RequestFields DEF BillReadBill, At
  <2>2. req' \in [Session -> Request] /\ SessionInv'
    BY <1>10, <2>1, FinishStep, AnswerStep DEF
        BillReadBill, Request, Phase, BInv, TypeOK, BillRow
  <2> QED
    BY <1>10, <2>2 DEF BillReadBill, BInv, TypeOK
<1>11. ASSUME NEW s \in Session, BillNumber(s)
      PROVE  BInv'
  <2>1. req[s] \in Request /\ req[s].ord \in Order /\ req[s].op \in Ops
    BY <1>11, RequestFields DEF BillNumber, At
  <2>2. req' \in [Session -> Request] /\ SessionInv'
    BY <1>11, <2>1, AnswerStep, NextNumberType DEF
        BillNumber, Request, Phase, BInv, TypeOK, BillRow
  <2> QED
    BY <1>11, <2>2 DEF BillNumber, BInv, TypeOK
<1>12. ASSUME NEW s \in Session, BillInsert(s)
      PROVE  BInv'
  <2>1. req[s] \in Request /\ req[s].ord \in Order /\ req[s].op \in Ops
    BY <1>12, RequestFields DEF BillInsert, At
  <2>2. req' \in [Session -> Request] /\ SessionInv'
    BY <1>12, <2>1, FinishStep DEF
        BillInsert, NoBill
  <2>3. bill' \in [Order -> BillRow]
    BY <1>12, <2>1 DEF
        BillInsert, NoBill, BillRow, Request, BInv, TypeOK
  <2> QED
    BY <1>12, <2>2, <2>3 DEF BillInsert, BInv, TypeOK
<1>13. ASSUME NEW s \in Session, PayReadBill(s)
      PROVE  BInv'
  <2>1. PICK o \in Order, amt \in 1..MaxReceived :
          Answer(s, [Idle EXCEPT !.phase = "checked", !.op = "pay",
             !.ord = o, !.grand = bill[o].grand,
             !.paid = bill[o].paid, !.amt = amt])
    BY <1>13 DEF PayReadBill
  <2>2. /\ "pay" \in Ops /\ "pay" \in AllOps
         /\ amt \in Nat /\ bill[o].grand \in Nat /\ bill[o].paid \in Nat
    BY <1>13, <1>d, OpsAssumption, AmountAssumption DEF PayReadBill, Serve, BInv, TypeOK, OrderRow, BillRow
  <2>3. req' \in [Session -> Request] /\ SessionInv'
    BY <2>1, <2>2, AnswerStep DEF Idle, Request, Phase
  <2> QED
    BY <1>13, <2>3 DEF PayReadBill, BInv, TypeOK
<1>14. ASSUME NEW s \in Session, PayInsert(s)
      PROVE  BInv'
  <2>1. req[s] \in Request /\ req[s].ord \in Order /\ req[s].op \in Ops
    BY <1>14, RequestFields DEF PayInsert, At
  <2>2. req' \in [Session -> Request] /\ SessionInv'
    BY <1>14, <2>1, FinishStep, AnswerStep DEF
        PayInsert, Request, Phase, BInv, TypeOK, BillRow
  <2>3. received' \in [Order -> Nat]
    BY <1>14, <2>1 DEF
        PayInsert, Request, BInv, TypeOK
  <2>4. unnamed' \in Order \cup {NoOrder}
    BY <1>14, <2>1 DEF
        PayInsert, Request, BInv, TypeOK
  <2> QED
    BY <1>14, <2>2, <2>3, <2>4 DEF PayInsert, BInv, TypeOK
<1>15. ASSUME NEW s \in Session, PayName(s)
      PROVE  BInv'
  <2>1. req[s] \in Request /\ req[s].ord \in Order /\ req[s].op \in Ops
    BY <1>15, RequestFields DEF PayName, At
  <2>2. req' \in [Session -> Request] /\ SessionInv'
    BY <1>15, <2>1, AnswerStep DEF
        PayName, Request, Phase, BInv, TypeOK, BillRow
  <2>3. unnamed' \in Order \cup {NoOrder}
    BY <1>15, <2>1 DEF
        PayName, Request, BInv, TypeOK
  <2> QED
    BY <1>15, <2>2, <2>3 DEF PayName, BInv, TypeOK
<1>16. ASSUME NEW s \in Session, PayCredit(s)
      PROVE  BInv'
  <2>1. req[s] \in Request /\ req[s].ord \in Order /\ req[s].op \in Ops
    BY <1>16, RequestFields DEF PayCredit, At
  <2>2. req' \in [Session -> Request] /\ SessionInv'
    BY <1>16, <2>1, FinishStep DEF
        PayCredit, Settle
  <2>3. bill' \in [Order -> BillRow]
    <3> DEFINE row == Settle(bill[req[s].ord], req[s].paid + req[s].amt, req[s].grand)
    <3>1. bill[req[s].ord] \in BillRow
      BY <2>1 DEF BInv, TypeOK
    <3>2. row \in BillRow
      <4>1. req[s].paid + req[s].amt \in Nat /\ req[s].grand \in Nat
        BY <2>1 DEF Request
      <4> QED
        BY <3>1, <4>1, SettleType
    <3>3. bill' = [bill EXCEPT ![req[s].ord] = row]
      BY <1>16, <2>1, <3>1 DEF PayCredit, BInv, TypeOK
    <3> HIDE DEF row
    <3> QED
      BY <2>1, <3>2, <3>3, WriteBill DEF BInv, TypeOK
  <2> QED
    BY <1>16, <2>2, <2>3 DEF PayCredit, BInv, TypeOK
<1>17. ASSUME NEW s \in Session, SplitReadBill(s)
      PROVE  BInv'
  <2>1. PICK o \in Order, amt \in 2..MaxReceived :
          Answer(s, [Idle EXCEPT !.phase = "checked", !.op = "split",
             !.ord = o, !.grand = bill[o].grand,
             !.paid = bill[o].paid, !.amt = amt])
    BY <1>17 DEF SplitReadBill
  <2>2. /\ "split" \in Ops /\ "split" \in AllOps
         /\ amt \in Nat /\ bill[o].grand \in Nat /\ bill[o].paid \in Nat
    BY <1>17, <1>d, OpsAssumption, AmountAssumption DEF SplitReadBill, Serve, BInv, TypeOK, OrderRow, BillRow
  <2>3. req' \in [Session -> Request] /\ SessionInv'
    BY <2>1, <2>2, AnswerStep DEF Idle, Request, Phase
  <2> QED
    BY <1>17, <2>3 DEF SplitReadBill, BInv, TypeOK
<1>18. ASSUME NEW s \in Session, SplitCommit(s)
      PROVE  BInv'
  <2>1. req[s] \in Request /\ req[s].ord \in Order /\ req[s].op \in Ops
    BY <1>18, RequestFields DEF SplitCommit, At
  <2>2. req' \in [Session -> Request] /\ SessionInv'
    BY <1>18, <2>1, FinishStep DEF
        SplitCommit, Settle
  <2>3. bill' \in [Order -> BillRow]
    <3> DEFINE row == Settle(bill[req[s].ord], req[s].paid + req[s].amt, req[s].grand)
    <3>1. bill[req[s].ord] \in BillRow
      BY <2>1 DEF BInv, TypeOK
    <3>2. row \in BillRow
      <4>1. req[s].paid + req[s].amt \in Nat /\ req[s].grand \in Nat
        BY <2>1 DEF Request
      <4> QED
        BY <3>1, <4>1, SettleType
    <3>3. bill' = [bill EXCEPT ![req[s].ord] = row]
      BY <1>18, <2>1, <3>1 DEF SplitCommit, BInv, TypeOK
    <3> HIDE DEF row
    <3> QED
      BY <2>1, <3>2, <3>3, WriteBill DEF BInv, TypeOK
  <2>4. received' \in [Order -> Nat]
    BY <1>18, <2>1 DEF
        SplitCommit, Settle, Request, BInv, TypeOK
  <2> QED
    BY <1>18, <2>2, <2>3, <2>4 DEF SplitCommit, BInv, TypeOK
<1>19. ASSUME NEW s \in Session, DiscountReadBill(s)
      PROVE  BInv'
  <2>1. PICK o \in Order, d \in Discounts :
          Answer(s, [Idle EXCEPT !.phase = "checked", !.op = "discount",
             !.ord = o, !.grand = Discounted(bill[o].sub, d) + bill[o].extra])
    BY <1>19 DEF DiscountReadBill
  <2>2. "discount" \in Ops /\ "discount" \in AllOps
    BY <1>19, OpsAssumption DEF DiscountReadBill, Serve
  <2>3. Discounted(bill[o].sub, d) + bill[o].extra \in Nat
    BY <1>d
  <2>4. req' \in [Session -> Request] /\ SessionInv'
    BY <2>1, <2>2, <2>3, AnswerStep DEF Idle, Request, Phase
  <2> QED
    BY <1>19, <2>4 DEF DiscountReadBill, BInv, TypeOK
<1>20. ASSUME NEW s \in Session, DiscountWrite(s)
      PROVE  BInv'
  <2>1. req[s] \in Request /\ req[s].ord \in Order /\ req[s].op \in Ops
    BY <1>20, RequestFields DEF DiscountWrite, At
  <2>2. req' \in [Session -> Request] /\ SessionInv'
    BY <1>20, <2>1, FinishStep DEF
        DiscountWrite
  <2>3. bill' \in [Order -> BillRow]
    BY <1>20, <2>1, SMTT(30) DEF
        DiscountWrite, BillRow, Request, BInv, TypeOK
  <2> QED
    BY <1>20, <2>2, <2>3 DEF DiscountWrite, BInv, TypeOK
<1>21. ASSUME NEW s \in Session, CancelBillRead(s)
      PROVE  BInv'
  <2>1. req' \in [Session -> Request] /\ SessionInv'
    BY <1>21, AnswerStep, OpsAssumption, AmountAssumption DEF
        CancelBillRead, Serve, Idle, Request, Phase, BInv, TypeOK, BillRow,
        OrderRow
  <2> QED
    BY <1>21, <2>1 DEF CancelBillRead, BInv, TypeOK
<1>22. ASSUME NEW s \in Session, CancelBillCommit(s)
      PROVE  BInv'
  <2>1. req[s] \in Request /\ req[s].ord \in Order /\ req[s].op \in Ops
    BY <1>22, RequestFields DEF CancelBillCommit, At
  <2>2. req' \in [Session -> Request] /\ SessionInv'
    BY <1>22, <2>1, FinishStep DEF
        CancelBillCommit
  <2>3. bill' \in [Order -> BillRow]
    <3> DEFINE row == [bill[req[s].ord] EXCEPT !.status = "CANCELLED", !.cancelled = TRUE]
    <3>1. bill[req[s].ord] \in BillRow
      BY <2>1 DEF BInv, TypeOK
    <3>2. row \in BillRow
      BY <2>1, <3>1 DEF Request, BillRow
    <3>3. bill' = [bill EXCEPT ![req[s].ord] = row]
      BY <1>22, <2>1, <3>1 DEF CancelBillCommit, BInv, TypeOK, BillRow
    <3> HIDE DEF row
    <3> QED
      BY <2>1, <3>2, <3>3, WriteBill DEF BInv, TypeOK
  <2>4. order' \in [Order -> OrderRow]
    BY <1>22, <2>1 DEF
        CancelBillCommit, OrderRow, Request, BInv, TypeOK
  <2> QED
    BY <1>22, <2>2, <2>3, <2>4 DEF CancelBillCommit, BInv, TypeOK
<1>23. ASSUME NEW s \in Session, StatusRead(s)
      PROVE  BInv'
  <2>1. req' \in [Session -> Request] /\ SessionInv'
    BY <1>23, AnswerStep, OpsAssumption, AmountAssumption, ZenonT(60) DEF
        StatusRead, NewStatus, Serve, Idle, Request, Phase, BInv, TypeOK,
        BillRow, OrderRow
  <2> QED
    BY <1>23, <2>1 DEF StatusRead, BInv, TypeOK
<1>24. ASSUME NEW s \in Session, StatusWrite(s)
      PROVE  BInv'
  <2>1. req[s] \in Request /\ req[s].ord \in Order /\ req[s].op \in Ops
    BY <1>24, RequestFields DEF StatusWrite, At
  <2>2. req' \in [Session -> Request] /\ SessionInv'
    BY <1>24, <2>1, FinishStep DEF
        StatusWrite, NewStatus
  <2>3. order' \in [Order -> OrderRow]
    BY <1>24, <2>1 DEF
        StatusWrite, NewStatus, OrderRow, Request, BInv, TypeOK
  <2>4. loose' \subseteq Order
    BY <1>24, <2>1, LoosenedType DEF StatusWrite, BInv, TypeOK
  <2> QED
    BY <1>24, <2>2, <2>3, <2>4 DEF StatusWrite, BInv, TypeOK
<1>25. ASSUME NEW s \in Session, CancelOrderRead(s)
      PROVE  BInv'
  <2>1. req' \in [Session -> Request] /\ SessionInv'
    BY <1>25, AnswerStep, OpsAssumption, AmountAssumption DEF
        CancelOrderRead, Serve, Idle, Request, Phase, BInv, TypeOK, BillRow,
        OrderRow
  <2> QED
    BY <1>25, <2>1 DEF CancelOrderRead, BInv, TypeOK
<1>26. ASSUME NEW s \in Session, CancelOrderClaim(s)
      PROVE  BInv'
  <2>1. req[s] \in Request /\ req[s].ord \in Order /\ req[s].op \in Ops
    BY <1>26, RequestFields DEF CancelOrderClaim, At
  <2>2. req' \in [Session -> Request] /\ SessionInv'
    BY <1>26, <2>1, FinishStep DEF
        CancelOrderClaim
  <2>3. order' \in [Order -> OrderRow]
    BY <1>26, <2>1 DEF
        CancelOrderClaim, OrderRow, Request, BInv, TypeOK
  <2>4. merged' \subseteq Order \X Order
    BY <1>26, <2>1, ReleaseType DEF CancelOrderClaim, BInv, TypeOK
  <2> QED
    BY <1>26, <2>2, <2>3, <2>4 DEF CancelOrderClaim, BInv, TypeOK
<1>27. ASSUME NEW s \in Session, EditRead(s)
      PROVE  BInv'
  <2>1. req' \in [Session -> Request] /\ SessionInv'
    BY <1>27, AnswerStep, OpsAssumption, AmountAssumption DEF
        EditRead, Serve, Idle, Request, Phase, BInv, TypeOK, BillRow,
        OrderRow
  <2> QED
    BY <1>27, <2>1 DEF EditRead, BInv, TypeOK
<1>28. ASSUME NEW s \in Session, EditWrite(s)
      PROVE  BInv'
  <2>1. req[s] \in Request /\ req[s].ord \in Order /\ req[s].op \in Ops
    BY <1>28, RequestFields DEF EditWrite, At
  <2>2. req' \in [Session -> Request] /\ SessionInv'
    BY <1>28, <2>1, AnswerStep, <1>d, AmountAssumption DEF
        EditWrite, Request, Phase, BInv, TypeOK, BillRow, OrderRow
  <2>3. order' \in [Order -> OrderRow]
    BY <1>28, <2>1 DEF
        EditWrite, OrderRow, Request, BInv, TypeOK
  <2> QED
    BY <1>28, <2>2, <2>3 DEF EditWrite, BInv, TypeOK
<1>29. ASSUME NEW s \in Session, EditSync(s)
      PROVE  BInv'
  <2>1. req[s] \in Request /\ req[s].ord \in Order /\ req[s].op \in Ops
    BY <1>29, RequestFields DEF EditSync, At
  <2>2. req' \in [Session -> Request] /\ SessionInv'
    BY <1>29, <2>1, FinishStep DEF
        EditSync
  <2>3. bill' \in [Order -> BillRow]
    <3> DEFINE row == [bill[req[s].ord] EXCEPT !.sub = req[s].sub, !.grand = req[s].grand]
    <3>1. bill[req[s].ord] \in BillRow
      BY <2>1 DEF BInv, TypeOK
    <3>2. row \in BillRow
      BY <2>1, <3>1 DEF Request, BillRow
    <3>3. bill' = [bill EXCEPT ![req[s].ord] = row] \/ bill' = bill
      BY <1>29, <2>1, <3>1 DEF EditSync, BInv, TypeOK, BillRow
    <3> HIDE DEF row
    <3> QED
      BY <2>1, <3>2, <3>3, WriteBill DEF BInv, TypeOK
  <2> QED
    BY <1>29, <2>2, <2>3 DEF EditSync, BInv, TypeOK
<1>30. ASSUME NEW s \in Session, ReplaceRead(s)
      PROVE  BInv'
  <2>1. req' \in [Session -> Request] /\ SessionInv'
    BY <1>30, AnswerStep, OpsAssumption, AmountAssumption DEF
        ReplaceRead, Serve, Idle, Request, Phase, BInv, TypeOK, BillRow,
        OrderRow
  <2> QED
    BY <1>30, <2>1 DEF ReplaceRead, BInv, TypeOK
<1>31. ASSUME NEW s \in Session, ReplaceWrite(s)
      PROVE  BInv'
  <2>1. req[s] \in Request /\ req[s].ord \in Order /\ req[s].op \in Ops
    BY <1>31, RequestFields DEF ReplaceWrite, At
  <2>2. req' \in [Session -> Request] /\ SessionInv'
    BY <1>31, <2>1, FinishStep DEF
        ReplaceWrite
  <2>3. order' \in [Order -> OrderRow]
    BY <1>31, <2>1 DEF
        ReplaceWrite, OrderRow, Request, BInv, TypeOK
  <2> QED
    BY <1>31, <2>2, <2>3 DEF ReplaceWrite, BInv, TypeOK
<1>32. ASSUME NEW s \in Session, OrderDiscountRead(s)
      PROVE  BInv'
  <2>1. req' \in [Session -> Request] /\ SessionInv'
    BY <1>32, AnswerStep, <1>d, OpsAssumption, AmountAssumption DEF
        OrderDiscountRead, Serve, Idle, Request, Phase, BInv, TypeOK,
        BillRow, OrderRow
  <2> QED
    BY <1>32, <2>1 DEF OrderDiscountRead, BInv, TypeOK
<1>33. ASSUME NEW s \in Session, OrderDiscountSync(s)
      PROVE  BInv'
  <2>1. req[s] \in Request /\ req[s].ord \in Order /\ req[s].op \in Ops
    BY <1>33, RequestFields DEF OrderDiscountSync, At
  <2>2. req' \in [Session -> Request] /\ SessionInv'
    BY <1>33, <2>1, FinishStep DEF
        OrderDiscountSync
  <2>3. bill' \in [Order -> BillRow]
    <3> DEFINE row == [bill[req[s].ord] EXCEPT !.grand = req[s].grand]
    <3>1. bill[req[s].ord] \in BillRow
      BY <2>1 DEF BInv, TypeOK
    <3>2. row \in BillRow
      BY <2>1, <3>1 DEF Request, BillRow
    <3>3. bill' = [bill EXCEPT ![req[s].ord] = row] \/ bill' = bill
      BY <1>33, <2>1, <3>1 DEF OrderDiscountSync, BInv, TypeOK, BillRow
    <3> HIDE DEF row
    <3> QED
      BY <2>1, <3>2, <3>3, WriteBill DEF BInv, TypeOK
  <2> QED
    BY <1>33, <2>2, <2>3 DEF OrderDiscountSync, BInv, TypeOK
<1>34. ASSUME NEW s \in Session, Fail(s)
      PROVE  BInv'
  <2>1. req' \in [Session -> Request] /\ SessionInv'
    BY <1>34, FinishStep DEF
        Fail
  <2> QED
    BY <1>34, <2>1 DEF Fail, BInv, TypeOK
<1>35. ASSUME NEW s \in Session, HoldRead(s)
      PROVE  BInv'
  <2>1. req' \in [Session -> Request] /\ SessionInv'
    BY <1>35, AnswerStep, OpsAssumption, AmountAssumption DEF
        HoldRead, Serve, Idle, Request, Phase, BInv, TypeOK, BillRow,
        OrderRow
  <2> QED
    BY <1>35, <2>1 DEF HoldRead, BInv, TypeOK
<1>36. ASSUME NEW s \in Session, HoldWrite(s)
      PROVE  BInv'
  <2>1. req[s] \in Request /\ req[s].ord \in Order /\ req[s].op \in Ops
    BY <1>36, RequestFields DEF HoldWrite, At
  <2>2. req' \in [Session -> Request] /\ SessionInv'
    BY <1>36, <2>1, FinishStep DEF HoldWrite
  <2>3. order' \in [Order -> OrderRow]
    BY <1>36, <2>1 DEF HoldWrite, OrderRow, Request, BInv, TypeOK
  <2>4. loose' \subseteq Order
    BY <1>36, <2>1, LoosenedType DEF HoldWrite, BInv, TypeOK
  <2> QED
    BY <1>36, <2>2, <2>3, <2>4 DEF HoldWrite, BInv, TypeOK
<1>37. ASSUME NEW s \in Session, MergeRead(s)
      PROVE  BInv'
  <2>1. PICK o \in Order, p \in Order :
          Answer(s, [Idle EXCEPT !.phase = "ordered", !.op = "merge", !.ord = o,
                                 !.with = {p}])
    BY <1>37 DEF MergeRead
  <2>2. "merge" \in Ops /\ "merge" \in AllOps /\ {p} \in SUBSET Order
    BY <1>37, OpsAssumption DEF MergeRead, Serve
  <2>3. req' \in [Session -> Request] /\ SessionInv'
    BY <2>1, <2>2, AnswerStep DEF Idle, Request, Phase
  <2> QED
    BY <1>37, <2>3 DEF MergeRead, BInv, TypeOK
<1>38. ASSUME NEW s \in Session, MergeReadTarget(s)
      PROVE  BInv'
  <2>1. req[s] \in Request /\ req[s].ord \in Order /\ req[s].op \in Ops
    BY <1>38, RequestFields DEF MergeReadTarget, At
  <2>2. PICK p : \/ Answer(s, [req[s] EXCEPT !.phase = "checked", !.had = Groups(p) # {}])
                 \/ Finish(s)
    BY <1>38 DEF MergeReadTarget
  <2>3. req' \in [Session -> Request] /\ SessionInv'
    <3> DEFINE had == Groups(p) # {}
    <3>1. had \in BOOLEAN
      OBVIOUS
    <3>2. \/ Answer(s, [req[s] EXCEPT !.phase = "checked", !.had = had])
          \/ Finish(s)
      BY <2>2
    <3> HIDE DEF had
    <3> QED
      BY <2>1, <3>1, <3>2, FinishStep, AnswerStep DEF Request, Phase
  <2> QED
    BY <1>38, <2>3 DEF MergeReadTarget, BInv, TypeOK
<1>39. ASSUME NEW s \in Session, MergeCommit(s)
      PROVE  BInv'
  <2>1. req[s] \in Request /\ req[s].ord \in Order /\ req[s].op \in Ops
    BY <1>39, RequestFields DEF MergeCommit, At
  <2>2. req' \in [Session -> Request] /\ SessionInv'
    BY <1>39, <2>1, FinishStep DEF MergeCommit
  <2>3. PICK p \in req[s].with, total \in Totals :
          /\ order' = [order EXCEPT ![req[s].ord].status = "CANCELLED", ![p].total = total]
          /\ merged' = merged \/ merged' = merged \cup {<<req[s].ord, p>>}
    BY <1>39 DEF MergeCommit
  <2>4. p \in Order /\ loose' \subseteq Order
    BY <1>39, <2>1, LoosenedType DEF MergeCommit, Request, BInv, TypeOK
  <2>5. order' \in [Order -> OrderRow]
    BY <2>1, <2>3, <2>4 DEF OrderRow, BInv, TypeOK
  <2>6. merged' \subseteq Order \X Order
    BY <2>1, <2>3, <2>4 DEF BInv, TypeOK
  <2> QED
    BY <1>39, <2>2, <2>4, <2>5, <2>6 DEF MergeCommit, BInv, TypeOK
<1>40. ASSUME NEW s \in Session, UnmergeRead(s)
      PROVE  BInv'
  <2>1. PICK o \in Order, G \in SUBSET Order :
          /\ G \in Groups(o)
          /\ Answer(s, [Idle EXCEPT !.phase = "checked", !.op = "unmerge", !.ord = o,
                                    !.with = G])
    BY <1>40 DEF UnmergeRead, Groups
  <2>2. "unmerge" \in Ops /\ "unmerge" \in AllOps
    BY <1>40, OpsAssumption DEF UnmergeRead, Serve
  <2>3. req' \in [Session -> Request] /\ SessionInv'
    BY <2>1, <2>2, AnswerStep DEF Idle, Request, Phase
  <2> QED
    BY <1>40, <2>3 DEF UnmergeRead, BInv, TypeOK
<1>41. ASSUME NEW s \in Session, UnmergeCommit(s)
      PROVE  BInv'
  <2>1. req[s] \in Request /\ req[s].ord \in Order /\ req[s].op \in Ops
    BY <1>41, RequestFields DEF UnmergeCommit, At
  <2>2. req' \in [Session -> Request] /\ SessionInv'
    BY <1>41, <2>1, FinishStep DEF UnmergeCommit
  <2>3. order' \in [Order -> OrderRow] /\ merged' \subseteq Order \X Order
    BY <1>41 DEF UnmergeCommit, OrderRow, BInv, TypeOK
  <2>4. loose' \subseteq Order
    <3>1. req[s].with \subseteq Order
      BY <2>1 DEF Request
    <3>2. \A o \in req[s].with : Loosened(o) \subseteq Order
      BY <3>1, LoosenedType
    <3> QED
      BY <1>41, <3>2 DEF UnmergeCommit, BInv, TypeOK
  <2> QED
    BY <1>41, <2>2, <2>3, <2>4 DEF UnmergeCommit, BInv, TypeOK
<1> QED
  BY
      <1>1, <1>2, <1>3, <1>4, <1>5, <1>6, <1>7, <1>8, <1>9, <1>10, <1>11,
      <1>12, <1>13, <1>14, <1>15, <1>16, <1>17, <1>18, <1>19, <1>20, <1>21,
      <1>22, <1>23, <1>24, <1>25, <1>26, <1>27, <1>28, <1>29, <1>30, <1>31,
      <1>32, <1>33, <1>34,
      <1>35, <1>36, <1>37, <1>38, <1>39, <1>40, <1>41 DEF Next

\* A payment credits a bill only with what has been received.
LEMMA CreditStep ==
  ASSUME CInv, [Next]_vars
  PROVE  (SeenInv /\ CreditIsReceived)'
<1>1. CASE UNCHANGED vars
  BY <1>1 DEF
      vars, CInv, BInv, TypeOK, SessionInv, SeenInv, CreditIsReceived,
      BillRow, Request
<1>2. ASSUME NEW s \in Session, CollectReadOrder(s)
      PROVE  (SeenInv /\ CreditIsReceived)'
  BY <1>2 DEF
      CollectReadOrder, Answer, Finish, Serve, Idle, CInv, BInv, TypeOK,
      SessionInv, SeenInv, CreditIsReceived, BillRow, Request
<1>3. ASSUME NEW s \in Session, CollectReadBill(s)
      PROVE  (SeenInv /\ CreditIsReceived)'
  <2>1. req[s] \in Request /\ req[s].ord \in Order
    BY <1>3, RequestFields DEF CollectReadBill, At, CInv
  <2>2. /\ req[s].op = "collect" /\ req[s].phase = "ordered"
        /\ req'[s].op = "collect" /\ req'[s].ord = req[s].ord
        /\ req'[s].amt = req[s].amt /\ req'[s].grand = req[s].grand
        /\ req'[s].had \in BOOLEAN
        /\ req'[s].phase \in {"answered", "checked"}
        /\ req'[s].phase = "checked" =>
             /\ req'[s].had = Live(req[s].ord)
             /\ ~(Live(req[s].ord) /\ bill[req[s].ord].payment = "PAID")
    <3> DEFINE r1 == [req[s] EXCEPT !.phase = "answered", !.ans = "already"]
               r2 == [req[s] EXCEPT !.phase = "checked", !.had = Live(req[s].ord)]
    <3>1. \/ Answer(s, r1)
          \/ /\ Answer(s, r2)
             /\ ~(Live(req[s].ord) /\ bill[req[s].ord].payment = "PAID")
      BY <1>3 DEF CollectReadBill
    <3>2. /\ At(s, "collect", "ordered") /\ BInv
      BY <1>3 DEF CollectReadBill, CInv
    <3>3. \/ req'[s] = r1
          \/ /\ req'[s] = r2
             /\ ~(Live(req[s].ord) /\ bill[req[s].ord].payment = "PAID")
      BY <3>1, <3>2, AnswerValue
    <3>4. Live(req[s].ord) \in BOOLEAN
      BY DEF Live, HasBill
    <3> QED
      BY <2>1, <3>2, <3>3, <3>4 DEF At, Request
  <2>3. \A t \in Session : t # s => req'[t] = req[t]
    BY <1>3 DEF CollectReadBill, Answer, CInv, BInv, TypeOK
  <2>4. UNCHANGED <<order, bill, received>>
    BY <1>3 DEF CollectReadBill
  <2> QED
    BY <2>1, <2>2, <2>3, <2>4 DEF
        CInv, SeenInv, CreditIsReceived
<1>4. ASSUME NEW s \in Session, CollectNumber(s)
      PROVE  (SeenInv /\ CreditIsReceived)'
  BY <1>4 DEF
      CollectNumber, Answer, Finish, At, Idle, CInv, BInv, TypeOK,
      SessionInv, SeenInv, CreditIsReceived, BillRow, Request
<1>5. ASSUME NEW s \in Session, CollectInsert(s)
      PROVE  (SeenInv /\ CreditIsReceived)'
  BY <1>5 DEF
      CollectInsert, Collect, Answer, Finish, At, Insertable, Idle, CInv,
      BInv, TypeOK, SessionInv, SeenInv, CreditIsReceived, BillRow, Request
<1>6. ASSUME NEW s \in Session, CollectConflict(s)
      PROVE  (SeenInv /\ CreditIsReceived)'
  BY <1>6 DEF
      CollectConflict, Answer, Finish, At, Insertable, Idle, CInv, BInv,
      TypeOK, SessionInv, SeenInv, CreditIsReceived, BillRow, Request
<1>7. ASSUME NEW s \in Session, CollectUpdate(s)
      PROVE  (SeenInv /\ CreditIsReceived)'
  BY <1>7 DEF
      CollectUpdate, Collect, Answer, Finish, At, Idle, CInv, BInv, TypeOK,
      SessionInv, SeenInv, CreditIsReceived, BillRow, Request
<1>8. ASSUME NEW s \in Session, Answered(s)
      PROVE  (SeenInv /\ CreditIsReceived)'
  BY <1>8 DEF
      Answered, Answer, Finish, Idle, CInv, BInv, TypeOK, SessionInv,
      SeenInv, CreditIsReceived, BillRow, Request
<1>9. ASSUME NEW s \in Session, BillReadOrder(s)
      PROVE  (SeenInv /\ CreditIsReceived)'
  BY <1>9 DEF
      BillReadOrder, Answer, Finish, Serve, Idle, CInv, BInv, TypeOK,
      SessionInv, SeenInv, CreditIsReceived, BillRow, Request
<1>10. ASSUME NEW s \in Session, BillReadBill(s)
      PROVE  (SeenInv /\ CreditIsReceived)'
  BY <1>10 DEF
      BillReadBill, Answer, Finish, At, Live, HasBill, Idle, CInv, BInv,
      TypeOK, SessionInv, SeenInv, CreditIsReceived, BillRow, Request
<1>11. ASSUME NEW s \in Session, BillNumber(s)
      PROVE  (SeenInv /\ CreditIsReceived)'
  BY <1>11 DEF
      BillNumber, Answer, Finish, At, Idle, CInv, BInv, TypeOK, SessionInv,
      SeenInv, CreditIsReceived, BillRow, Request
<1>12. ASSUME NEW s \in Session, BillInsert(s)
      PROVE  (SeenInv /\ CreditIsReceived)'
  BY <1>12 DEF
      BillInsert, NoBill, Answer, Finish, At, Insertable, Idle, CInv, BInv,
      TypeOK, SessionInv, SeenInv, CreditIsReceived, BillRow, Request
<1>13. ASSUME NEW s \in Session, PayReadBill(s)
      PROVE  (SeenInv /\ CreditIsReceived)'
  BY <1>13 DEF
      PayReadBill, Answer, Finish, Serve, HasBill, Idle, CInv, BInv, TypeOK,
      SessionInv, SeenInv, CreditIsReceived, BillRow, Request
<1>14. ASSUME NEW s \in Session, PayInsert(s)
      PROVE  (SeenInv /\ CreditIsReceived)'
  <2>1. req[s] \in Request /\ req[s].ord \in Order /\ BInv
    BY <1>14, RequestFields DEF PayInsert, At, CInv
  <2>2. CASE unnamed = NoOrder
    <3> DEFINE r == [req[s] EXCEPT !.phase = "inserted"]
    <3>1. Answer(s, r) /\ At(s, "pay", "checked") /\ UNCHANGED <<order, bill>>
      BY <1>14, <2>2 DEF PayInsert
    <3>2. req'[s] = r /\ \A t \in Session : t # s => req'[t] = req[t]
      BY <2>1, <3>1, AnswerValue
    <3>3. /\ req'[s].phase = "inserted" /\ req'[s].op = "pay"
          /\ req'[s].ord = req[s].ord /\ req'[s].amt = req[s].amt
          /\ req'[s].paid = req[s].paid /\ req'[s].had = req[s].had
      BY <2>1, <3>1, <3>2 DEF At, Request
    <3>4. req[s].amt \in Nat /\ req[s].paid \in Nat /\ received \in [Order -> Nat]
      BY <2>1 DEF BInv, TypeOK, Request
    <3>5. /\ received'[req[s].ord] = received[req[s].ord] + req[s].amt
          /\ \A o \in Order : o # req[s].ord => received'[o] = received[o]
      BY <1>14, <2>1, <2>2, <3>4 DEF PayInsert
    <3>6. /\ bill' = bill /\ order' = order
          /\ req[s].op = "pay" /\ req[s].phase = "checked"
      BY <3>1 DEF At
    <3>7. \A o \in Order : received'[o] \in Nat /\ received'[o] >= received[o]
      BY <2>1, <3>4, <3>5
    <3> HIDE DEF r
    <3>8. \A t \in Session : req[t] \in Request /\ (req[t].phase # "idle" => req[t].ord \in Order)
      BY DEF CInv, BInv, TypeOK, SessionInv
    <3>9. CreditIsReceived'
      BY <3>4, <3>6, <3>7 DEF CInv, BInv, TypeOK, BillRow, CreditIsReceived
    <3>10. ASSUME NEW t \in Session, t # s
           PROVE  /\ req'[t].phase = "checked" /\ req'[t].op \in {"pay", "split"}
                       => req'[t].paid <= received'[req'[t].ord]
                  /\ req'[t].phase \in {"inserted", "named"} /\ req'[t].op = "pay"
                       => req'[t].paid + req'[t].amt <= received'[req'[t].ord]
      <4>1. req'[t] = req[t]
        BY <3>2, <3>10
      <4>2. req[t].paid \in Nat /\ req[t].amt \in Nat
        BY <3>8 DEF Request
      <4>3. req[t].phase # "idle" =>
              /\ received[req[t].ord] \in Nat /\ received'[req[t].ord] \in Nat
              /\ received'[req[t].ord] >= received[req[t].ord]
        BY <3>4, <3>7, <3>8
      <4> QED
        BY <4>1, <4>2, <4>3 DEF CInv, SeenInv
    <3>11. /\ req'[s].paid + req'[s].amt <= received'[req'[s].ord]
           /\ req'[s].phase # "checked"
      BY <2>1, <3>3, <3>4, <3>5, <3>6 DEF CInv, SeenInv
    <3> QED
      BY <3>9, <3>10, <3>11 DEF SeenInv
  <2>3. CASE unnamed # NoOrder
    <3>1. /\ req'[s] = Idle /\ \A t \in Session : t # s => req'[t] = req[t]
          /\ UNCHANGED <<order, bill, received>>
      BY <1>14, <2>1, <2>3, AnswerValue DEF PayInsert, Finish
    <3> QED
      BY <2>1, <3>1 DEF
          Idle, CInv, SeenInv, CreditIsReceived, BInv, TypeOK, BillRow,
          Request
  <2> QED
    BY <2>2, <2>3
<1>15. ASSUME NEW s \in Session, PayName(s)
      PROVE  (SeenInv /\ CreditIsReceived)'
  BY <1>15 DEF
      PayName, Answer, Finish, At, Idle, CInv, BInv, TypeOK, SessionInv,
      SeenInv, CreditIsReceived, BillRow, Request
<1>16. ASSUME NEW s \in Session, PayCredit(s)
      PROVE  (SeenInv /\ CreditIsReceived)'
  BY <1>16 DEF
      PayCredit, Settle, Answer, Finish, At, Idle, CInv, BInv, TypeOK,
      SessionInv, SeenInv, CreditIsReceived, BillRow, Request
<1>17. ASSUME NEW s \in Session, SplitReadBill(s)
      PROVE  (SeenInv /\ CreditIsReceived)'
  BY <1>17 DEF
      SplitReadBill, Answer, Finish, Serve, HasBill, Idle, CInv, BInv,
      TypeOK, SessionInv, SeenInv, CreditIsReceived, BillRow, Request
<1>18. ASSUME NEW s \in Session, SplitCommit(s)
      PROVE  (SeenInv /\ CreditIsReceived)'
  BY <1>18 DEF
      SplitCommit, Settle, Answer, Finish, At, Idle, CInv, BInv, TypeOK,
      SessionInv, SeenInv, CreditIsReceived, BillRow, Request
<1>19. ASSUME NEW s \in Session, DiscountReadBill(s)
      PROVE  (SeenInv /\ CreditIsReceived)'
  BY <1>19 DEF
      DiscountReadBill, Answer, Finish, Serve, Live, HasBill, Idle, CInv,
      BInv, TypeOK, SessionInv, SeenInv, CreditIsReceived, BillRow, Request
<1>20. ASSUME NEW s \in Session, DiscountWrite(s)
      PROVE  (SeenInv /\ CreditIsReceived)'
  BY <1>20 DEF
      DiscountWrite, Answer, Finish, At, Idle, CInv, BInv, TypeOK,
      SessionInv, SeenInv, CreditIsReceived, BillRow, Request
<1>21. ASSUME NEW s \in Session, CancelBillRead(s)
      PROVE  (SeenInv /\ CreditIsReceived)'
  BY <1>21 DEF
      CancelBillRead, Answer, Finish, Serve, Live, HasBill, Idle, CInv, BInv,
      TypeOK, SessionInv, SeenInv, CreditIsReceived, BillRow, Request
<1>22. ASSUME NEW s \in Session, CancelBillCommit(s)
      PROVE  (SeenInv /\ CreditIsReceived)'
  BY <1>22 DEF
      CancelBillCommit, Answer, Finish, At, Idle, CInv, BInv, TypeOK,
      SessionInv, SeenInv, CreditIsReceived, BillRow, Request
<1>23. ASSUME NEW s \in Session, StatusRead(s)
      PROVE  (SeenInv /\ CreditIsReceived)'
  BY <1>23 DEF
      StatusRead, NewStatus, Answer, Finish, Serve, Idle, CInv, BInv, TypeOK,
      SessionInv, SeenInv, CreditIsReceived, BillRow, Request
<1>24. ASSUME NEW s \in Session, StatusWrite(s)
      PROVE  (SeenInv /\ CreditIsReceived)'
  BY <1>24 DEF
      StatusWrite, NewStatus, Answer, Finish, At, Idle, CInv, BInv, TypeOK,
      SessionInv, SeenInv, CreditIsReceived, BillRow, Request
<1>25. ASSUME NEW s \in Session, CancelOrderRead(s)
      PROVE  (SeenInv /\ CreditIsReceived)'
  BY <1>25 DEF
      CancelOrderRead, Answer, Finish, Serve, Idle, CInv, BInv, TypeOK,
      SessionInv, SeenInv, CreditIsReceived, BillRow, Request
<1>26. ASSUME NEW s \in Session, CancelOrderClaim(s)
      PROVE  (SeenInv /\ CreditIsReceived)'
  BY <1>26 DEF
      CancelOrderClaim, Answer, Finish, At, Idle, CInv, BInv, TypeOK,
      SessionInv, SeenInv, CreditIsReceived, BillRow, Request
<1>27. ASSUME NEW s \in Session, EditRead(s)
      PROVE  (SeenInv /\ CreditIsReceived)'
  BY <1>27 DEF
      EditRead, Answer, Finish, Serve, HasBill, Idle, CInv, BInv, TypeOK,
      SessionInv, SeenInv, CreditIsReceived, BillRow, Request
<1>28. ASSUME NEW s \in Session, EditWrite(s)
      PROVE  (SeenInv /\ CreditIsReceived)'
  BY <1>28 DEF
      EditWrite, Answer, Finish, At, Idle, CInv, BInv, TypeOK, SessionInv,
      SeenInv, CreditIsReceived, BillRow, Request
<1>29. ASSUME NEW s \in Session, EditSync(s)
      PROVE  (SeenInv /\ CreditIsReceived)'
  BY <1>29 DEF
      EditSync, Answer, Finish, At, HasBill, Idle, CInv, BInv, TypeOK,
      SessionInv, SeenInv, CreditIsReceived, BillRow, Request
<1>30. ASSUME NEW s \in Session, ReplaceRead(s)
      PROVE  (SeenInv /\ CreditIsReceived)'
  BY <1>30 DEF
      ReplaceRead, Answer, Finish, Serve, Idle, CInv, BInv, TypeOK,
      SessionInv, SeenInv, CreditIsReceived, BillRow, Request
<1>31. ASSUME NEW s \in Session, ReplaceWrite(s)
      PROVE  (SeenInv /\ CreditIsReceived)'
  BY <1>31 DEF
      ReplaceWrite, Answer, Finish, At, Idle, CInv, BInv, TypeOK, SessionInv,
      SeenInv, CreditIsReceived, BillRow, Request
<1>32. ASSUME NEW s \in Session, OrderDiscountRead(s)
      PROVE  (SeenInv /\ CreditIsReceived)'
  BY <1>32 DEF
      OrderDiscountRead, Answer, Finish, Serve, Idle, CInv, BInv, TypeOK,
      SessionInv, SeenInv, CreditIsReceived, BillRow, Request
<1>33. ASSUME NEW s \in Session, OrderDiscountSync(s)
      PROVE  (SeenInv /\ CreditIsReceived)'
  BY <1>33 DEF
      OrderDiscountSync, Answer, Finish, At, HasBill, Idle, CInv, BInv,
      TypeOK, SessionInv, SeenInv, CreditIsReceived, BillRow, Request
<1>34. ASSUME NEW s \in Session, Fail(s)
      PROVE  (SeenInv /\ CreditIsReceived)'
  BY <1>34 DEF
      Fail, Answer, Finish, Idle, CInv, BInv, TypeOK, SessionInv, SeenInv,
      CreditIsReceived, BillRow, Request
<1>35. ASSUME NEW s \in Session, HoldRead(s)
      PROVE  (SeenInv /\ CreditIsReceived)'
  BY <1>35 DEF
      HoldRead, Answer, Serve, Idle, CInv, BInv, TypeOK, SessionInv, SeenInv,
      CreditIsReceived, BillRow, Request
<1>36. ASSUME NEW s \in Session, HoldWrite(s)
      PROVE  (SeenInv /\ CreditIsReceived)'
  BY <1>36 DEF
      HoldWrite, Answer, Finish, At, Idle, CInv, BInv, TypeOK, SessionInv, SeenInv,
      CreditIsReceived, BillRow, Request
<1>37. ASSUME NEW s \in Session, MergeRead(s)
      PROVE  (SeenInv /\ CreditIsReceived)'
  BY <1>37 DEF
      MergeRead, Answer, Serve, Idle, CInv, BInv, TypeOK, SessionInv, SeenInv,
      CreditIsReceived, BillRow, Request
<1>38. ASSUME NEW s \in Session, MergeReadTarget(s)
      PROVE  (SeenInv /\ CreditIsReceived)'
  <2>1. /\ req[s] \in Request /\ req[s].op = "merge" /\ BInv
        /\ UNCHANGED <<bill, received>>
    BY <1>38, RequestFields DEF MergeReadTarget, At, CInv
  <2>2. PICK p : \/ Answer(s, [req[s] EXCEPT !.phase = "checked", !.had = Groups(p) # {}])
                 \/ Answer(s, Idle)
    BY <1>38 DEF MergeReadTarget, Finish
  <2> DEFINE r == [req[s] EXCEPT !.phase = "checked", !.had = Groups(p) # {}]
  <2>3. r.op = "merge" /\ Idle.op = "none"
    BY <2>1 DEF Idle, Request
  <2>4. /\ req'[s] = r \/ req'[s] = Idle
        /\ \A t \in Session : t # s => req'[t] = req[t]
    BY <2>1, <2>2, AnswerValue
  <2> HIDE DEF r
  <2> QED
    BY <2>1, <2>3, <2>4 DEF CInv, SeenInv, CreditIsReceived
<1>39. ASSUME NEW s \in Session, MergeCommit(s)
      PROVE  (SeenInv /\ CreditIsReceived)'
  BY <1>39 DEF
      MergeCommit, Answer, Finish, At, Idle, CInv, BInv, TypeOK, SessionInv, SeenInv,
      CreditIsReceived, BillRow, Request
<1>40. ASSUME NEW s \in Session, UnmergeRead(s)
      PROVE  (SeenInv /\ CreditIsReceived)'
  BY <1>40 DEF
      UnmergeRead, Answer, Serve, Idle, CInv, BInv, TypeOK, SessionInv, SeenInv,
      CreditIsReceived, BillRow, Request
<1>41. ASSUME NEW s \in Session, UnmergeCommit(s)
      PROVE  (SeenInv /\ CreditIsReceived)'
  BY <1>41 DEF
      UnmergeCommit, Answer, Finish, At, Idle, CInv, BInv, TypeOK, SessionInv, SeenInv,
      CreditIsReceived, BillRow, Request
<1> QED
  BY
      <1>1, <1>2, <1>3, <1>4, <1>5, <1>6, <1>7, <1>8, <1>9, <1>10, <1>11,
      <1>12, <1>13, <1>14, <1>15, <1>16, <1>17, <1>18, <1>19, <1>20, <1>21,
      <1>22, <1>23, <1>24, <1>25, <1>26, <1>27, <1>28, <1>29, <1>30, <1>31,
      <1>32, <1>33, <1>34,
      <1>35, <1>36, <1>37, <1>38, <1>39, <1>40, <1>41 DEF Next

\* Where orders are only collected and cancelled, a collect inserts the bill of an
\* order without one, and pays all of it.
LEMMA OnceStep ==
  ASSUME CollectOnly, OInv, [Next]_vars
  PROVE  (ExactInv /\ FreshInv /\ CollectedOnce)'
<1>1. CASE UNCHANGED vars
  BY <1>1 DEF
      vars, CollectOnly, OInv, BInv, TypeOK, SessionInv, ExactInv, FreshInv,
      CollectedOnce, HasBill, BillRow, OrderRow, Request
<1>2. ASSUME NEW s \in Session, CollectReadOrder(s)
      PROVE  (ExactInv /\ FreshInv /\ CollectedOnce)'
  <2>1. PICK o \in Order, d \in Discounts, c \in Charges, amt \in 0..MaxReceived :
          /\ amt - (Discounted(order[o].total, d) + c) <= Slack
          /\ (Discounted(order[o].total, d) + c) - amt <= Slack
          /\ Answer(s, [Idle EXCEPT !.phase = "ordered", !.op = "collect",
             !.ord = o, !.sub = order[o].total, !.extra = c,
             !.grand = Discounted(order[o].total, d) + c, !.amt = amt])
    BY <1>2 DEF CollectReadOrder
  <2>2. order[o].total \in Nat
    BY AmountAssumption DEF OInv, BInv, TypeOK, OrderRow
  <2>3. amt = Discounted(order[o].total, d) + c
    BY <2>1, <2>2, DiscountedType, AmountAssumption DEF CollectOnly
  <2>4. \A t \in Session :
          req'[t] = IF t = s
                    THEN [Idle EXCEPT !.phase = "ordered", !.op = "collect",
                            !.ord = o, !.sub = order[o].total, !.extra = c,
                            !.grand = Discounted(order[o].total, d) + c, !.amt = amt]
                    ELSE req[t]
    BY <2>1 DEF Answer, OInv, BInv, TypeOK
  <2>5. /\ req'[s].op = "collect" /\ req'[s].phase = "ordered"
        /\ req'[s].amt = req'[s].grand
    <3>1. req'[s] = [Idle EXCEPT !.phase = "ordered", !.op = "collect",
                       !.ord = o, !.sub = order[o].total, !.extra = c,
                       !.grand = Discounted(order[o].total, d) + c, !.amt = amt]
      BY <2>4
    <3> QED
      BY <2>3, <3>1 DEF Idle
  <2>6. \A t \in Session : t # s => req'[t] = req[t]
    BY <2>4
  <2>7. UNCHANGED <<order, bill, received>>
    BY <1>2 DEF CollectReadOrder
  <2> QED
    BY <2>5, <2>6, <2>7 DEF
        CollectOnly, OInv, CollectedOnce, ExactInv, FreshInv, HasBill
<1>3. ASSUME NEW s \in Session, CollectReadBill(s)
      PROVE  (ExactInv /\ FreshInv /\ CollectedOnce)'
  <2>1. req[s] \in Request /\ req[s].ord \in Order
    BY <1>3, RequestFields DEF CollectReadBill, At, OInv
  <2>2. /\ req[s].op = "collect" /\ req[s].phase = "ordered"
        /\ req'[s].op = "collect" /\ req'[s].ord = req[s].ord
        /\ req'[s].amt = req[s].amt /\ req'[s].grand = req[s].grand
        /\ req'[s].had \in BOOLEAN
        /\ req'[s].phase \in {"answered", "checked"}
        /\ req'[s].phase = "checked" =>
             /\ req'[s].had = Live(req[s].ord)
             /\ ~(Live(req[s].ord) /\ bill[req[s].ord].payment = "PAID")
    <3> DEFINE r1 == [req[s] EXCEPT !.phase = "answered", !.ans = "already"]
               r2 == [req[s] EXCEPT !.phase = "checked", !.had = Live(req[s].ord)]
    <3>1. \/ Answer(s, r1)
          \/ /\ Answer(s, r2)
             /\ ~(Live(req[s].ord) /\ bill[req[s].ord].payment = "PAID")
      BY <1>3 DEF CollectReadBill
    <3>2. /\ At(s, "collect", "ordered") /\ BInv
      BY <1>3 DEF CollectReadBill, OInv
    <3>3. \/ req'[s] = r1
          \/ /\ req'[s] = r2
             /\ ~(Live(req[s].ord) /\ bill[req[s].ord].payment = "PAID")
      BY <3>1, <3>2, AnswerValue
    <3>4. Live(req[s].ord) \in BOOLEAN
      BY DEF Live, HasBill
    <3> QED
      BY <2>1, <3>2, <3>3, <3>4 DEF At, Request
  <2>3. \A t \in Session : t # s => req'[t] = req[t]
    BY <1>3 DEF CollectReadBill, Answer, OInv, BInv, TypeOK
  <2>4. UNCHANGED <<order, bill, received>>
    BY <1>3 DEF CollectReadBill
  <2> QED
    BY <2>1, <2>2, <2>3, <2>4 DEF
        OInv, CollectedOnce, ExactInv, FreshInv, Live, HasBill
<1>4. ASSUME NEW s \in Session, CollectNumber(s)
      PROVE  (ExactInv /\ FreshInv /\ CollectedOnce)'
  BY <1>4 DEF
      CollectNumber, Answer, Finish, At, Idle, CollectOnly, OInv, BInv,
      TypeOK, SessionInv, ExactInv, FreshInv, CollectedOnce, HasBill,
      BillRow, OrderRow, Request
<1>5. ASSUME NEW s \in Session, CollectInsert(s)
      PROVE  (ExactInv /\ FreshInv /\ CollectedOnce)'
  <2>1. /\ req[s] \in Request /\ req[s].ord \in Order /\ req[s].no # 0
        /\ req[s].op = "collect" /\ req[s].phase = "numbered"
    BY <1>5, RequestFields DEF CollectInsert, At, OInv
  <2>2. /\ req[s].amt = req[s].grand /\ ~HasBill(req[s].ord)
        /\ received[req[s].ord] = 0
    BY <1>5, <2>1 DEF CollectInsert, Insertable, OInv, ExactInv, FreshInv
  <2>3. \A o \in Order : o # req[s].ord =>
          bill'[o] = bill[o] /\ received'[o] = received[o] /\ order'[o] = order[o]
    BY <1>5, <2>1 DEF CollectInsert, Collect, OInv, BInv, TypeOK
  <2>4. LET b == bill'[req[s].ord] IN
        /\ b.paid = req[s].amt /\ b.grand = req[s].grand /\ b.payment = "PAID"
        /\ b.no = req[s].no /\ b.cancelled = bill[req[s].ord].cancelled
    BY <1>5, <2>1, <2>2 DEF CollectInsert, Collect, OInv, BInv, TypeOK, BillRow, Request
  <2>5. /\ received'[req[s].ord] = req[s].amt
        /\ order'[req[s].ord].status = "COMPLETED"
    BY <1>5, <2>1, <2>2 DEF CollectInsert, Collect, OInv, BInv, TypeOK, OrderRow, Request
  <2>6. req'[s].phase = "answered"
    BY <1>5, <2>1 DEF CollectInsert, Collect, Answer, OInv, BInv, TypeOK, Request
  <2>7. \A t \in Session : t # s => req'[t] = req[t]
    BY <1>5 DEF CollectInsert, Collect, Answer, OInv, BInv, TypeOK
  <2>8. ~bill[req[s].ord].cancelled
    BY <2>1, <2>2 DEF OInv, FreshInv
  <2>9. ExactInv'
    BY <2>6, <2>7 DEF ExactInv, OInv
  <2>10. CollectedOnce'
    BY <2>2, <2>3, <2>4, <2>5 DEF CollectedOnce, OInv, HasBill
  <2>11. FreshInv'
    BY <2>1, <2>3, <2>4, <2>6, <2>7, <2>8 DEF FreshInv, OInv, HasBill
  <2> QED
    BY <2>9, <2>10, <2>11
<1>6. ASSUME NEW s \in Session, CollectConflict(s)
      PROVE  (ExactInv /\ FreshInv /\ CollectedOnce)'
  BY <1>6 DEF
      CollectConflict, Answer, Finish, At, Insertable, Idle, CollectOnly,
      OInv, BInv, TypeOK, SessionInv, ExactInv, FreshInv, CollectedOnce,
      HasBill, BillRow, OrderRow, Request
<1>7. ASSUME NEW s \in Session, CollectUpdate(s)
      PROVE  (ExactInv /\ FreshInv /\ CollectedOnce)'
  BY <1>7 DEF
      CollectUpdate, Collect, Answer, Finish, At, Idle, CollectOnly, OInv,
      BInv, TypeOK, SessionInv, ExactInv, FreshInv, CollectedOnce, HasBill,
      BillRow, OrderRow, Request
<1>8. ASSUME NEW s \in Session, Answered(s)
      PROVE  (ExactInv /\ FreshInv /\ CollectedOnce)'
  BY <1>8 DEF
      Answered, Answer, Finish, Idle, CollectOnly, OInv, BInv, TypeOK,
      SessionInv, ExactInv, FreshInv, CollectedOnce, HasBill, BillRow,
      OrderRow, Request
<1>9. ASSUME NEW s \in Session, BillReadOrder(s)
      PROVE  (ExactInv /\ FreshInv /\ CollectedOnce)'
  BY <1>9 DEF
      BillReadOrder, Answer, Finish, Serve, Idle, CollectOnly, OInv, BInv,
      TypeOK, SessionInv, ExactInv, FreshInv, CollectedOnce, HasBill,
      BillRow, OrderRow, Request
<1>10. ASSUME NEW s \in Session, BillReadBill(s)
      PROVE  (ExactInv /\ FreshInv /\ CollectedOnce)'
  BY <1>10 DEF
      BillReadBill, Answer, Finish, At, Live, HasBill, Idle, CollectOnly,
      OInv, BInv, TypeOK, SessionInv, ExactInv, FreshInv, CollectedOnce,
      BillRow, OrderRow, Request
<1>11. ASSUME NEW s \in Session, BillNumber(s)
      PROVE  (ExactInv /\ FreshInv /\ CollectedOnce)'
  BY <1>11 DEF
      BillNumber, Answer, Finish, At, Idle, CollectOnly, OInv, BInv, TypeOK,
      SessionInv, ExactInv, FreshInv, CollectedOnce, HasBill, BillRow,
      OrderRow, Request
<1>12. ASSUME NEW s \in Session, BillInsert(s)
      PROVE  (ExactInv /\ FreshInv /\ CollectedOnce)'
  BY <1>12 DEF
      BillInsert, NoBill, Answer, Finish, At, Insertable, Idle, CollectOnly,
      OInv, BInv, TypeOK, SessionInv, ExactInv, FreshInv, CollectedOnce,
      HasBill, BillRow, OrderRow, Request
<1>13. ASSUME NEW s \in Session, PayReadBill(s)
      PROVE  (ExactInv /\ FreshInv /\ CollectedOnce)'
  BY <1>13 DEF
      PayReadBill, Answer, Finish, Serve, HasBill, Idle, CollectOnly, OInv,
      BInv, TypeOK, SessionInv, ExactInv, FreshInv, CollectedOnce, BillRow,
      OrderRow, Request
<1>14. ASSUME NEW s \in Session, PayInsert(s)
      PROVE  (ExactInv /\ FreshInv /\ CollectedOnce)'
  BY <1>14 DEF
      PayInsert, Answer, Finish, At, Idle, CollectOnly, OInv, BInv, TypeOK,
      SessionInv, ExactInv, FreshInv, CollectedOnce, HasBill, BillRow,
      OrderRow, Request
<1>15. ASSUME NEW s \in Session, PayName(s)
      PROVE  (ExactInv /\ FreshInv /\ CollectedOnce)'
  BY <1>15 DEF
      PayName, Answer, Finish, At, Idle, CollectOnly, OInv, BInv, TypeOK,
      SessionInv, ExactInv, FreshInv, CollectedOnce, HasBill, BillRow,
      OrderRow, Request
<1>16. ASSUME NEW s \in Session, PayCredit(s)
      PROVE  (ExactInv /\ FreshInv /\ CollectedOnce)'
  BY <1>16 DEF
      PayCredit, Settle, Answer, Finish, At, Idle, CollectOnly, OInv, BInv,
      TypeOK, SessionInv, ExactInv, FreshInv, CollectedOnce, HasBill,
      BillRow, OrderRow, Request
<1>17. ASSUME NEW s \in Session, SplitReadBill(s)
      PROVE  (ExactInv /\ FreshInv /\ CollectedOnce)'
  BY <1>17 DEF
      SplitReadBill, Answer, Finish, Serve, HasBill, Idle, CollectOnly, OInv,
      BInv, TypeOK, SessionInv, ExactInv, FreshInv, CollectedOnce, BillRow,
      OrderRow, Request
<1>18. ASSUME NEW s \in Session, SplitCommit(s)
      PROVE  (ExactInv /\ FreshInv /\ CollectedOnce)'
  BY <1>18 DEF
      SplitCommit, Settle, Answer, Finish, At, Idle, CollectOnly, OInv, BInv,
      TypeOK, SessionInv, ExactInv, FreshInv, CollectedOnce, HasBill,
      BillRow, OrderRow, Request
<1>19. ASSUME NEW s \in Session, DiscountReadBill(s)
      PROVE  (ExactInv /\ FreshInv /\ CollectedOnce)'
  BY <1>19 DEF
      DiscountReadBill, Answer, Finish, Serve, Live, HasBill, Idle,
      CollectOnly, OInv, BInv, TypeOK, SessionInv, ExactInv, FreshInv,
      CollectedOnce, BillRow, OrderRow, Request
<1>20. ASSUME NEW s \in Session, DiscountWrite(s)
      PROVE  (ExactInv /\ FreshInv /\ CollectedOnce)'
  BY <1>20 DEF
      DiscountWrite, Answer, Finish, At, Idle, CollectOnly, OInv, BInv,
      TypeOK, SessionInv, ExactInv, FreshInv, CollectedOnce, HasBill,
      BillRow, OrderRow, Request
<1>21. ASSUME NEW s \in Session, CancelBillRead(s)
      PROVE  (ExactInv /\ FreshInv /\ CollectedOnce)'
  BY <1>21 DEF
      CancelBillRead, Answer, Finish, Serve, Live, HasBill, Idle,
      CollectOnly, OInv, BInv, TypeOK, SessionInv, ExactInv, FreshInv,
      CollectedOnce, BillRow, OrderRow, Request
<1>22. ASSUME NEW s \in Session, CancelBillCommit(s)
      PROVE  (ExactInv /\ FreshInv /\ CollectedOnce)'
  BY <1>22 DEF
      CancelBillCommit, Answer, Finish, At, Idle, CollectOnly, OInv, BInv,
      TypeOK, SessionInv, ExactInv, FreshInv, CollectedOnce, HasBill,
      BillRow, OrderRow, Request
<1>23. ASSUME NEW s \in Session, StatusRead(s)
      PROVE  (ExactInv /\ FreshInv /\ CollectedOnce)'
  BY <1>23 DEF
      StatusRead, NewStatus, Answer, Finish, Serve, Idle, CollectOnly, OInv,
      BInv, TypeOK, SessionInv, ExactInv, FreshInv, CollectedOnce, HasBill,
      BillRow, OrderRow, Request
<1>24. ASSUME NEW s \in Session, StatusWrite(s)
      PROVE  (ExactInv /\ FreshInv /\ CollectedOnce)'
  BY <1>24 DEF
      StatusWrite, NewStatus, Answer, Finish, At, Idle, CollectOnly, OInv,
      BInv, TypeOK, SessionInv, ExactInv, FreshInv, CollectedOnce, HasBill,
      BillRow, OrderRow, Request
<1>25. ASSUME NEW s \in Session, CancelOrderRead(s)
      PROVE  (ExactInv /\ FreshInv /\ CollectedOnce)'
  BY <1>25 DEF
      CancelOrderRead, Answer, Finish, Serve, Idle, CollectOnly, OInv, BInv,
      TypeOK, SessionInv, ExactInv, FreshInv, CollectedOnce, HasBill,
      BillRow, OrderRow, Request
<1>26. ASSUME NEW s \in Session, CancelOrderClaim(s)
      PROVE  (ExactInv /\ FreshInv /\ CollectedOnce)'
  BY <1>26 DEF
      CancelOrderClaim, Answer, Finish, At, Idle, CollectOnly, OInv, BInv,
      TypeOK, SessionInv, ExactInv, FreshInv, CollectedOnce, HasBill,
      BillRow, OrderRow, Request
<1>27. ASSUME NEW s \in Session, EditRead(s)
      PROVE  (ExactInv /\ FreshInv /\ CollectedOnce)'
  BY <1>27 DEF
      EditRead, Answer, Finish, Serve, HasBill, Idle, CollectOnly, OInv,
      BInv, TypeOK, SessionInv, ExactInv, FreshInv, CollectedOnce, BillRow,
      OrderRow, Request
<1>28. ASSUME NEW s \in Session, EditWrite(s)
      PROVE  (ExactInv /\ FreshInv /\ CollectedOnce)'
  BY <1>28 DEF
      EditWrite, Answer, Finish, At, Idle, CollectOnly, OInv, BInv, TypeOK,
      SessionInv, ExactInv, FreshInv, CollectedOnce, HasBill, BillRow,
      OrderRow, Request
<1>29. ASSUME NEW s \in Session, EditSync(s)
      PROVE  (ExactInv /\ FreshInv /\ CollectedOnce)'
  BY <1>29 DEF
      EditSync, Answer, Finish, At, HasBill, Idle, CollectOnly, OInv, BInv,
      TypeOK, SessionInv, ExactInv, FreshInv, CollectedOnce, BillRow,
      OrderRow, Request
<1>30. ASSUME NEW s \in Session, ReplaceRead(s)
      PROVE  (ExactInv /\ FreshInv /\ CollectedOnce)'
  BY <1>30 DEF
      ReplaceRead, Answer, Finish, Serve, Idle, CollectOnly, OInv, BInv,
      TypeOK, SessionInv, ExactInv, FreshInv, CollectedOnce, HasBill,
      BillRow, OrderRow, Request
<1>31. ASSUME NEW s \in Session, ReplaceWrite(s)
      PROVE  (ExactInv /\ FreshInv /\ CollectedOnce)'
  BY <1>31 DEF
      ReplaceWrite, Answer, Finish, At, Idle, CollectOnly, OInv, BInv,
      TypeOK, SessionInv, ExactInv, FreshInv, CollectedOnce, HasBill,
      BillRow, OrderRow, Request
<1>32. ASSUME NEW s \in Session, OrderDiscountRead(s)
      PROVE  (ExactInv /\ FreshInv /\ CollectedOnce)'
  BY <1>32 DEF
      OrderDiscountRead, Answer, Finish, Serve, Idle, CollectOnly, OInv,
      BInv, TypeOK, SessionInv, ExactInv, FreshInv, CollectedOnce, HasBill,
      BillRow, OrderRow, Request
<1>33. ASSUME NEW s \in Session, OrderDiscountSync(s)
      PROVE  (ExactInv /\ FreshInv /\ CollectedOnce)'
  BY <1>33 DEF
      OrderDiscountSync, Answer, Finish, At, HasBill, Idle, CollectOnly,
      OInv, BInv, TypeOK, SessionInv, ExactInv, FreshInv, CollectedOnce,
      BillRow, OrderRow, Request
<1>34. ASSUME NEW s \in Session, Fail(s)
      PROVE  (ExactInv /\ FreshInv /\ CollectedOnce)'
  BY <1>34 DEF
      Fail, Answer, Finish, Idle, CollectOnly, OInv, BInv, TypeOK,
      SessionInv, ExactInv, FreshInv, CollectedOnce, HasBill, BillRow,
      OrderRow, Request
<1>35. ASSUME NEW s \in Session, HoldRead(s)
      PROVE  (ExactInv /\ FreshInv /\ CollectedOnce)'
  BY <1>35 DEF HoldRead, Serve, CollectOnly
<1>36. ASSUME NEW s \in Session, HoldWrite(s)
      PROVE  (ExactInv /\ FreshInv /\ CollectedOnce)'
  BY <1>36, RequestFields DEF HoldWrite, At, CollectOnly, OInv
<1>37. ASSUME NEW s \in Session, MergeRead(s)
      PROVE  (ExactInv /\ FreshInv /\ CollectedOnce)'
  BY <1>37 DEF MergeRead, Serve, CollectOnly
<1>38. ASSUME NEW s \in Session, MergeReadTarget(s)
      PROVE  (ExactInv /\ FreshInv /\ CollectedOnce)'
  BY <1>38, RequestFields DEF MergeReadTarget, At, CollectOnly, OInv
<1>39. ASSUME NEW s \in Session, MergeCommit(s)
      PROVE  (ExactInv /\ FreshInv /\ CollectedOnce)'
  BY <1>39, RequestFields DEF MergeCommit, At, CollectOnly, OInv
<1>40. ASSUME NEW s \in Session, UnmergeRead(s)
      PROVE  (ExactInv /\ FreshInv /\ CollectedOnce)'
  BY <1>40 DEF UnmergeRead, Serve, CollectOnly
<1>41. ASSUME NEW s \in Session, UnmergeCommit(s)
      PROVE  (ExactInv /\ FreshInv /\ CollectedOnce)'
  BY <1>41, RequestFields DEF UnmergeCommit, At, CollectOnly, OInv
<1> QED
  BY
      <1>1, <1>2, <1>3, <1>4, <1>5, <1>6, <1>7, <1>8, <1>9, <1>10, <1>11,
      <1>12, <1>13, <1>14, <1>15, <1>16, <1>17, <1>18, <1>19, <1>20, <1>21,
      <1>22, <1>23, <1>24, <1>25, <1>26, <1>27, <1>28, <1>29, <1>30, <1>31,
      <1>32, <1>33, <1>34,
      <1>35, <1>36, <1>37, <1>38, <1>39, <1>40, <1>41 DEF Next

\* An order leaves COMPLETED only when its bill is cancelled.
LEMMA LiveStep ==
  ASSUME LInv, [Next]_vars
  PROVE  (BillableInv /\ LiveBillMeansCompleted)'
<1>1. CASE UNCHANGED vars
  BY <1>1 DEF
      vars, LInv, BInv, TypeOK, SessionInv, ExactInv,
      BillableInv, LiveBillMeansCompleted, Live, HasBill, BillRow, OrderRow,
      Request
<1>2. ASSUME NEW s \in Session, CollectReadOrder(s)
      PROVE  (BillableInv /\ LiveBillMeansCompleted)'
  <2>1. PICK o \in Order, d \in Discounts, c \in Charges, amt \in 0..MaxReceived :
          Answer(s, [Idle EXCEPT !.phase = "ordered", !.op = "collect",
             !.ord = o, !.sub = order[o].total, !.extra = c,
             !.grand = Discounted(order[o].total, d) + c, !.amt = amt])
    BY <1>2 DEF CollectReadOrder
  <2> DEFINE r == [Idle EXCEPT !.phase = "ordered", !.op = "collect",
             !.ord = o, !.sub = order[o].total, !.extra = c,
             !.grand = Discounted(order[o].total, d) + c, !.amt = amt]
  <2>2. req'[s] = r /\ \A t \in Session : t # s => req'[t] = req[t]
    BY <2>1, AnswerValue DEF LInv
  <2>3. req'[s].op = "collect" /\ req'[s].phase = "ordered"
    BY <2>2 DEF Idle
  <2>4. UNCHANGED <<order, bill, received, loose>>
    BY <1>2 DEF CollectReadOrder
  <2> HIDE DEF r
  <2> QED
    BY <2>2, <2>3, <2>4 DEF LInv, LiveBillMeansCompleted, BillableInv, Live, HasBill
<1>3. ASSUME NEW s \in Session, CollectReadBill(s)
      PROVE  (BillableInv /\ LiveBillMeansCompleted)'
  <2>1. req[s] \in Request /\ req[s].ord \in Order
    BY <1>3, RequestFields DEF CollectReadBill, At, LInv
  <2>2. /\ req[s].op = "collect" /\ req[s].phase = "ordered"
        /\ req'[s].op = "collect" /\ req'[s].ord = req[s].ord
        /\ req'[s].amt = req[s].amt /\ req'[s].grand = req[s].grand
        /\ req'[s].had \in BOOLEAN
        /\ req'[s].phase \in {"answered", "checked"}
        /\ req'[s].phase = "checked" =>
             /\ req'[s].had = Live(req[s].ord)
             /\ ~(Live(req[s].ord) /\ bill[req[s].ord].payment = "PAID")
    <3> DEFINE r1 == [req[s] EXCEPT !.phase = "answered", !.ans = "already"]
               r2 == [req[s] EXCEPT !.phase = "checked", !.had = Live(req[s].ord)]
    <3>1. \/ Answer(s, r1)
          \/ /\ Answer(s, r2)
             /\ ~(Live(req[s].ord) /\ bill[req[s].ord].payment = "PAID")
      BY <1>3 DEF CollectReadBill
    <3>2. /\ At(s, "collect", "ordered") /\ BInv
      BY <1>3 DEF CollectReadBill, LInv
    <3>3. \/ req'[s] = r1
          \/ /\ req'[s] = r2
             /\ ~(Live(req[s].ord) /\ bill[req[s].ord].payment = "PAID")
      BY <3>1, <3>2, AnswerValue
    <3>4. Live(req[s].ord) \in BOOLEAN
      BY DEF Live, HasBill
    <3> QED
      BY <2>1, <3>2, <3>3, <3>4 DEF At, Request
  <2>3. \A t \in Session : t # s => req'[t] = req[t]
    BY <1>3 DEF CollectReadBill, Answer, LInv, BInv, TypeOK
  <2>4. UNCHANGED <<order, bill, received, loose>>
    BY <1>3 DEF CollectReadBill
  <2> QED
    BY <2>1, <2>2, <2>3, <2>4 DEF
        LInv, LiveBillMeansCompleted, BillableInv, Live, HasBill
<1>4. ASSUME NEW s \in Session, CollectNumber(s)
      PROVE  (BillableInv /\ LiveBillMeansCompleted)'
  BY <1>4 DEF
      CollectNumber, Answer, Finish, At, Idle, LInv, BInv,
      TypeOK, SessionInv, BillableInv, LiveBillMeansCompleted,
      Live, HasBill, BillRow, OrderRow, Request
<1>5. ASSUME NEW s \in Session, CollectInsert(s)
      PROVE  (BillableInv /\ LiveBillMeansCompleted)'
  BY <1>5 DEF
      CollectInsert, Collect, Answer, Finish, At, Insertable, Idle,
      LInv, BInv, TypeOK, SessionInv, BillableInv,
      LiveBillMeansCompleted, Live, HasBill, BillRow, OrderRow, Request
<1>6. ASSUME NEW s \in Session, CollectConflict(s)
      PROVE  (BillableInv /\ LiveBillMeansCompleted)'
  BY <1>6 DEF
      CollectConflict, Answer, Finish, At, Insertable, Idle, 
      LInv, BInv, TypeOK, SessionInv, BillableInv,
      LiveBillMeansCompleted, Live, HasBill, BillRow, OrderRow, Request
<1>7. ASSUME NEW s \in Session, CollectUpdate(s)
      PROVE  (BillableInv /\ LiveBillMeansCompleted)'
  BY <1>7 DEF
      CollectUpdate, Collect, Answer, Finish, At, Idle, LInv,
      BInv, TypeOK, SessionInv, BillableInv,
      LiveBillMeansCompleted, Live, HasBill, BillRow, OrderRow, Request
<1>8. ASSUME NEW s \in Session, Answered(s)
      PROVE  (BillableInv /\ LiveBillMeansCompleted)'
  BY <1>8 DEF
      Answered, Answer, Finish, Idle, LInv, BInv, TypeOK,
      SessionInv, BillableInv, LiveBillMeansCompleted, Live,
      HasBill, BillRow, OrderRow, Request
<1>9. ASSUME NEW s \in Session, BillReadOrder(s)
      PROVE  (BillableInv /\ LiveBillMeansCompleted)'
  BY <1>9 DEF
      BillReadOrder, Answer, Finish, Serve, Idle, LInv, BInv,
      TypeOK, SessionInv, BillableInv, LiveBillMeansCompleted,
      Live, HasBill, BillRow, OrderRow, Request
<1>10. ASSUME NEW s \in Session, BillReadBill(s)
      PROVE  (BillableInv /\ LiveBillMeansCompleted)'
  <2>1. req[s] \in Request /\ req[s].ord \in Order /\ BInv
    BY <1>10, RequestFields DEF BillReadBill, At, LInv
  <2> DEFINE r == [req[s] EXCEPT !.phase = "checked"]
  <2>2. /\ \/ Answer(s, Idle)
           \/ Answer(s, r) /\ req[s].status = "COMPLETED"
        /\ At(s, "bill", "ordered")
        /\ UNCHANGED <<order, bill, received, loose>>
    BY <1>10 DEF BillReadBill, Finish
  <2>3. /\ req'[s] = Idle \/ (req'[s] = r /\ req[s].status = "COMPLETED")
        /\ \A t \in Session : t # s => req'[t] = req[t]
    BY <2>1, <2>2, AnswerValue
  <2>4. \/ req'[s].phase = "idle"
        \/ /\ req'[s].phase = "checked" /\ req'[s].op = "bill"
           /\ req'[s].ord = req[s].ord /\ req'[s].status = "COMPLETED"
           /\ req[s].status = "COMPLETED"
    BY <2>1, <2>2, <2>3 DEF At, Idle, Request
  <2> HIDE DEF r
  <2> QED
    BY <2>1, <2>2, <2>3, <2>4 DEF
        At, LInv, LiveBillMeansCompleted, BillableInv, Live,
        HasBill
<1>11. ASSUME NEW s \in Session, BillNumber(s)
      PROVE  (BillableInv /\ LiveBillMeansCompleted)'
  BY <1>11 DEF
      BillNumber, Answer, Finish, At, Idle, LInv, BInv, TypeOK,
      SessionInv, BillableInv, LiveBillMeansCompleted, Live,
      HasBill, BillRow, OrderRow, Request
<1>12. ASSUME NEW s \in Session, BillInsert(s)
      PROVE  (BillableInv /\ LiveBillMeansCompleted)'
  BY <1>12 DEF
      BillInsert, NoBill, Answer, Finish, At, Insertable, Idle, 
      LInv, BInv, TypeOK, SessionInv, BillableInv,
      LiveBillMeansCompleted, Live, HasBill, BillRow, OrderRow, Request
<1>13. ASSUME NEW s \in Session, PayReadBill(s)
      PROVE  (BillableInv /\ LiveBillMeansCompleted)'
  BY <1>13 DEF
      PayReadBill, Answer, Finish, Serve, HasBill, Idle, LInv,
      BInv, TypeOK, SessionInv, BillableInv,
      LiveBillMeansCompleted, Live, BillRow, OrderRow, Request
<1>14. ASSUME NEW s \in Session, PayInsert(s)
      PROVE  (BillableInv /\ LiveBillMeansCompleted)'
  <2>1. req[s] \in Request /\ req[s].ord \in Order /\ BInv
    BY <1>14, RequestFields DEF PayInsert, At, LInv
  <2>2. CASE unnamed = NoOrder
    <3> DEFINE r == [req[s] EXCEPT !.phase = "inserted"]
    <3>1. Answer(s, r) /\ At(s, "pay", "checked") /\ UNCHANGED <<order, bill, loose>>
      BY <1>14, <2>2 DEF PayInsert
    <3>2. req'[s] = r /\ \A t \in Session : t # s => req'[t] = req[t]
      BY <2>1, <3>1, AnswerValue
    <3>3. /\ req'[s].phase = "inserted" /\ req'[s].op = "pay"
          /\ req'[s].ord = req[s].ord /\ req'[s].amt = req[s].amt
          /\ req'[s].paid = req[s].paid /\ req'[s].had = req[s].had
      BY <2>1, <3>1, <3>2 DEF At, Request
    <3>4. req[s].amt \in Nat /\ req[s].paid \in Nat /\ received \in [Order -> Nat]
      BY <2>1 DEF BInv, TypeOK, Request
    <3>5. /\ received'[req[s].ord] = received[req[s].ord] + req[s].amt
          /\ \A o \in Order : o # req[s].ord => received'[o] = received[o]
      BY <1>14, <2>1, <2>2, <3>4 DEF PayInsert
    <3>6. /\ bill' = bill /\ order' = order /\ loose' = loose
          /\ req[s].op = "pay" /\ req[s].phase = "checked"
      BY <3>1 DEF At
    <3>7. \A o \in Order : received'[o] \in Nat /\ received'[o] >= received[o]
      BY <2>1, <3>4, <3>5
    <3> HIDE DEF r
    <3> QED
      BY <2>1, <3>2, <3>3, <3>4, <3>5, <3>6, <3>7 DEF
          LInv, LiveBillMeansCompleted, BillableInv, Live, HasBill
  <2>3. CASE unnamed # NoOrder
    <3>1. /\ req'[s] = Idle /\ \A t \in Session : t # s => req'[t] = req[t]
          /\ UNCHANGED <<order, bill, received, loose>>
      BY <1>14, <2>1, <2>3, AnswerValue DEF PayInsert, Finish
    <3> QED
      BY <2>1, <3>1 DEF
          Idle, LInv, LiveBillMeansCompleted, BillableInv, Live,
          HasBill
  <2> QED
    BY <2>2, <2>3
<1>15. ASSUME NEW s \in Session, PayName(s)
      PROVE  (BillableInv /\ LiveBillMeansCompleted)'
  BY <1>15 DEF
      PayName, Answer, Finish, At, Idle, LInv, BInv, TypeOK,
      SessionInv, BillableInv, LiveBillMeansCompleted, Live,
      HasBill, BillRow, OrderRow, Request
<1>16. ASSUME NEW s \in Session, PayCredit(s)
      PROVE  (BillableInv /\ LiveBillMeansCompleted)'
  BY <1>16 DEF
      PayCredit, Settle, Answer, Finish, At, Idle, LInv, BInv,
      TypeOK, SessionInv, BillableInv, LiveBillMeansCompleted,
      Live, HasBill, BillRow, OrderRow, Request
<1>17. ASSUME NEW s \in Session, SplitReadBill(s)
      PROVE  (BillableInv /\ LiveBillMeansCompleted)'
  BY <1>17 DEF
      SplitReadBill, Answer, Finish, Serve, HasBill, Idle, LInv,
      BInv, TypeOK, SessionInv, BillableInv,
      LiveBillMeansCompleted, Live, BillRow, OrderRow, Request
<1>18. ASSUME NEW s \in Session, SplitCommit(s)
      PROVE  (BillableInv /\ LiveBillMeansCompleted)'
  BY <1>18 DEF
      SplitCommit, Settle, Answer, Finish, At, Idle, LInv, BInv,
      TypeOK, SessionInv, BillableInv, LiveBillMeansCompleted,
      Live, HasBill, BillRow, OrderRow, Request
<1>19. ASSUME NEW s \in Session, DiscountReadBill(s)
      PROVE  (BillableInv /\ LiveBillMeansCompleted)'
  BY <1>19 DEF
      DiscountReadBill, Answer, Finish, Serve, Live, HasBill, Idle,
      LInv, BInv, TypeOK, SessionInv, BillableInv,
      LiveBillMeansCompleted, BillRow, OrderRow, Request
<1>20. ASSUME NEW s \in Session, DiscountWrite(s)
      PROVE  (BillableInv /\ LiveBillMeansCompleted)'
  BY <1>20 DEF
      DiscountWrite, Answer, Finish, At, Idle, LInv, BInv,
      TypeOK, SessionInv, BillableInv, LiveBillMeansCompleted,
      Live, HasBill, BillRow, OrderRow, Request
<1>21. ASSUME NEW s \in Session, CancelBillRead(s)
      PROVE  (BillableInv /\ LiveBillMeansCompleted)'
  BY <1>21 DEF
      CancelBillRead, Answer, Finish, Serve, Live, HasBill, Idle, 
      LInv, BInv, TypeOK, SessionInv, BillableInv,
      LiveBillMeansCompleted, BillRow, OrderRow, Request
<1>22. ASSUME NEW s \in Session, CancelBillCommit(s)
      PROVE  (BillableInv /\ LiveBillMeansCompleted)'
  <2>2. BillableInv'
    <3>1. req' = [req EXCEPT ![s] = Idle] /\ HasBill(req[s].ord)
      BY <1>22 DEF CancelBillCommit, Finish, Answer, At, LInv, BillableInv
    <3>2. \A p \in Order : HasBill(p) => HasBill(p)'
      BY <1>22 DEF CancelBillCommit, HasBill, LInv, BInv, TypeOK, BillRow
    <3>3. \A p \in Order : p # req[s].ord => order'[p] = order[p]
      BY <1>22 DEF CancelBillCommit, LInv, BInv, TypeOK
    <3>4. \A t \in Session : t # s => req'[t] = req[t]
      BY <3>1 DEF LInv, BInv, TypeOK
    <3>5. req'[s].phase = "idle"
      BY <3>1 DEF Idle, LInv, BInv, TypeOK
    <3>6. \A t \in Session : req[t].phase # "idle" => req[t].ord \in Order
      BY DEF LInv, BInv, SessionInv
    <3>7. loose' = loose
      BY <1>22 DEF CancelBillCommit
    <3> QED
      BY <3>1, <3>2, <3>3, <3>4, <3>5, <3>6, <3>7 DEF LInv, BillableInv
  <2>3. LiveBillMeansCompleted'
    BY <1>22 DEF
        CancelBillCommit, Answer, Finish, At, Idle, LInv, BInv,
        TypeOK, SessionInv, LiveBillMeansCompleted,
        Live, HasBill, BillRow, OrderRow, Request
  <2>4. QED
    BY <2>2, <2>3
<1>23. ASSUME NEW s \in Session, StatusRead(s)
      PROVE  (BillableInv /\ LiveBillMeansCompleted)'
  BY <1>23 DEF
      StatusRead, NewStatus, Answer, Finish, Serve, Idle, LInv,
      BInv, TypeOK, SessionInv, BillableInv,
      LiveBillMeansCompleted, Live, HasBill, BillRow, OrderRow, Request
<1>24. ASSUME NEW s \in Session, StatusWrite(s)
      PROVE  (BillableInv /\ LiveBillMeansCompleted)'
  <2>1. /\ req[s] \in Request /\ req[s].ord \in Order /\ BInv
        /\ UNCHANGED bill /\ Finish(s)
    BY <1>24, RequestFields DEF StatusWrite, LInv
  <2>2. /\ req'[s].op = "none" /\ req'[s].phase = "idle"
        /\ \A t \in Session : t # s => req'[t] = req[t]
    BY <2>1, AnswerValue DEF Finish, Idle
  <2>3. /\ loose \subseteq loose'
        /\ \A o \in Order : order[o].status = "COMPLETED" =>
             order'[o].status = "COMPLETED" \/ o \in loose'
    BY <1>24, <2>1 DEF StatusWrite, NewStatus, Loosened, BInv, TypeOK, OrderRow, Request
  <2>4. \A t \in Session : req[t].phase # "idle" => req[t].ord \in Order
    BY <2>1 DEF BInv, SessionInv
  <2> QED
    BY <2>1, <2>2, <2>3, <2>4 DEF LInv, BillableInv, LiveBillMeansCompleted, Live, HasBill
<1>25. ASSUME NEW s \in Session, CancelOrderRead(s)
      PROVE  (BillableInv /\ LiveBillMeansCompleted)'
  BY <1>25 DEF
      CancelOrderRead, Answer, Finish, Serve, Idle, LInv, BInv,
      TypeOK, SessionInv, BillableInv, LiveBillMeansCompleted,
      Live, HasBill, BillRow, OrderRow, Request
<1>26. ASSUME NEW s \in Session, CancelOrderClaim(s)
      PROVE  (BillableInv /\ LiveBillMeansCompleted)'
  BY <1>26 DEF
      CancelOrderClaim, Answer, Finish, At, Idle, LInv, BInv,
      TypeOK, SessionInv, BillableInv, LiveBillMeansCompleted,
      Live, HasBill, BillRow, OrderRow, Request
<1>27. ASSUME NEW s \in Session, EditRead(s)
      PROVE  (BillableInv /\ LiveBillMeansCompleted)'
  BY <1>27 DEF
      EditRead, Answer, Finish, Serve, HasBill, Idle, LInv, BInv,
      TypeOK, SessionInv, BillableInv, LiveBillMeansCompleted,
      Live, BillRow, OrderRow, Request
<1>28. ASSUME NEW s \in Session, EditWrite(s)
      PROVE  (BillableInv /\ LiveBillMeansCompleted)'
  BY <1>28 DEF
      EditWrite, Answer, Finish, At, Idle, LInv, BInv, TypeOK,
      SessionInv, BillableInv, LiveBillMeansCompleted, Live,
      HasBill, BillRow, OrderRow, Request
<1>29. ASSUME NEW s \in Session, EditSync(s)
      PROVE  (BillableInv /\ LiveBillMeansCompleted)'
  <2>2. BillableInv'
    <3>1. req' = [req EXCEPT ![s] = Idle]
      BY <1>29 DEF EditSync, Finish, Answer
    <3>2. \A p \in Order : HasBill(p) => HasBill(p)'
      BY <1>29 DEF EditSync, HasBill, LInv, BInv, TypeOK, BillRow
    <3>3. order' = order /\ loose' = loose
      BY <1>29 DEF EditSync
    <3>4. \A t \in Session : t # s => req'[t] = req[t]
      BY <3>1 DEF LInv, BInv, TypeOK
    <3>5. req'[s].phase = "idle"
      BY <3>1 DEF Idle, LInv, BInv, TypeOK
    <3>6. \A t \in Session : req[t].phase # "idle" => req[t].ord \in Order
      BY DEF LInv, BInv, SessionInv
    <3>7. QED
      BY <3>1, <3>2, <3>3, <3>4, <3>5, <3>6 DEF LInv, BillableInv
  <2>3. LiveBillMeansCompleted'
    BY <1>29 DEF
        EditSync, Answer, Finish, At, HasBill, Idle, LInv, BInv,
        TypeOK, SessionInv, LiveBillMeansCompleted,
        Live, BillRow, OrderRow, Request
  <2>4. QED
    BY <2>2, <2>3
<1>30. ASSUME NEW s \in Session, ReplaceRead(s)
      PROVE  (BillableInv /\ LiveBillMeansCompleted)'
  BY <1>30 DEF
      ReplaceRead, Answer, Finish, Serve, Idle, LInv, BInv,
      TypeOK, SessionInv, BillableInv, LiveBillMeansCompleted,
      Live, HasBill, BillRow, OrderRow, Request
<1>31. ASSUME NEW s \in Session, ReplaceWrite(s)
      PROVE  (BillableInv /\ LiveBillMeansCompleted)'
  BY <1>31 DEF
      ReplaceWrite, Answer, Finish, At, Idle, LInv, BInv, TypeOK,
      SessionInv, BillableInv, LiveBillMeansCompleted, Live,
      HasBill, BillRow, OrderRow, Request
<1>32. ASSUME NEW s \in Session, OrderDiscountRead(s)
      PROVE  (BillableInv /\ LiveBillMeansCompleted)'
  BY <1>32 DEF
      OrderDiscountRead, Answer, Finish, Serve, Idle, LInv, BInv,
      TypeOK, SessionInv, BillableInv, LiveBillMeansCompleted,
      Live, HasBill, BillRow, OrderRow, Request
<1>33. ASSUME NEW s \in Session, OrderDiscountSync(s)
      PROVE  (BillableInv /\ LiveBillMeansCompleted)'
  BY <1>33 DEF
      OrderDiscountSync, Answer, Finish, At, HasBill, Idle, LInv,
      BInv, TypeOK, SessionInv, BillableInv,
      LiveBillMeansCompleted, Live, BillRow, OrderRow, Request
<1>34. ASSUME NEW s \in Session, Fail(s)
      PROVE  (BillableInv /\ LiveBillMeansCompleted)'
  BY <1>34 DEF
      Fail, Answer, Finish, Idle, LInv, BInv, TypeOK, SessionInv,
      BillableInv, LiveBillMeansCompleted, Live, HasBill, BillRow,
      OrderRow, Request
<1>35. ASSUME NEW s \in Session, HoldRead(s)
      PROVE  (BillableInv /\ LiveBillMeansCompleted)'
  BY <1>35 DEF
      HoldRead, Answer, Serve, Idle, LInv, BInv, TypeOK, SessionInv, BillableInv,
      LiveBillMeansCompleted, Live, HasBill, BillRow, OrderRow, Request
<1>36. ASSUME NEW s \in Session, HoldWrite(s)
      PROVE  (BillableInv /\ LiveBillMeansCompleted)'
  <2>1. /\ req[s] \in Request /\ req[s].ord \in Order /\ BInv
        /\ UNCHANGED bill /\ Finish(s)
    BY <1>36, RequestFields DEF HoldWrite, At, LInv
  <2>2. /\ req'[s].op = "none" /\ req'[s].phase = "idle"
        /\ \A t \in Session : t # s => req'[t] = req[t]
    BY <2>1, AnswerValue DEF Finish, Idle
  <2>3. /\ loose \subseteq loose'
        /\ \A o \in Order : order[o].status = "COMPLETED" =>
             order'[o].status = "COMPLETED" \/ o \in loose'
    BY <1>36, <2>1 DEF HoldWrite, Loosened, BInv, TypeOK, OrderRow, Request
  <2>4. \A t \in Session : req[t].phase # "idle" => req[t].ord \in Order
    BY <2>1 DEF BInv, SessionInv
  <2> QED
    BY <2>1, <2>2, <2>3, <2>4 DEF LInv, BillableInv, LiveBillMeansCompleted, Live, HasBill
<1>37. ASSUME NEW s \in Session, MergeRead(s)
      PROVE  (BillableInv /\ LiveBillMeansCompleted)'
  BY <1>37 DEF
      MergeRead, Answer, Serve, Idle, LInv, BInv, TypeOK, SessionInv, BillableInv,
      LiveBillMeansCompleted, Live, HasBill, BillRow, OrderRow, Request
<1>38. ASSUME NEW s \in Session, MergeReadTarget(s)
      PROVE  (BillableInv /\ LiveBillMeansCompleted)'
  <2>1. /\ req[s] \in Request /\ req[s].op = "merge" /\ BInv
        /\ UNCHANGED <<order, bill, loose>>
    BY <1>38, RequestFields DEF MergeReadTarget, At, LInv
  <2>2. PICK p : \/ Answer(s, [req[s] EXCEPT !.phase = "checked", !.had = Groups(p) # {}])
                 \/ Answer(s, Idle)
    BY <1>38 DEF MergeReadTarget, Finish
  <2> DEFINE r == [req[s] EXCEPT !.phase = "checked", !.had = Groups(p) # {}]
  <2>3. r.op = "merge" /\ Idle.op = "none"
    BY <2>1 DEF Idle, Request
  <2>4. /\ req'[s] = r \/ req'[s] = Idle
        /\ \A t \in Session : t # s => req'[t] = req[t]
    BY <2>1, <2>2, AnswerValue
  <2> HIDE DEF r
  <2> QED
    BY <2>1, <2>3, <2>4 DEF LInv, BillableInv, LiveBillMeansCompleted, Live, HasBill
<1>39. ASSUME NEW s \in Session, MergeCommit(s)
      PROVE  (BillableInv /\ LiveBillMeansCompleted)'
  <2>1. /\ req[s] \in Request /\ req[s].ord \in Order /\ BInv
        /\ UNCHANGED bill /\ Finish(s)
    BY <1>39, RequestFields DEF MergeCommit, At, LInv
  <2>2. /\ req'[s].op = "none" /\ req'[s].phase = "idle"
        /\ \A t \in Session : t # s => req'[t] = req[t]
    BY <2>1, AnswerValue DEF Finish, Idle
  <2>3. /\ loose \subseteq loose'
        /\ \A o \in Order : order[o].status = "COMPLETED" =>
             order'[o].status = "COMPLETED" \/ o \in loose'
    BY <1>39, <2>1 DEF MergeCommit, Loosened, BInv, TypeOK, OrderRow, Request
  <2>4. \A t \in Session : req[t].phase # "idle" => req[t].ord \in Order
    BY <2>1 DEF BInv, SessionInv
  <2> QED
    BY <2>1, <2>2, <2>3, <2>4 DEF LInv, BillableInv, LiveBillMeansCompleted, Live, HasBill
<1>40. ASSUME NEW s \in Session, UnmergeRead(s)
      PROVE  (BillableInv /\ LiveBillMeansCompleted)'
  BY <1>40 DEF
      UnmergeRead, Answer, Serve, Idle, LInv, BInv, TypeOK, SessionInv, BillableInv,
      LiveBillMeansCompleted, Live, HasBill, BillRow, OrderRow, Request
<1>41. ASSUME NEW s \in Session, UnmergeCommit(s)
      PROVE  (BillableInv /\ LiveBillMeansCompleted)'
  <2>1. /\ req[s] \in Request /\ req[s].ord \in Order /\ BInv
        /\ UNCHANGED bill /\ Finish(s)
    BY <1>41, RequestFields DEF UnmergeCommit, At, LInv
  <2>2. /\ req'[s].op = "none" /\ req'[s].phase = "idle"
        /\ \A t \in Session : t # s => req'[t] = req[t]
    BY <2>1, AnswerValue DEF Finish, Idle
  <2>3. /\ loose \subseteq loose'
        /\ \A o \in Order : order[o].status = "COMPLETED" =>
             order'[o].status = "COMPLETED" \/ o \in loose'
    BY <1>41, <2>1 DEF UnmergeCommit, Loosened, BInv, TypeOK, OrderRow, Request
  <2>4. \A t \in Session : req[t].phase # "idle" => req[t].ord \in Order
    BY <2>1 DEF BInv, SessionInv
  <2> QED
    BY <2>1, <2>2, <2>3, <2>4 DEF LInv, BillableInv, LiveBillMeansCompleted, Live, HasBill
<1> QED
  BY
      <1>1, <1>2, <1>3, <1>4, <1>5, <1>6, <1>7, <1>8, <1>9, <1>10, <1>11,
      <1>12, <1>13, <1>14, <1>15, <1>16, <1>17, <1>18, <1>19, <1>20, <1>21,
      <1>22, <1>23, <1>24, <1>25, <1>26, <1>27, <1>28, <1>29, <1>30, <1>31,
      <1>32, <1>33, <1>34,
      <1>35, <1>36, <1>37, <1>38, <1>39, <1>40, <1>41 DEF Next

-----------------------------------------------------------------------------
(* Theorems *)

LEMMA BaseInit ==
  ASSUME Init
  PROVE  BInv
<1>1. NoBill \in BillRow
  BY DEF NoBill, BillRow
<1>2. Idle \in Request
  BY DEF Idle, Request, Phase
<1>3. order \in [Order -> OrderRow]
  BY DEF Init, OrderRow
<1>4. TypeOK
  BY <1>1, <1>2, <1>3 DEF Init, TypeOK
<1>5. SessionInv
  BY DEF Init, SessionInv, Idle
<1> QED
  BY <1>4, <1>5 DEF BInv

LEMMA NothingBilled ==
  ASSUME Init
  PROVE  \A o \in Order :
           ~HasBill(o) /\ ~bill[o].cancelled /\ bill[o].paid = 0 /\ received[o] = 0
BY DEF Init, NoBill, HasBill

\* Every variable of Billing keeps its type, for any orders, sessions, amounts
\* and operations.
THEOREM TypeCorrect == Spec => []TypeOK
<1>1. Init => BInv
  BY BaseInit
<1>2. BInv /\ [Next]_vars => BInv'
  BY BaseStep
<1>3. BInv => TypeOK
  BY DEF BInv
<1> QED
  BY <1>1, <1>2, <1>3, PTL DEF Spec

\* Whatever interleaves and wherever handlers fail, no bill shows more paid than
\* its payments add up to (createPayment, splitPayment, collectPayment).
THEOREM CreditNeverExceedsReceipts == Spec => []CreditIsReceived
<1>1. Init => CInv
  <2> SUFFICES ASSUME Init
               PROVE  CInv
    OBVIOUS
  <2>1. SeenInv
    BY DEF Init, SeenInv, Idle
  <2>2. CreditIsReceived
    BY NothingBilled DEF CreditIsReceived
  <2> QED
    BY <2>1, <2>2, BaseInit DEF CInv
<1>2. CInv /\ [Next]_vars => CInv'
  BY BaseStep, CreditStep DEF CInv
<1>3. CInv => CreditIsReceived
  BY DEF CInv
<1> QED
  BY <1>1, <1>2, <1>3, PTL DEF Spec

\* Any number of cashiers collecting, cancelling and completing any number of
\* orders: an order that took money took it once, its bill is paid in full and it
\* is completed (collectPayment's unique Bill.orderId and number).
THEOREM MoneyIsCollectedOnce ==
  ASSUME CollectOnly
  PROVE  Spec => []CollectedOnce
<1>1. Init => OInv
  <2> SUFFICES ASSUME Init
               PROVE  OInv
    OBVIOUS
  <2>1. ExactInv /\ FreshInv
    <3>1. \A s \in Session : req[s] = Idle
      BY DEF Init
    <3> QED
      BY <3>1, NothingBilled DEF ExactInv, FreshInv, Idle
  <2>2. CollectedOnce
    BY NothingBilled DEF CollectedOnce
  <2> QED
    BY <2>1, <2>2, BaseInit DEF OInv
<1>2. OInv /\ [Next]_vars => OInv'
  BY BaseStep, OnceStep DEF OInv
<1>3. OInv => CollectedOnce
  BY DEF OInv
<1> QED
  BY <1>1, <1>2, <1>3, PTL DEF Spec

\* An order with a live bill is completed, whatever handlers race on it and
\* wherever they fail, unless one that looks at no bill took it away from COMPLETED
\* or it was collected short: createBill's check, cancelBill's reset, cancelOrder's
\* claim and collectPayment's completion keep the two together.
THEOREM LiveBillsAreOfCompletedOrders == Spec => []LiveBillMeansCompleted
<1>1. Init => LInv
  <2> SUFFICES ASSUME Init
               PROVE  LInv
    OBVIOUS
  <2>1. \A s \in Session : req[s] = Idle
    BY DEF Init
  <2>2. BillableInv
    BY <2>1 DEF BillableInv, Idle
  <2>3. LiveBillMeansCompleted
    BY NothingBilled DEF LiveBillMeansCompleted, Live
  <2> QED
    BY <2>2, <2>3, BaseInit DEF LInv
<1>2. LInv /\ [Next]_vars => LInv'
  BY BaseStep, LiveStep DEF LInv
<1>3. LInv => LiveBillMeansCompleted
  BY DEF LInv
<1> QED
  BY <1>1, <1>2, <1>3, PTL DEF Spec

-----------------------------------------------------------------------------
(* Discounts: the inductive invariant *)

IsPromo(r) ==
  r = [on |-> r.on, archived |-> r.archived, due |-> r.due, stack |-> r.stack,
       worth |-> r.worth, limit |-> r.limit, per |-> r.per, most |-> r.most, used |-> r.used]

IsTill(r) ==
  r = [op |-> r.op, phase |-> r.phase, sale |-> r.sale, from |-> r.from, promo |-> r.promo,
       row |-> r.row, sub |-> r.sub, amt |-> r.amt, sum |-> r.sum, extra |-> r.extra,
       direct |-> r.direct, limit |-> r.limit, per |-> r.per, most |-> r.most,
       stack |-> r.stack, on |-> r.on, own |-> r.own, had |-> r.had]

PromoOK(r) == IsPromo(r) /\ r.used \in Nat /\ r.limit \in Nat

\* A promotion that always had a limit has one, no higher than the highest it had.
PromoInv ==
  /\ DOMAIN promo = Promo /\ \A p \in Promo : PromoOK(promo[p])
  /\ summit \in [Promo -> Nat]
  /\ always \subseteq Promo
  /\ \A p \in always : 0 < promo[p].limit /\ promo[p].limit <= summit[p]

\* Discounts have ids of their own.
GivenInv ==
  /\ IsFiniteSet(given)
  /\ \A g \in given : g.id \in 1..MaxGiven /\ g.promo \in Promo \cup {NoPromo}
  /\ \A g, h \in given : g.id = h.id => g = h

\* What a request holds fits the rows: one that has claimed a use of a promotion has
\* left it below the limit, and one that has deleted a discount of a promotion finds it.
Fits(r) ==
  /\ IsTill(r)
  /\ r.phase = "open" => r.op \in {"apply", "remove"}
  /\ r.op \in {"apply", "edit", "switch"} => r.promo \in Promo /\ r.limit \in Nat
  /\ r.op = "apply" /\ r.promo \in always =>
       /\ 0 < r.limit /\ r.limit <= summit[r.promo]
       /\ r.phase = "open" => promo[r.promo].used < r.limit
  /\ r.op = "remove" =>
       /\ r.promo \in Promo \cup {NoPromo}
       /\ \A g \in given : g.id = r.row => g.promo = r.promo
       /\ r.phase = "open" => \E g \in given : g.id = r.row

\* Two open transactions hold different promotions, of those that always had a limit,
\* and different discounts.
Apart(r, q) ==
  r.phase = "open" /\ q.phase = "open" =>
    /\ r.promo = q.promo => r.promo \notin always
    /\ r.op = "remove" /\ q.op = "remove" => r.row # q.row

TillInv ==
  /\ DOMAIN till = Cashier
  /\ \A s \in Cashier : Fits(till[s])
  /\ \A s, t \in Cashier : s # t => Apart(till[s], till[t])

UsesInv == PromoInv /\ GivenInv /\ TillInv /\ UsesAreCounted

-----------------------------------------------------------------------------

LEMMA IdleFits == Fits(TillIdle) /\ \A q : Apart(TillIdle, q)
  BY DEF Fits, Apart, IsTill, TillIdle

LEMMA UsesStart == ASSUME DiscountInit PROVE UsesInv
<1> USE DiscountAssumption DEF DiscountInit
<1>1. PromoInv
  <2>1. \A p \in Promo : /\ promo[p] \in NewPromo /\ summit[p] = promo[p].limit
                         /\ DOMAIN promo = Promo /\ DOMAIN summit = Promo
    OBVIOUS
  <2>2. \A p \in Promo : PromoOK(promo[p])
    <3>1. ASSUME NEW r \in NewPromo PROVE IsPromo(r) /\ r.used = 0 /\ r.limit \in 0..MaxLimit
      BY DEF NewPromo, IsPromo
    <3>2. QED
      BY <2>1, <3>1 DEF PromoOK
  <2>3. QED
    BY <2>1, <2>2 DEF PromoInv, Limited, PromoOK
<1>2. GivenInv
  BY FS_EmptySet DEF GivenInv
<1>3. TillInv
  <2>1. DOMAIN till = Cashier /\ \A s \in Cashier : till[s] = TillIdle
    OBVIOUS
  <2>2. QED
    BY <2>1, IdleFits DEF TillInv
<1>4. UsesAreCounted
  <2> SUFFICES ASSUME NEW p \in always
               PROVE  promo[p].used = Cardinality(Uses(p)) /\ promo[p].used <= summit[p]
    BY DEF UsesAreCounted
  <2>1. Uses(p) = {} /\ p \in Promo /\ summit[p] \in Nat
    BY <1>1 DEF Uses, PromoInv
  <2>a. promo[p].used = 0
    <3>1. promo[p] \in NewPromo
      BY <2>1
    <3>2. QED
      BY <3>1 DEF NewPromo
  <2>2. QED
    BY <2>1, <2>a, FS_EmptySet
<1>5. QED
  BY <1>1, <1>2, <1>3, <1>4 DEF UsesInv

\* The steps that write neither promotions nor discounts.
LEMMA Served ==
  ASSUME UsesInv, UNCHANGED <<promo, given, always, summit>>,
         NEW s \in Cashier, NEW r, till' = [till EXCEPT ![s] = r],
         Fits(r), \A t \in Cashier \ {s} : Apart(r, till[t])
  PROVE  UsesInv'
<1>1. PromoInv' /\ GivenInv' /\ UsesAreCounted'
  BY DEF UsesInv, PromoInv, GivenInv, UsesAreCounted, Uses
<1>2. /\ DOMAIN till' = Cashier /\ till'[s] = r
      /\ \A t \in Cashier \ {s} : till'[t] = till[t]
  BY DEF UsesInv, TillInv
<1>3. ASSUME NEW t \in Cashier PROVE Fits(till[t])'
  <2>1. PICK q : q = till'[t] /\ Fits(q)
    BY <1>2 DEF UsesInv, TillInv
  <2>2. Fits(q)'
    BY <2>1 DEF Fits
  <2>3. QED
    BY <2>1, <2>2 DEF Fits
<1>4. ASSUME NEW t \in Cashier, NEW u \in Cashier, t # u PROVE Apart(till[t], till[u])'
  <2>1. \A q : Apart(r, q) <=> Apart(q, r)
    BY DEF Apart
  <2>2. PICK q, k : q = till'[t] /\ k = till'[u] /\ Apart(q, k)
    BY <1>2, <1>4, <2>1 DEF UsesInv, TillInv
  <2>3. QED
    BY <2>2 DEF Apart
<1>5. TillInv'
  BY <1>2, <1>3, <1>4 DEF TillInv
<1>6. QED
  BY <1>1, <1>5 DEF UsesInv

-----------------------------------------------------------------------------
(* The steps that only read, and those on orders and bills *)

LEMMA EditAsks ==
  ASSUME NEW s, ReadForEdit(s)
  PROVE  \E p \in Promo, limit \in 0..MaxLimit, per \in 0..MaxLimit, most \in 1..2,
            w \in Worths, stack \in BOOLEAN, on \in BOOLEAN :
           Give(s, ToEdit(p, limit, per, most, w, stack, on))
  BY DEF ReadForEdit

\* A request that is not in a transaction stands in nobody's way.
LEMMA NotOpen == ASSUME NEW r, r.phase # "open" PROVE \A q : Apart(r, q)
  BY DEF Apart

LEMMA ReadStep ==
  ASSUME UsesInv, NEW s \in Cashier,
         \/ ReadForApply(s) \/ ReadForManual(s) \/ ReadForRemove(s) \/ ReadForDirect(s)
         \/ ReadForEdit(s) \/ ReadForSwitch(s) \/ DropRequest(s)
         \/ WriteDirect(s) \/ SyncDirect(s)
         \/ ReadForReplace(s) \/ updateOrder(s) \/ ReadForMerge(s) \/ mergeOrders(s)
         \/ ReadForBill(s) \/ createBill(s) \/ ReadForBillDiscount(s)
         \/ updateBillDiscount(s) \/ ReadForCollect(s) \/ collectPayment(s)
  PROVE  UsesInv'
<1>1. UNCHANGED <<promo, given, always, summit>>
  BY DEF ReadForApply, ReadForManual, ReadForRemove, ReadForDirect, ReadForEdit,
         ReadForSwitch, DropRequest, WriteDirect, SyncDirect, ReadForReplace, updateOrder,
         ReadForMerge, mergeOrders, ReadForBill, createBill, ReadForBillDiscount,
         updateBillDiscount, ReadForCollect, collectPayment
<1>2. ASSUME NEW r, till' = [till EXCEPT ![s] = r], IsTill(r), r.phase # "open",
             r.op \in {"apply", "edit", "switch"} => r.promo \in Promo /\ r.limit \in Nat,
             r.op = "apply" /\ r.promo \in always => 0 < r.limit /\ r.limit <= summit[r.promo],
             r.op = "remove" => /\ r.promo \in Promo \cup {NoPromo}
                                /\ \A g \in given : g.id = r.row => g.promo = r.promo
      PROVE  UsesInv'
  <2>1. Fits(r)
    BY <1>2 DEF Fits
  <2>2. QED
    BY <1>1, <1>2, <2>1, NotOpen, Served
<1>3. CASE ReadForApply(s)
  <2>1. PICK o \in Sale, p \in Promo :
          Give(s, [TillIdle EXCEPT !.op = "apply", !.phase = "checked", !.sale = o,
                      !.promo = p, !.sub = sale[o].sub, !.limit = promo[p].limit,
                      !.amt = calculateDiscountAmount(promo[p].worth, sale[o].sub)])
    BY <1>3 DEF ReadForApply
  <2>2. PICK r : r = [TillIdle EXCEPT !.op = "apply", !.phase = "checked", !.sale = o,
                      !.promo = p, !.sub = sale[o].sub, !.limit = promo[p].limit,
                      !.amt = calculateDiscountAmount(promo[p].worth, sale[o].sub)]
    OBVIOUS
  <2>3. /\ IsTill(r) /\ r.phase = "checked" /\ r.op = "apply" /\ r.promo = p
        /\ r.limit = promo[p].limit
    BY <2>2 DEF TillIdle, IsTill
  <2>4. /\ promo[p].limit \in Nat
        /\ p \in always => 0 < promo[p].limit /\ promo[p].limit <= summit[p]
    BY DEF UsesInv, PromoInv, PromoOK
  <2>5. till' = [till EXCEPT ![s] = r]
    BY <2>1, <2>2 DEF Give
  <2>6. QED
    BY <1>2, <2>3, <2>4, <2>5
<1>4. CASE ReadForManual(s)
  <2>1. PICK o \in Sale, w \in Worths :
          Give(s, [TillIdle EXCEPT !.op = "manual", !.phase = "checked", !.sale = o,
                      !.sub = sale[o].sub,
                      !.amt = calculateDiscountAmount(w, sale[o].sub)])
    BY <1>4 DEF ReadForManual
  <2>2. PICK r : r = [TillIdle EXCEPT !.op = "manual", !.phase = "checked", !.sale = o,
                      !.sub = sale[o].sub,
                      !.amt = calculateDiscountAmount(w, sale[o].sub)]
    OBVIOUS
  <2>3. IsTill(r) /\ r.phase = "checked" /\ r.op = "manual"
    BY <2>2 DEF TillIdle, IsTill
  <2>4. till' = [till EXCEPT ![s] = r]
    BY <2>1, <2>2 DEF Give
  <2>5. QED
    BY <1>2, <2>3, <2>4
<1>5. CASE ReadForRemove(s)
  <2>1. PICK g \in given :
          Give(s, [TillIdle EXCEPT !.op = "remove", !.phase = "checked", !.sale = g.sale,
                      !.promo = g.promo, !.row = g.id, !.sub = sale[g.sale].sub])
    BY <1>5 DEF ReadForRemove
  <2>2. PICK r : r = [TillIdle EXCEPT !.op = "remove", !.phase = "checked", !.sale = g.sale,
                      !.promo = g.promo, !.row = g.id, !.sub = sale[g.sale].sub]
    OBVIOUS
  <2>3. IsTill(r) /\ r.phase = "checked" /\ r.op = "remove" /\ r.promo = g.promo /\ r.row = g.id
    BY <2>2 DEF TillIdle, IsTill
  <2>4. /\ g.promo \in Promo \cup {NoPromo}
        /\ \A h \in given : h.id = g.id => h.promo = g.promo
    BY DEF UsesInv, GivenInv
  <2>5. till' = [till EXCEPT ![s] = r]
    BY <2>1, <2>2 DEF Give
  <2>6. QED
    BY <1>2, <2>3, <2>4, <2>5
<1>6. CASE ReadForDirect(s)
  <2>1. PICK o \in Sale, w \in {Unset, 0} \cup Worths :
          Give(s, [TillIdle EXCEPT !.op = "direct", !.phase = "checked", !.sale = o,
                      !.sub = sale[o].sub, !.direct = w])
    BY <1>6 DEF ReadForDirect
  <2>2. PICK r : r = [TillIdle EXCEPT !.op = "direct", !.phase = "checked", !.sale = o,
                      !.sub = sale[o].sub, !.direct = w]
    OBVIOUS
  <2>3. IsTill(r) /\ r.phase = "checked" /\ r.op = "direct"
    BY <2>2 DEF TillIdle, IsTill
  <2>4. till' = [till EXCEPT ![s] = r]
    BY <2>1, <2>2 DEF Give
  <2>5. QED
    BY <1>2, <2>3, <2>4
<1>7. CASE ReadForEdit(s)
  <2>1. PICK p \in Promo, limit \in 0..MaxLimit, per \in 0..MaxLimit, most \in 1..2,
             w \in Worths, stack \in BOOLEAN, on \in BOOLEAN :
          Give(s, ToEdit(p, limit, per, most, w, stack, on))
    BY <1>7, EditAsks
  <2>2. PICK r : r = [TillIdle EXCEPT !.op = "edit", !.phase = "checked", !.promo = p,
                      !.limit = limit, !.per = per, !.most = most, !.amt = w,
                      !.stack = stack, !.on = on]
    OBVIOUS
  <2>3. /\ IsTill(r) /\ r.phase = "checked" /\ r.op = "edit" /\ r.promo = p
        /\ r.limit = limit
    BY <2>2 DEF TillIdle, IsTill
  <2>a. limit \in Nat
    BY DiscountAssumption
  <2>4. till' = [till EXCEPT ![s] = r]
    BY <2>1, <2>2 DEF Give, ToEdit
  <2>5. QED
    BY <1>2, <2>3, <2>a, <2>4
<1>8. CASE ReadForSwitch(s)
  <2>1. PICK p \in Promo :
          Give(s, [TillIdle EXCEPT !.op = "switch", !.phase = "checked", !.promo = p,
                      !.on = ~promo[p].on])
    BY <1>8 DEF ReadForSwitch
  <2>2. PICK r : r = [TillIdle EXCEPT !.op = "switch", !.phase = "checked", !.promo = p,
                      !.on = ~promo[p].on]
    OBVIOUS
  <2>3. /\ IsTill(r) /\ r.phase = "checked" /\ r.op = "switch" /\ r.promo = p
        /\ r.limit \in Nat
    BY <2>2 DEF TillIdle, IsTill
  <2>4. till' = [till EXCEPT ![s] = r]
    BY <2>1, <2>2 DEF Give
  <2>5. QED
    BY <1>2, <2>3, <2>4
<1>9. CASE \/ DropRequest(s) \/ SyncDirect(s) \/ updateOrder(s) \/ mergeOrders(s)
           \/ createBill(s) \/ updateBillDiscount(s) \/ collectPayment(s)
  <2>1. till' = [till EXCEPT ![s] = TillIdle]
    BY <1>9 DEF DropRequest, SyncDirect, updateOrder, mergeOrders, createBill,
                updateBillDiscount, collectPayment, Return, Give
  <2>2. QED
    BY <1>1, <2>1, IdleFits, Served
<1>10. CASE WriteDirect(s)
  <2>1. PICK r : /\ till' = [till EXCEPT ![s] = r]
                 /\ \E x : r = [till[s] EXCEPT !.phase = "sync", !.sum = x]
    BY <1>10 DEF WriteDirect, Give
  <2>2. IsTill(till[s]) /\ till[s].op = "direct"
    BY <1>10 DEF UsesInv, TillInv, Fits, WriteDirect
  <2>3. IsTill(r) /\ r.phase = "sync" /\ r.op = "direct"
    BY <2>1, <2>2 DEF IsTill
  <2>4. QED
    BY <1>2, <2>1, <2>3
<1>11. CASE ReadForReplace(s)
  <2>1. PICK o \in Sale, k \in Subs, w \in {Unset, 0} \cup Worths :
          Give(s, [TillIdle EXCEPT !.op = "replace", !.phase = "checked", !.sale = o,
                      !.sub = k, !.direct = w])
    BY <1>11 DEF ReadForReplace
  <2>2. PICK r : r = [TillIdle EXCEPT !.op = "replace", !.phase = "checked", !.sale = o,
                      !.sub = k, !.direct = w]
    OBVIOUS
  <2>3. IsTill(r) /\ r.phase = "checked" /\ r.op = "replace"
    BY <2>2 DEF TillIdle, IsTill
  <2>4. till' = [till EXCEPT ![s] = r]
    BY <2>1, <2>2 DEF Give
  <2>5. QED
    BY <1>2, <2>3, <2>4
<1>12. CASE ReadForMerge(s)
  <2>1. PICK o \in Sale, k \in Sale :
          Give(s, [TillIdle EXCEPT !.op = "merge", !.phase = "checked", !.sale = o,
                      !.from = k])
    BY <1>12 DEF ReadForMerge
  <2>2. PICK r : r = [TillIdle EXCEPT !.op = "merge", !.phase = "checked", !.sale = o,
                      !.from = k]
    OBVIOUS
  <2>3. IsTill(r) /\ r.phase = "checked" /\ r.op = "merge"
    BY <2>2 DEF TillIdle, IsTill
  <2>4. till' = [till EXCEPT ![s] = r]
    BY <2>1, <2>2 DEF Give
  <2>5. QED
    BY <1>2, <2>3, <2>4
<1>13. CASE ReadForBill(s)
  <2>1. \E o, d, x, b : Give(s, ToBill(o, d, x, b))
    BY <1>13 DEF ReadForBill
  <2>2. PICK o, d, x, b, r : r = ToBill(o, d, x, b) /\ Give(s, r)
    BY <2>1
  <2>3. IsTill(r) /\ r.phase = "checked" /\ r.op = "bill"
    BY <2>2 DEF ToBill, TillIdle, IsTill
  <2>4. till' = [till EXCEPT ![s] = r]
    BY <2>2 DEF Give
  <2>5. QED
    BY <1>2, <2>3, <2>4
<1>14. CASE ReadForBillDiscount(s)
  <2>1. PICK o, y, r :
          /\ r = [TillIdle EXCEPT !.op = "billDiscount", !.phase = "checked", !.sale = o,
                      !.sum = y]
          /\ till' = [till EXCEPT ![s] = r]
    BY <1>14 DEF ReadForBillDiscount, Give
  <2>2. IsTill(r) /\ r.phase = "checked" /\ r.op = "billDiscount"
    BY <2>1 DEF TillIdle, IsTill
  <2>3. QED
    BY <1>2, <2>1, <2>2
<1>15. CASE ReadForCollect(s)
  <2>1. \E o, d, w, x : Give(s, ToCollect(o, d, w, x))
    BY <1>15 DEF ReadForCollect
  <2>2. PICK o, d, w, x, r : r = ToCollect(o, d, w, x) /\ Give(s, r)
    BY <2>1
  <2>3. IsTill(r) /\ r.phase = "checked" /\ r.op = "collect"
    BY <2>2 DEF ToCollect, TillIdle, IsTill
  <2>4. till' = [till EXCEPT ![s] = r]
    BY <2>2 DEF Give
  <2>5. QED
    BY <1>2, <2>3, <2>4
<1>16. QED
  BY <1>3, <1>4, <1>5, <1>6, <1>7, <1>8, <1>9, <1>10, <1>11, <1>12, <1>13, <1>14, <1>15

\* The transaction begins, alone on the promotion and the discount it locks.
LEMMA OpenStep ==
  ASSUME UsesInv, NEW s \in Cashier, Claim(s) \/ Delete(s)
  PROVE  UsesInv'
<1>1. UNCHANGED <<promo, given, always, summit>>
  BY DEF Claim, Delete
<1>2. Fits(till[s]) /\ \A t \in Cashier : Fits(till[t])
  BY DEF UsesInv, TillInv
<1>3. CASE Return(s)
  BY <1>1, <1>3, IdleFits, Served DEF Return, Give
<1>4. CASE Claim(s) /\ ~Return(s)
  <2>1. PICK r, x : /\ r = [till[s] EXCEPT !.phase = "open", !.sum = x]
                    /\ till' = [till EXCEPT ![s] = r]
    BY <1>4 DEF Claim, Give
  <2>2. /\ till[s].op = "apply" /\ IsTill(till[s])
        /\ till[s].limit > 0 => PromoFree(s, till[s].promo) /\ Claimed(till[s].promo, till[s].limit)
    BY <1>2, <1>4 DEF Claim, Fits
  <2>3. /\ IsTill(r) /\ r.phase = "open" /\ r.op = "apply" /\ r.promo = till[s].promo
        /\ r.limit = till[s].limit
    BY <2>1, <2>2 DEF IsTill
  <2>4. /\ r.promo \in Promo /\ r.limit \in Nat
        /\ r.promo \in always => 0 < r.limit /\ r.limit <= summit[r.promo]
    BY <1>2, <2>2, <2>3 DEF Fits
  <2>5. r.promo \in always => promo[r.promo].used < r.limit
    BY <2>2, <2>3, <2>4 DEF Claimed, UsesInv, PromoInv
  <2>6. Fits(r)
    BY <2>3, <2>4, <2>5 DEF Fits
  <2>7. ASSUME NEW t \in Cashier \ {s} PROVE Apart(r, till[t])
    <3> SUFFICES ASSUME till[t].phase = "open", r.promo = till[t].promo, r.promo \in always
                 PROVE  FALSE
      BY <2>3 DEF Apart
    <3>1. till[t].op = "apply" /\ till[t].limit = 0
      BY <2>2, <2>3, <2>4 DEF PromoFree
    <3>2. QED
      BY <3>1, <1>2 DEF Fits
  <2>8. QED
    BY <1>1, <2>1, <2>6, <2>7, Served
<1>5. CASE Delete(s) /\ ~Return(s)
  <2>1. PICK r, x : /\ r = [till[s] EXCEPT !.phase = "open", !.sum = x]
                    /\ till' = [till EXCEPT ![s] = r]
    BY <1>5 DEF Delete, Give
  <2>2. /\ till[s].op = "remove" /\ IsTill(till[s])
        /\ till[s].promo # NoPromo => PromoFree(s, till[s].promo)
        /\ \E g \in given : g.id = till[s].row
        /\ \A t \in Cashier \ {s} : ~(till[t].phase = "open" /\ till[t].row = till[s].row)
    BY <1>2, <1>5 DEF Delete, Fits
  <2>3. /\ IsTill(r) /\ r.phase = "open" /\ r.op = "remove" /\ r.promo = till[s].promo
        /\ r.row = till[s].row
    BY <2>1, <2>2 DEF IsTill
  <2>4. Fits(r)
    BY <1>2, <2>2, <2>3 DEF Fits
  <2>5. ASSUME NEW t \in Cashier \ {s} PROVE Apart(r, till[t])
    <3> SUFFICES ASSUME till[t].phase = "open", r.promo = till[t].promo, r.promo \in always
                 PROVE  FALSE
      BY <2>2, <2>3 DEF Apart
    <3>1. r.promo # NoPromo
      BY DiscountAssumption DEF UsesInv, PromoInv
    <3>2. till[t].op = "apply" /\ till[t].limit = 0
      BY <2>2, <2>3, <3>1 DEF PromoFree
    <3>3. QED
      BY <3>2, <1>2 DEF Fits
  <2>6. QED
    BY <1>1, <2>1, <2>4, <2>5, Served
<1>6. QED
  BY <1>3, <1>4, <1>5

LEMMA OrderStep ==
  ASSUME UsesInv, UNCHANGED <<promo, given, always, summit, till>>
  PROVE  UsesInv'
<1>1. PromoInv' /\ GivenInv' /\ UsesAreCounted'
  BY DEF UsesInv, PromoInv, GivenInv, UsesAreCounted, Uses
<1>2. TillInv'
  BY DEF UsesInv, TillInv, Fits, Apart
<1>3. QED
  BY <1>1, <1>2 DEF UsesInv

-----------------------------------------------------------------------------
(* The steps that write promotions or discounts *)

\* What remains to be shown of the other requests when one is answered.
LEMMA AnswerKept ==
  ASSUME UsesInv, NEW s \in Cashier, Return(s), always' \subseteq always,
         \A q : \A t \in Cashier \ {s} : q = till[t] => Fits(q)'
  PROVE  TillInv'
<1>1. /\ DOMAIN till' = Cashier /\ till'[s] = TillIdle
      /\ \A t \in Cashier \ {s} : till'[t] = till[t]
  BY DEF UsesInv, TillInv, Return, Give
<1>2. ASSUME NEW t \in Cashier PROVE Fits(till[t])'
  <2>1. CASE t = s
    BY <1>1, <2>1 DEF Fits, IsTill, TillIdle
  <2>2. CASE t # s
    <3>1. PICK q : q = till'[t] /\ Fits(q)'
      BY <1>1, <2>2
    <3>2. QED
      BY <3>1 DEF Fits
  <2>3. QED
    BY <2>1, <2>2
<1>3. ASSUME NEW t \in Cashier, NEW u \in Cashier, t # u PROVE Apart(till[t], till[u])'
  <2>1. CASE t = s \/ u = s
    BY <1>1, <2>1 DEF Apart, TillIdle
  <2>2. CASE t # s /\ u # s
    BY <1>1, <1>3, <2>2 DEF UsesInv, TillInv, Apart
  <2>3. QED
    BY <2>1, <2>2
<1>4. QED
  BY <1>1, <1>2, <1>3 DEF TillInv

LEMMA UsesAreFinite ==
  ASSUME UsesInv, NEW p
  PROVE  IsFiniteSet(Uses(p)) /\ Cardinality(Uses(p)) \in Nat
  BY FS_Subset, FS_CardinalityType DEF UsesInv, GivenInv, Uses

\* There is an id left as long as there is room.
LEMMA NewIdIsNew ==
  ASSUME GivenInv, Cardinality(given) < MaxGiven
  PROVE  NewId \in 1..MaxGiven /\ \A g \in given : g.id # NewId
<1> USE DiscountAssumption
<1>1. \E k \in 1..MaxGiven : \A g \in given : g.id # k
  <2> SUFFICES ASSUME \A k \in 1..MaxGiven : \E g \in given : g.id = k
               PROVE  FALSE
    OBVIOUS
  <2> DEFINE f == [g \in given |-> g.id]
  <2>1. f \in [given -> 1..MaxGiven] /\ \A k \in 1..MaxGiven : \E g \in given : f[g] = k
    BY DEF GivenInv
  <2>2. f \in Surjection(given, 1..MaxGiven)
    <3> HIDE DEF f
    <3>1. QED
      BY <2>1 DEF Surjection
  <2>3. Cardinality(1..MaxGiven) <= Cardinality(given)
    <3> HIDE DEF f
    <3>1. QED
      BY <2>2, FS_Surjection DEF GivenInv
  <2>4. Cardinality(1..MaxGiven) = MaxGiven
    BY FS_Interval
  <2>5. Cardinality(given) \in Nat
    BY FS_CardinalityType DEF GivenInv
  <2>6. QED
    BY <2>3, <2>4, <2>5
<1>2. QED
  BY <1>1 DEF NewId

\* A discount is added to those in force.
LEMMA GivenAdded ==
  ASSUME UsesInv, Cardinality(given) < MaxGiven, NEW n, n.id = NewId,
         n.promo \in Promo \cup {NoPromo}, given' = given \cup {n}
  PROVE  /\ GivenInv'
         /\ \A p : Cardinality(Uses(p)') = Cardinality(Uses(p)) + (IF n.promo = p THEN 1 ELSE 0)
<1>1. NewId \in 1..MaxGiven /\ \A g \in given : g.id # NewId
  BY NewIdIsNew DEF UsesInv
<1>2. GivenInv'
  <2>1. IsFiniteSet(given')
    BY FS_AddElement DEF UsesInv, GivenInv
  <2>2. QED
    BY <1>1, <2>1 DEF UsesInv, GivenInv
<1>3. ASSUME NEW p
      PROVE  Cardinality(Uses(p)') = Cardinality(Uses(p)) + (IF n.promo = p THEN 1 ELSE 0)
  <2>1. IsFiniteSet(Uses(p)) /\ Cardinality(Uses(p)) \in Nat
    BY UsesAreFinite
  <2>2. CASE n.promo = p
    <3>1. Uses(p)' = Uses(p) \cup {n} /\ n \notin Uses(p)
      BY <1>1, <2>2 DEF Uses
    <3>2. QED
      BY <2>1, <2>2, <3>1, FS_AddElement
  <2>3. CASE n.promo # p
    <3>1. Uses(p)' = Uses(p)
      BY <2>3 DEF Uses
    <3>2. QED
      BY <2>1, <2>3, <3>1
  <2>4. QED
    BY <2>2, <2>3
<1>4. QED
  BY <1>2, <1>3

LEMMA ApplyStep == ASSUME UsesInv, NEW s \in Cashier, Apply(s) PROVE UsesInv'
<1> DEFINE p == till[s].promo
           more == IF till[s].limit > 0 THEN 1 ELSE 0
<1>1. /\ till[s].op = "apply" /\ till[s].phase = "open" /\ HasRoom(s) /\ Return(s)
      /\ promo' = [promo EXCEPT ![p].used = @ + more]
      /\ UNCHANGED <<always, summit>>
  BY DEF Apply
<1>2. Fits(till[s]) /\ \A t \in Cashier : Fits(till[t])
  BY DEF UsesInv, TillInv
<1>3. p \in Promo /\ till[s].limit \in Nat /\ more \in {0, 1}
  BY <1>1, <1>2 DEF Fits
<1>4. PICK n : n.id = NewId /\ n.promo = p /\ given' = given \cup {n}
  BY DEF Apply
<1>5. /\ GivenInv'
      /\ \A q : Cardinality(Uses(q)') = Cardinality(Uses(q)) + (IF p = q THEN 1 ELSE 0)
  BY <1>1, <1>3, <1>4, GivenAdded DEF HasRoom
<1>6. /\ DOMAIN promo' = Promo
      /\ \A q \in Promo \ {p} : promo'[q] = promo[q]
      /\ promo'[p] = [promo[p] EXCEPT !.used = promo[p].used + more]
  <2> HIDE DEF more, p
  <2>1. QED
    BY <1>1, <1>3 DEF UsesInv, PromoInv
<1>7. /\ PromoOK(promo'[p]) /\ promo'[p].used = promo[p].used + more
      /\ promo'[p].limit = promo[p].limit
  <2>1. PromoOK(promo[p])
    BY <1>3 DEF UsesInv, PromoInv
  <2> HIDE DEF more, p
  <2>2. QED
    BY <1>3, <1>6, <2>1 DEF PromoOK, IsPromo
<1>8. PromoInv'
  <2> HIDE DEF more, p
  <2>1. QED
    BY <1>1, <1>6, <1>7 DEF UsesInv, PromoInv
<1>9. UsesAreCounted'
  <2> SUFFICES ASSUME NEW q \in always
               PROVE  /\ promo'[q].used = Cardinality(Uses(q)')
                      /\ promo'[q].used <= summit[q]
    BY <1>1 DEF UsesAreCounted
  <2>1. /\ promo[q].used = Cardinality(Uses(q)) /\ promo[q].used <= summit[q]
        /\ q \in Promo /\ summit[q] \in Nat /\ promo[q].used \in Nat
    BY DEF UsesInv, UsesAreCounted, PromoInv, PromoOK
  <2>2. CASE q = p
    <3>1. more = 1 /\ promo[p].used < till[s].limit /\ till[s].limit <= summit[p]
      BY <1>1, <1>2, <2>2 DEF Fits
    <3> HIDE DEF more, p
    <3>2. QED
      BY <1>3, <1>5, <1>7, <2>1, <2>2, <3>1
  <2>3. CASE q # p
    <3> HIDE DEF more, p
    <3>1. QED
      BY <1>5, <1>6, <2>1, <2>3
  <2>4. QED
    BY <2>2, <2>3
<1>10. ASSUME NEW t \in Cashier \ {s}, NEW q, q = till[t] PROVE Fits(q)'
  <2>1. Fits(q) /\ q.op # "remove" /\ Apart(q, till[s])
    BY <1>1, <1>2, <1>10 DEF HasRoom, UsesInv, TillInv
  <2>2. q.op = "apply" /\ q.promo \in always /\ q.phase = "open" =>
          promo'[q.promo].used < q.limit
    <3> SUFFICES ASSUME q.op = "apply", q.promo \in always, q.phase = "open"
                 PROVE  promo'[q.promo].used < q.limit
      OBVIOUS
    <3>1. q.promo # p /\ q.promo \in Promo
      BY <1>1, <2>1 DEF Apart, Fits
    <3> HIDE DEF more, p
    <3>2. QED
      BY <1>6, <2>1, <3>1 DEF Fits
  <2>3. QED
    BY <1>1, <2>1, <2>2 DEF Fits
<1>11. TillInv'
  BY <1>1, <1>10, AnswerKept
<1>12. QED
  BY <1>5, <1>8, <1>9, <1>11 DEF UsesInv

LEMMA ManualStep == ASSUME UsesInv, NEW s \in Cashier, applyManualDiscount(s) PROVE UsesInv'
<1>1. /\ till[s].op = "manual" /\ HasRoom(s) /\ Return(s)
      /\ UNCHANGED <<promo, always, summit>>
  BY DEF applyManualDiscount
<1>2. PICK n : n.id = NewId /\ n.promo = NoPromo /\ given' = given \cup {n}
  BY DEF applyManualDiscount
<1>3. /\ GivenInv'
      /\ \A q : Cardinality(Uses(q)') = Cardinality(Uses(q)) + (IF NoPromo = q THEN 1 ELSE 0)
  BY <1>1, <1>2, GivenAdded DEF HasRoom
<1>4. PromoInv'
  BY <1>1 DEF UsesInv, PromoInv
<1>5. UsesAreCounted'
  <2> SUFFICES ASSUME NEW q \in always
               PROVE  /\ promo[q].used = Cardinality(Uses(q)')
                      /\ promo[q].used <= summit[q]
    BY <1>1 DEF UsesAreCounted
  <2>1. /\ promo[q].used = Cardinality(Uses(q)) /\ promo[q].used <= summit[q]
        /\ q # NoPromo /\ Cardinality(Uses(q)) \in Nat
    BY DiscountAssumption, UsesAreFinite DEF UsesInv, UsesAreCounted, PromoInv
  <2>2. QED
    BY <1>3, <2>1
<1>6. ASSUME NEW t \in Cashier \ {s}, NEW q, q = till[t] PROVE Fits(q)'
  <2>1. Fits(q) /\ q.op # "remove"
    BY <1>1, <1>6 DEF HasRoom, UsesInv, TillInv
  <2>2. QED
    BY <1>1, <2>1 DEF Fits
<1>7. TillInv'
  BY <1>1, <1>6, AnswerKept
<1>8. QED
  BY <1>3, <1>4, <1>5, <1>7 DEF UsesInv

LEMMA RemoveStep == ASSUME UsesInv, NEW s \in Cashier, Remove(s) PROVE UsesInv'
<1> DEFINE p == till[s].promo
<1>1. /\ till[s].op = "remove" /\ till[s].phase = "open" /\ Return(s)
      /\ given' = {g \in given : g.id # till[s].row}
      /\ IF p = NoPromo THEN UNCHANGED promo
         ELSE promo' = [promo EXCEPT ![p].used = GivenBack(p)]
      /\ UNCHANGED <<always, summit>>
  BY DEF Remove
<1>2. Fits(till[s]) /\ \A t \in Cashier : Fits(till[t])
  BY DEF UsesInv, TillInv
<1>3. PICK n \in given : n.id = till[s].row /\ n.promo = p
  BY <1>1, <1>2 DEF Fits
<1>4. given' = given \ {n}
  BY <1>1, <1>3 DEF UsesInv, GivenInv
<1>5. GivenInv'
  BY <1>4, FS_RemoveElement DEF UsesInv, GivenInv
<1>6. \A q : Cardinality(Uses(q)') = Cardinality(Uses(q)) - (IF p = q THEN 1 ELSE 0)
  <2> SUFFICES ASSUME NEW q
               PROVE  Cardinality(Uses(q)') = Cardinality(Uses(q)) - (IF p = q THEN 1 ELSE 0)
    OBVIOUS
  <2>1. IsFiniteSet(Uses(q)) /\ Cardinality(Uses(q)) \in Nat
    BY UsesAreFinite
  <2>2. Uses(q)' = Uses(q) \ {n} /\ (n \in Uses(q) <=> p = q)
    BY <1>3, <1>4 DEF Uses
  <2>3. CASE p = q
    BY <2>1, <2>2, <2>3, FS_RemoveElement, ZenonT(60)
  <2>4. CASE p # q
    <3>1. Uses(q)' = Uses(q)
      BY <2>2, <2>4
    <3>2. QED
      BY <2>1, <2>4, <3>1
  <2>5. QED
    BY <2>3, <2>4
<1>7. /\ DOMAIN promo' = Promo
      /\ \A q \in Promo \ {p} : promo'[q] = promo[q]
      /\ p \in Promo => /\ promo'[p].limit = promo[p].limit /\ PromoOK(promo'[p])
                        /\ promo'[p].used = GivenBack(p)
  <2>1. CASE p = NoPromo
    BY <1>1, <2>1, DiscountAssumption DEF UsesInv, PromoInv
  <2>2. CASE p # NoPromo
    <3>1. p \in Promo
      BY <1>1, <1>2, <2>2 DEF Fits
    <3>2. PromoOK(promo[p]) /\ GivenBack(p) \in Nat /\ DOMAIN promo = Promo
      BY <3>1 DEF UsesInv, PromoInv, PromoOK, GivenBack
    <3>3. promo' = [promo EXCEPT ![p].used = GivenBack(p)]
      BY <1>1, <2>2
    <3>4. PICK b : b = GivenBack(p)
      OBVIOUS
    <3> HIDE DEF p
    <3>5. QED
      BY <3>1, <3>2, <3>3, <3>4 DEF PromoOK, IsPromo
  <2>3. QED
    BY <2>1, <2>2
<1>8. PromoInv'
  <2> HIDE DEF p
  <2>1. QED
    BY <1>1, <1>7 DEF UsesInv, PromoInv
<1>9. UsesAreCounted'
  <2> SUFFICES ASSUME NEW q \in always
               PROVE  /\ promo'[q].used = Cardinality(Uses(q)')
                      /\ promo'[q].used <= summit[q]
    BY <1>1 DEF UsesAreCounted
  <2>1. /\ promo[q].used = Cardinality(Uses(q)) /\ promo[q].used <= summit[q]
        /\ q \in Promo /\ summit[q] \in Nat /\ promo[q].used \in Nat
    BY DEF UsesInv, UsesAreCounted, PromoInv, PromoOK
  <2>2. CASE q = p
    <3>1. Cardinality(Uses(q)) > 0
      <4>1. n \in Uses(q) /\ IsFiniteSet(Uses(q)) /\ Cardinality(Uses(q)) \in Nat
        BY <1>3, <2>2, UsesAreFinite DEF Uses
      <4>2. QED
        BY <4>1, FS_EmptySet
    <3>2. promo'[p].used = promo[p].used - 1
      BY <1>7, <2>1, <2>2, <3>1 DEF GivenBack
    <3> HIDE DEF p
    <3>3. QED
      BY <1>6, <2>1, <2>2, <3>2
  <2>3. CASE q # p
    <3> HIDE DEF p
    <3>1. QED
      BY <1>6, <1>7, <2>1, <2>3
  <2>4. QED
    BY <2>2, <2>3
<1>10. ASSUME NEW t \in Cashier \ {s}, NEW q, q = till[t] PROVE Fits(q)'
  <2>1. Fits(q) /\ Apart(q, till[s])
    BY <1>2, <1>10 DEF UsesInv, TillInv
  <2>2. q.op = "apply" /\ q.promo \in always /\ q.phase = "open" =>
          promo'[q.promo].used < q.limit
    <3> SUFFICES ASSUME q.op = "apply", q.promo \in always, q.phase = "open"
                 PROVE  promo'[q.promo].used < q.limit
      OBVIOUS
    <3>1. q.promo # p /\ q.promo \in Promo
      BY <1>1, <2>1 DEF Apart, Fits
    <3> HIDE DEF p
    <3>2. QED
      BY <1>7, <2>1, <3>1 DEF Fits
  <2>3. q.op = "remove" /\ q.phase = "open" => \E g \in given' : g.id = q.row
    BY <1>1, <2>1 DEF Apart, Fits
  <2>4. \A g \in given' : g \in given
    BY <1>1
  <2>5. QED
    BY <1>1, <2>1, <2>2, <2>3, <2>4 DEF Fits
<1>11. TillInv'
  BY <1>1, <1>10, AnswerKept
<1>12. QED
  BY <1>5, <1>8, <1>9, <1>11 DEF UsesInv

\* A promotion is written, its uses apart.
LEMMA PromoWritten ==
  ASSUME UsesInv, NEW p \in Promo, NEW r, PromoOK(r), r.used = promo[p].used,
         promo' = [promo EXCEPT ![p] = r], always' \subseteq always, UNCHANGED given,
         summit' \in [Promo -> Nat], \A q \in Promo : summit[q] <= summit'[q],
         p \in always' => 0 < r.limit /\ r.limit <= summit'[p]
  PROVE  /\ PromoInv' /\ GivenInv' /\ UsesAreCounted'
         /\ \A q : Fits(q) => Fits(q)'
<1>1. /\ DOMAIN promo' = Promo /\ promo'[p] = r
      /\ \A q \in Promo : promo'[q].used = promo[q].used
      /\ \A q \in Promo \ {p} : promo'[q] = promo[q]
  BY DEF UsesInv, PromoInv
<1>2. /\ always \subseteq Promo /\ DOMAIN summit' = Promo
      /\ \A q \in Promo : summit[q] \in Nat /\ summit'[q] \in Nat
      /\ \A q \in Promo : PromoOK(promo[q])
  BY DEF UsesInv, PromoInv
<1>3. PromoInv'
  <2>1. \A q \in Promo : PromoOK(promo'[q])
    BY <1>1, <1>2
  <2>2. ASSUME NEW q \in always' PROVE 0 < promo'[q].limit /\ promo'[q].limit <= summit'[q]
    <3>1. q \in always /\ q \in Promo /\ summit[q] <= summit'[q]
      BY <1>2
    <3>2. 0 < promo[q].limit /\ promo[q].limit <= summit[q] /\ promo[q].limit \in Nat
      BY <3>1, <1>2 DEF UsesInv, PromoInv, PromoOK
    <3>3. CASE q = p
      BY <1>1, <3>3, <2>2
    <3>4. CASE q # p
      BY <1>1, <1>2, <3>1, <3>2, <3>4
    <3>5. QED
      BY <3>3, <3>4
  <2>3. QED
    BY <1>1, <1>2, <2>1, <2>2 DEF PromoInv
<1>4. GivenInv'
  BY DEF UsesInv, GivenInv
<1>5. UsesAreCounted'
  <2> SUFFICES ASSUME NEW q \in always'
               PROVE  /\ promo'[q].used = Cardinality(Uses(q)')
                      /\ promo'[q].used <= summit'[q]
    BY DEF UsesAreCounted
  <2>1. /\ q \in Promo /\ promo[q].used = Cardinality(Uses(q)) /\ promo[q].used <= summit[q]
        /\ promo[q].used \in Nat
    BY <1>2 DEF UsesInv, UsesAreCounted, PromoOK
  <2>2. Uses(q)' = Uses(q)
    BY DEF Uses
  <2>3. QED
    BY <1>1, <1>2, <2>1, <2>2
<1>6. ASSUME NEW q, Fits(q) PROVE Fits(q)'
  <2>1. q.op = "apply" /\ q.promo \in always' =>
          /\ 0 < q.limit /\ q.limit <= summit'[q.promo]
          /\ q.phase = "open" => promo'[q.promo].used < q.limit
    <3> SUFFICES ASSUME q.op = "apply", q.promo \in always'
                 PROVE  /\ 0 < q.limit /\ q.limit <= summit'[q.promo]
                        /\ q.phase = "open" => promo'[q.promo].used < q.limit
      OBVIOUS
    <3>1. q.promo \in Promo /\ q.promo \in always /\ q.limit \in Nat
      BY <1>2, <1>6 DEF Fits
    <3>2. /\ 0 < q.limit /\ q.limit <= summit[q.promo]
          /\ q.phase = "open" => promo[q.promo].used < q.limit
      BY <1>6, <3>1 DEF Fits
    <3>3. QED
      BY <1>1, <1>2, <3>1, <3>2
  <2>2. QED
    BY <1>6, <2>1 DEF Fits
<1>7. QED
  BY <1>3, <1>4, <1>5, <1>6

LEMMA EditStep == ASSUME UsesInv, NEW s \in Cashier, updateDiscount(s) PROVE UsesInv'
<1>1. PICK p, k : p = till[s].promo /\ k = till[s].limit
  OBVIOUS
<1>2. p \in Promo /\ k \in Nat
  BY <1>1 DEF UsesInv, TillInv, Fits, updateDiscount
<1>3. PICK u, v, w, x, y :
        promo' = [promo EXCEPT ![p].limit = k, ![p].per = u, ![p].most = v, ![p].worth = w,
                               ![p].stack = x, ![p].on = y]
  BY <1>1 DEF updateDiscount
<1>4. /\ Return(s) /\ UNCHANGED given
      /\ always' = IF k > 0 THEN always ELSE always \ {p}
      /\ summit' = [summit EXCEPT ![p] = IF k > @ THEN k ELSE @]
  BY <1>1 DEF updateDiscount, Limit
<1>5. DOMAIN promo = Promo /\ PromoOK(promo[p])
  BY <1>2 DEF UsesInv, PromoInv
<1> DEFINE a == [promo[p] EXCEPT !.limit = k]
           d == [a EXCEPT !.per = u]
           e == [d EXCEPT !.most = v]
           b == [e EXCEPT !.worth = w]
           c == [b EXCEPT !.stack = x]
           r == [c EXCEPT !.on = y]
<1>6. promo' = [promo EXCEPT ![p] = r]
  BY <1>3, <1>5, <1>2
<1>7. PromoOK(r) /\ r.used = promo[p].used /\ r.limit = k
  <2>1. PromoOK(a) /\ a.used = promo[p].used /\ a.limit = k
    BY <1>2, <1>5 DEF PromoOK, IsPromo
  <2> HIDE DEF a
  <2>2. PromoOK(d) /\ d.used = promo[p].used /\ d.limit = k
    BY <2>1 DEF PromoOK, IsPromo
  <2> HIDE DEF d
  <2>3. PromoOK(e) /\ e.used = promo[p].used /\ e.limit = k
    BY <2>2 DEF PromoOK, IsPromo
  <2> HIDE DEF e
  <2>4. PromoOK(b) /\ b.used = promo[p].used /\ b.limit = k
    BY <2>3 DEF PromoOK, IsPromo
  <2> HIDE DEF b
  <2>5. PromoOK(c) /\ c.used = promo[p].used /\ c.limit = k
    BY <2>4 DEF PromoOK, IsPromo
  <2> HIDE DEF c
  <2>6. QED
    BY <2>5 DEF PromoOK, IsPromo
<1>8. /\ summit' \in [Promo -> Nat] /\ \A q \in Promo : summit[q] <= summit'[q]
      /\ k <= summit'[p] /\ always' \subseteq always /\ (p \in always' => 0 < k)
  <2>1. DOMAIN summit = Promo /\ \A q \in Promo : summit[q] \in Nat
    BY DEF UsesInv, PromoInv
  <2>2. \A q \in Promo : summit'[q] = IF q = p /\ k > summit[q] THEN k ELSE summit[q]
    BY <1>2, <1>4, <2>1
  <2>3. \A q \in Promo : summit'[q] \in Nat /\ summit[q] <= summit'[q]
    BY <1>2, <2>1, <2>2
  <2>4. summit' = [q \in Promo |-> summit'[q]]
    BY <1>4, <2>1
  <2>5. summit' \in [Promo -> Nat]
    BY <2>3, <2>4
  <2>6. k <= summit'[p]
    BY <1>2, <2>1, <2>2
  <2>7. always' \subseteq always /\ (p \in always' => 0 < k)
    BY <1>2, <1>4
  <2>8. QED
    BY <2>3, <2>5, <2>6, <2>7
<1>9. /\ PromoInv' /\ GivenInv' /\ UsesAreCounted'
      /\ \A q : Fits(q) => Fits(q)'
  <2>1. PICK z : z = r
    OBVIOUS
  <2> HIDE DEF r
  <2>2. QED
    BY <1>2, <1>4, <1>6, <1>7, <1>8, <2>1, PromoWritten
<1>10. TillInv'
  BY <1>4, <1>8, <1>9, AnswerKept DEF UsesInv, TillInv
<1>11. QED
  BY <1>9, <1>10 DEF UsesInv

LEMMA SwitchStep == ASSUME UsesInv, NEW s \in Cashier, setDiscountStatus(s) PROVE UsesInv'
<1>1. PICK p, y : /\ p = till[s].promo /\ promo' = [promo EXCEPT ![p].on = y]
  BY DEF setDiscountStatus
<1>2. /\ p \in Promo /\ Return(s) /\ UNCHANGED <<given, always, summit>>
  BY <1>1 DEF UsesInv, TillInv, Fits, setDiscountStatus
<1>3. DOMAIN promo = Promo /\ PromoOK(promo[p])
  BY <1>2 DEF UsesInv, PromoInv
<1>4. PICK r : r = [promo[p] EXCEPT !.on = y]
  OBVIOUS
<1>5. PromoOK(r) /\ r.used = promo[p].used /\ r.limit = promo[p].limit
  BY <1>3, <1>4 DEF PromoOK, IsPromo
<1>6. promo' = [promo EXCEPT ![p] = r]
  BY <1>1, <1>4, <1>3, <1>2
<1>7. /\ summit' \in [Promo -> Nat] /\ \A q \in Promo : summit[q] <= summit'[q]
      /\ p \in always' => 0 < r.limit /\ r.limit <= summit'[p]
  BY <1>2, <1>5 DEF UsesInv, PromoInv
<1>8. /\ PromoInv' /\ GivenInv' /\ UsesAreCounted'
      /\ \A q : Fits(q) => Fits(q)'
  BY <1>2, <1>5, <1>6, <1>7, PromoWritten
<1>9. TillInv'
  BY <1>2, <1>8, AnswerKept DEF UsesInv, TillInv
<1>10. QED
  BY <1>8, <1>9 DEF UsesInv

LEMMA OwnerStep ==
  ASSUME UsesInv, NEW p \in Promo, archiveDiscount(p) \/ ScheduleTurns(p)
  PROVE  UsesInv'
<1>1. /\ UNCHANGED <<given, always, summit, till>>
      /\ DOMAIN promo = Promo /\ PromoOK(promo[p])
  BY DEF UsesInv, PromoInv, archiveDiscount, ScheduleTurns
<1>2. PICK r : /\ promo' = [promo EXCEPT ![p] = r]
               /\ PromoOK(r) /\ r.used = promo[p].used /\ r.limit = promo[p].limit
  <2>1. CASE archiveDiscount(p)
    <3>0. PICK yes, no : yes = TRUE /\ no = FALSE
      OBVIOUS
    <3> DEFINE a == [promo[p] EXCEPT !.archived = yes]
               r == [a EXCEPT !.on = no]
    <3>1. promo' = [promo EXCEPT ![p] = r]
      BY <1>1, <2>1, <3>0 DEF archiveDiscount
    <3>2. PromoOK(a) /\ a.used = promo[p].used /\ a.limit = promo[p].limit
      BY <1>1 DEF PromoOK, IsPromo
    <3> HIDE DEF a
    <3>3. PromoOK(r) /\ r.used = promo[p].used /\ r.limit = promo[p].limit
      BY <3>2 DEF PromoOK, IsPromo
    <3>4. QED
      BY <3>1, <3>3
  <2>2. CASE ScheduleTurns(p)
    <3> DEFINE r == [promo[p] EXCEPT !.due = ~promo[p].due]
    <3>1. promo' = [promo EXCEPT ![p] = r]
      BY <1>1, <2>2 DEF ScheduleTurns
    <3>2. PromoOK(r) /\ r.used = promo[p].used /\ r.limit = promo[p].limit
      BY <1>1 DEF PromoOK, IsPromo
    <3>3. QED
      BY <3>1, <3>2
  <2>3. QED
    BY <2>1, <2>2
<1>3. /\ summit' \in [Promo -> Nat] /\ \A q \in Promo : summit[q] <= summit'[q]
      /\ p \in always' => 0 < r.limit /\ r.limit <= summit'[p]
  BY <1>1, <1>2 DEF UsesInv, PromoInv
<1>4. /\ PromoInv' /\ GivenInv' /\ UsesAreCounted'
      /\ \A q : Fits(q) => Fits(q)'
  BY <1>1, <1>2, <1>3, PromoWritten
<1>5. TillInv'
  <2>1. ASSUME NEW t \in Cashier PROVE Fits(till[t])'
    <3>1. PICK q : q = till'[t] /\ Fits(q)'
      BY <1>1, <1>4 DEF UsesInv, TillInv
    <3>2. QED
      BY <3>1 DEF Fits
  <2>2. QED
    BY <1>1, <2>1 DEF UsesInv, TillInv, Apart
<1>6. QED
  BY <1>4, <1>5 DEF UsesInv

LEMMA UsesStep == ASSUME UsesInv, [DiscountNext]_discountVars PROVE UsesInv'
<1>1. CASE UNCHANGED discountVars
  BY <1>1, OrderStep DEF discountVars
<1>2. ASSUME NEW o \in Sale,
             recalculateOrder(o) \/ CloseOrder(o) \/ splitOrders(o) \/ cancelBill(o)
      PROVE  UsesInv'
  BY <1>2, OrderStep DEF recalculateOrder, CloseOrder, splitOrders, cancelBill
<1>3. QED
  BY <1>1, <1>2, ReadStep, OpenStep, ApplyStep, ManualStep, RemoveStep, EditStep, SwitchStep,
     OwnerStep DEF DiscountNext

\* For any promotions, bills, discounts and limits: what a promotion counts as its uses
\* keeps below its limit and counts what is in force, whatever requests and owners do at
\* the same time.
THEOREM UsesAreCountedAlways == DiscountSpec => []UsesAreCounted
<1>1. UsesInv => UsesAreCounted
  BY DEF UsesInv
<1>2. DiscountInit => UsesInv
  BY UsesStart
<1>3. UsesInv /\ [DiscountNext]_discountVars => UsesInv'
  BY UsesStep
<1>4. QED
  BY <1>1, <1>2, <1>3, PTL DEF DiscountSpec

-----------------------------------------------------------------------------
(* What orders show: the inductive invariant *)

Working == {"apply", "manual", "remove", "replace", "merge", "bill", "collect"}

\* What a request writes into typed columns has their types.
Worded(r) ==
  /\ r.op \in Working \cup {"direct", "billDiscount"} => r.sale \in Sale
  /\ r.op \in {"apply", "edit", "switch"} => r.promo \in Promo
  /\ r.op \in {"apply", "manual", "remove"} => r.sum \in Nat
  /\ r.op = "edit" => r.amt \in Worths
  /\ r.op = "replace" => r.sub \in Subs
  /\ r.op = "merge" => r.from \in Sale

RowTypes ==
  /\ DiscountTypeOK /\ DOMAIN promo = Promo
  /\ DOMAIN sale = Sale /\ DOMAIN slip = Sale /\ DOMAIN till = Cashier
  /\ \A s \in Cashier : Worded(till[s])
  /\ \A p \in Promo : each[p] > 0 => 0 < promo[p].per /\ promo[p].per <= each[p]

\* The older endpoint makes its order odd, and so do two requests of one customer.
AloneInv ==
  /\ \A s \in Cashier : till[s].op = "direct" => till[s].sale \in odd
  /\ \A s, t \in Cashier :
       s # t /\ till[s].op \in Working /\ till[t].op \in Working
             /\ till[t].sale \in Kin(till[s].sale) => Kin(till[s].sale) \subseteq odd

\* What a request alone on its order has read still holds.
ReadHolds(r) ==
  r.op \in Working /\ r.sale \notin odd =>
    /\ r.op \notin {"replace", "merge"} => r.sub = sale[r.sale].sub
    /\ r.op \in {"manual", "replace", "merge"} => Of(r.sale) = {}
    /\ r.op \in {"replace", "collect"} => r.direct = Unset
    /\ r.op \in {"replace", "merge"} => slip[r.sale].status # "LIVE"
    /\ r.op = "apply" =>
         /\ \A g \in Of(r.sale) : g.promo # r.promo /\ g.promo # NoPromo
         /\ r.phase = "open" => r.sum = SumOf(Of(r.sale)) + r.amt
    /\ r.op = "remove" /\ r.phase = "open" =>
         r.sum = SumOf({g \in Of(r.sale) : g.id # r.row})
    /\ r.op \in {"bill", "collect"} => r.own \/ r.sum = sale[r.sale].total
    /\ r.op = "collect" => r.amt = sale[r.sale].disc

\* Uses of a promotion by a customer, and a customer who has had all of them.
Taken(p, c) == {g \in Uses(p) : sale[g.sale].who = c}

Spent(p, o) ==
  /\ each[p] > 0 /\ sale[o].who # WalkIn
  /\ Cardinality(Taken(p, sale[o].who)) >= each[p]

\* A discount to be taken back is of the order the request read, and a customer is
\* given a promotion only with a use of it left.
RowHolds(r) ==
  /\ r.op = "remove" => \A g \in given : g.id = r.row => g.sale = r.sale
  /\ r.op = "apply" /\ ~(Kin(r.sale) \subseteq odd) => ~Spent(r.promo, r.sale)

ReadInv == \A s \in Cashier : ReadHolds(till[s]) /\ RowHolds(till[s])

\* An order that is not odd shows its discounts at every moment.
Shown(o) ==
  /\ sale[o].direct = Unset
  /\ sale[o].disc = SumOf(Of(o))
  /\ sale[o].total = computeTotalAmount(sale[o].sub, sale[o].disc)
  /\ slip[o].status = "LIVE" /\ ~slip[o].own => slip[o].grand = sale[o].total
  /\ \A g, h \in Of(o) : g # h => NoPromo # g.promo /\ g.promo # h.promo

Within(o) ==
  \A p \in Promo :
    each[p] > 0 /\ sale[o].who # WalkIn =>
      Cardinality({g \in Uses(p) : sale[g.sale].who = sale[o].who}) <= each[p]

ShownInv ==
  /\ RowTypes /\ AloneInv /\ ReadInv
  /\ \A o \in Sale \ odd : Shown(o) /\ Within(o)

-----------------------------------------------------------------------------
(* Customers, sums and rows *)

LEMMA KinIs ==
  ASSUME NEW o \in Sale
  PROVE  /\ o \in Kin(o) /\ Kin(o) \subseteq Sale
         /\ \A q \in Kin(o) : Kin(q) = Kin(o)
  BY DEF Kin

\* What discounts come to is their sum.
LEMMA SumIs ==
  ASSUME NEW G, IsFiniteSet(G), \A x \in G : x.amt \in Nat
  PROVE  SumOf(G) = Total(G, [x \in G |-> x.amt])
<1> DEFINE c == [u \in SUBSET G |-> CHOOSE x \in u : TRUE]
           v == [x \in G |-> x.amt]
           f == CHOOSE h : h = [u \in SUBSET G |->
                  IF u = {} THEN 0
                  ELSE (CHOOSE x \in u : TRUE).amt + h[u \ {CHOOSE x \in u : TRUE}]]
<1>1. SumOf(G) = f[G]
  BY DEF SumOf, MapThenSumSet, MapThenFoldSet
<1>2. Picks(c, G)
  BY DEF Picks
<1>3. \A x \in G : v[x] \in Int
  OBVIOUS
<1>4. \E h : Adds(h, G, v, c)
  <2> HIDE DEF c, v
  <2> QED
    BY <1>2, <1>3, AddsExists
<1>5. ASSUME NEW h
      PROVE  Adds(h, G, v, c) <=>
               h = [u \in SUBSET G |->
                      IF u = {} THEN 0
                      ELSE (CHOOSE x \in u : TRUE).amt + h[u \ {CHOOSE x \in u : TRUE}]]
  BY <1>2 DEF Adds, Picks
<1>6. Adds(f, G, v, c)
  <2> HIDE DEF c, v
  <2>1. PICK g : Adds(g, G, v, c)
    BY <1>4
  <2>2. f = g
    BY <1>5, <2>1
  <2> QED
    BY <2>1, <2>2
<1>7. f[G] = Total(G, v)
  <2> HIDE DEF c, v, f
  <2> QED
    BY <1>2, <1>3, <1>6, TotalIs
<1> QED
  BY <1>1, <1>7

LEMMA SumAdds ==
  ASSUME NEW G, IsFiniteSet(G), \A x \in G : x.amt \in Nat
  PROVE  /\ SumOf(G) \in Nat /\ SumOf({}) = 0
         /\ \A n : n \notin G /\ n.amt \in Nat => SumOf(G \cup {n}) = SumOf(G) + n.amt
<1>1. SumOf(G) \in Nat
  <2> DEFINE v == [x \in G |-> x.amt]
  <2>1. \A x \in G : v[x] \in Nat
    OBVIOUS
  <2>2. SumOf(G) = Total(G, v)
    BY SumIs
  <2> HIDE DEF v
  <2> QED
    BY <2>1, <2>2, TotalNat
<1>2. SumOf({}) = 0
  BY FS_EmptySet, SumIs, TotalEmpty
<1>3. ASSUME NEW n, n \notin G, n.amt \in Nat
      PROVE  SumOf(G \cup {n}) = SumOf(G) + n.amt
  <2> DEFINE H == G \cup {n}
             v == [x \in G |-> x.amt]
             y == [x \in H |-> x.amt]
  <2>1. IsFiniteSet(H) /\ \A x \in H : x.amt \in Nat
    BY <1>3, FS_AddElement
  <2>2. SumOf(H) = Total(H, y) /\ SumOf(G) = Total(G, v)
    <3>1. SumOf(H) = Total(H, y)
      BY <2>1, SumIs
    <3>2. SumOf(G) = Total(G, v)
      BY SumIs
    <3> QED
      BY <3>1, <3>2
  <2>3. /\ \A x \in H : y[x] \in Int
        /\ \A x \in G : v[x] \in Int /\ y[x] = v[x]
        /\ y[n] = n.amt /\ n \in H /\ H \ {n} = G
    BY <1>3, <2>1
  <2> HIDE DEF H, v, y
  <2>4. Total(H, y) = y[n] + Total(G, y)
    BY <2>1, <2>3, TotalStep
  <2>5. Total(G, y) = Total(G, v) /\ Total(G, v) \in Int
    BY <2>3, TotalSame, TotalInt
  <2> QED
    BY <1>3, <2>2, <2>3, <2>4, <2>5 DEF H
<1> QED
  BY <1>1, <1>2, <1>3

\* The discounts of an order, and those of them that stay, are finitely many.
LEMMA OfIs ==
  ASSUME UsesInv, RowTypes, NEW o, NEW i
  PROVE  /\ IsFiniteSet(Of(o)) /\ \A g \in Of(o) : g.amt \in Nat
         /\ SumOf(Of(o)) \in Nat /\ SumOf({g \in Of(o) : g.id # i}) \in Nat
<1> DEFINE R == {g \in Of(o) : g.id # i}
<1>1. IsFiniteSet(Of(o)) /\ IsFiniteSet(R)
  BY FS_Subset DEF UsesInv, GivenInv, Of
<1>2. \A g \in Of(o) : g.amt \in Nat
  BY DEF RowTypes, DiscountTypeOK, GivenRow, Of
<1>3. \A g \in R : g.amt \in Nat
  BY <1>2
<1>4. SumOf(R) \in Nat
  <2> HIDE DEF R
  <2> QED
    BY <1>1, <1>3, SumAdds
<1> QED
  BY <1>1, <1>2, <1>4, SumAdds

LEMMA SpentIs ==
  ASSUME UsesInv, RowTypes, NEW p \in Promo, NEW o, ~UsedUp(p, o)
  PROVE  ~Spent(p, o)
<1>1. promo[p].per \in Nat /\ each[p] \in Nat
  BY DiscountAssumption DEF RowTypes, DiscountTypeOK, PromoRow
<1>2. PICK n : n = Cardinality(Taken(p, sale[o].who)) /\ n \in Nat
  BY UsesAreFinite, FS_Subset, FS_CardinalityType DEF Taken
<1>3. ~(promo[p].per > 0 /\ sale[o].who # WalkIn /\ n >= promo[p].per)
  BY <1>2 DEF UsedUp, Taken
<1>4. each[p] > 0 => 0 < promo[p].per /\ promo[p].per <= each[p]
  BY DEF RowTypes
<1> QED
  BY <1>1, <1>2, <1>3, <1>4 DEF Spent

LEMMA TakenIs ==
  ASSUME UsesInv, NEW p, NEW c
  PROVE  IsFiniteSet(Taken(p, c)) /\ Cardinality(Taken(p, c)) \in Nat
  BY UsesAreFinite, FS_Subset, FS_CardinalityType DEF Taken

-----------------------------------------------------------------------------
(* Types *)

LEMMA RowsTyped ==
  ASSUME RowTypes
  PROVE  /\ \A o \in Sale : sale[o] \in SaleRow /\ slip[o] \in SlipRow
         /\ \A p \in Promo : promo[p] \in PromoRow
         /\ \A s \in Cashier : till[s] \in TillRow /\ Worded(till[s])
         /\ odd \subseteq Sale
  BY DEF RowTypes, DiscountTypeOK

LEMMA IdleTyped == TillIdle \in TillRow /\ Worded(TillIdle)
<1>1. TillIdle \in TillRow
  BY DiscountAssumption DEF TillIdle, TillRow
<1>2. Worded(TillIdle)
  BY DEF TillIdle, Worded, Working
<1> QED
  BY <1>1, <1>2

\* A request goes on with a sum.
Goes(r, p, x) == [r EXCEPT !.phase = p, !.sum = x]

LEMMA TillMoves ==
  ASSUME NEW r \in TillRow, NEW x \in Int, NEW p \in {"open", "sync"}
  PROVE  /\ Goes(r, p, x) \in TillRow
         /\ Goes(r, p, x).op = r.op /\ Goes(r, p, x).sale = r.sale
         /\ Goes(r, p, x).from = r.from /\ Goes(r, p, x).promo = r.promo
         /\ Goes(r, p, x).row = r.row /\ Goes(r, p, x).sub = r.sub
         /\ Goes(r, p, x).amt = r.amt /\ Goes(r, p, x).sum = x
<1>1. PICK k : k = [r EXCEPT !.phase = p, !.sum = x]
  OBVIOUS
<1>2. k \in TillRow
  BY <1>1 DEF TillRow
<1>3. /\ k.op = r.op /\ k.sale = r.sale /\ k.from = r.from /\ k.promo = r.promo
      /\ k.row = r.row /\ k.sub = r.sub /\ k.amt = r.amt /\ k.sum = x
  BY <1>1 DEF TillRow
<1>4. k = Goes(r, p, x)
  BY <1>1 DEF Goes
<1> QED
  BY <1>2, <1>3, <1>4

\* A request goes on to another state.
LEMMA TillTyped ==
  ASSUME RowTypes, NEW s \in Cashier, NEW r \in TillRow, Worded(r),
         till' = [till EXCEPT ![s] = r]
  PROVE  /\ DOMAIN till' = Cashier
         /\ \A t \in Cashier : till'[t] \in TillRow /\ Worded(till'[t])
  BY RowsTyped DEF RowTypes

LEMMA LeastIs ==
  ASSUME NEW a \in Nat, NEW b \in Nat
  PROVE  Least(a, b) \in Nat /\ Least(a, b) <= a /\ Least(a, b) <= b
  BY DEF Least

\* What the order's own discount takes off leaves no less than nothing.
LEMMA OffIs ==
  ASSUME NEW d \in {Unset, 0} \cup Worths, NEW n \in Nat
  PROVE  /\ Off(d, n) \in Nat /\ n - Off(d, n) \in Nat
         /\ d = Unset => Off(d, n) = 0
<1>1. d > 0 => d \in Nat
  BY DiscountAssumption DEF Unset
<1>2. d > 0 => Least(d, n) \in Nat /\ Least(d, n) <= n
  BY <1>1, LeastIs
<1> QED
  BY <1>2 DEF Off, Unset

\* The requests that only read, by what they become.
LEMMA ReadTyped ==
  ASSUME RowTypes, NEW s \in Cashier,
         \/ ReadForApply(s) \/ ReadForManual(s) \/ ReadForRemove(s) \/ ReadForDirect(s)
         \/ ReadForEdit(s) \/ ReadForSwitch(s) \/ ReadForReplace(s) \/ ReadForMerge(s)
         \/ ReadForBill(s) \/ ReadForBillDiscount(s) \/ ReadForCollect(s)
  PROVE  \E r \in TillRow : /\ Worded(r) /\ till' = [till EXCEPT ![s] = r]
                            /\ r.phase = "checked"
<1>0. /\ Worths \subseteq Nat /\ Subs \subseteq Nat /\ MaxLimit \in Nat /\ MaxGiven \in Nat
      /\ Extras \subseteq Int
  BY DiscountAssumption
<1>a. /\ \A o \in Sale : /\ sale[o].sub \in Nat /\ sale[o].disc \in Nat
                         /\ sale[o].direct \in {Unset, 0} \cup Worths
                         /\ slip[o].sub \in Nat /\ slip[o].extra \in Int
      /\ \A p \in Promo : promo[p].limit \in 0..MaxLimit /\ promo[p].worth \in Nat
  BY <1>0, RowsTyped DEF SaleRow, SlipRow, PromoRow
<1>b. TillIdle \in TillRow
  BY IdleTyped
<1>1. CASE ReadForApply(s)
  <2>1. PICK o \in Sale, p \in Promo :
          Give(s, [TillIdle EXCEPT !.op = "apply", !.phase = "checked", !.sale = o,
                      !.promo = p, !.sub = sale[o].sub, !.limit = promo[p].limit,
                      !.amt = calculateDiscountAmount(promo[p].worth, sale[o].sub)])
    BY <1>1 DEF ReadForApply
  <2>2. PICK r : r = [TillIdle EXCEPT !.op = "apply", !.phase = "checked", !.sale = o,
                      !.promo = p, !.sub = sale[o].sub, !.limit = promo[p].limit,
                      !.amt = calculateDiscountAmount(promo[p].worth, sale[o].sub)]
    OBVIOUS
  <2>3. calculateDiscountAmount(promo[p].worth, sale[o].sub) \in Nat
    BY <1>0, <1>a, LeastIs DEF calculateDiscountAmount
  <2>4. r \in TillRow
    BY <1>0, <1>a, <1>b, <2>2, <2>3 DEF TillRow
  <2>5. /\ r.op = "apply" /\ r.sale = o /\ r.promo = p /\ r.sum = 0
        /\ r.phase = "checked"
    BY <2>2 DEF TillIdle
  <2>6. Worded(r)
    BY <1>b, <2>5 DEF Worded, Working
  <2> QED
    BY <2>1, <2>2, <2>4, <2>5, <2>6 DEF Give
<1>2. CASE ReadForManual(s)
  <2>1. PICK o \in Sale, w \in Worths :
          Give(s, [TillIdle EXCEPT !.op = "manual", !.phase = "checked", !.sale = o,
                      !.sub = sale[o].sub,
                      !.amt = calculateDiscountAmount(w, sale[o].sub)])
    BY <1>2 DEF ReadForManual
  <2>2. PICK r : r = [TillIdle EXCEPT !.op = "manual", !.phase = "checked", !.sale = o,
                      !.sub = sale[o].sub,
                      !.amt = calculateDiscountAmount(w, sale[o].sub)]
    OBVIOUS
  <2>3. calculateDiscountAmount(w, sale[o].sub) \in Nat
    BY <1>0, <1>a, LeastIs DEF calculateDiscountAmount
  <2>4. r \in TillRow
    BY <1>0, <1>a, <1>b, <2>2, <2>3 DEF TillRow
  <2>5. /\ r.op = "manual" /\ r.sale = o /\ r.sum = 0
        /\ r.phase = "checked"
    BY <2>2 DEF TillIdle
  <2>6. Worded(r)
    BY <2>5 DEF Worded, Working
  <2> QED
    BY <2>1, <2>2, <2>4, <2>5, <2>6 DEF Give
<1>3. CASE ReadForRemove(s)
  <2>1. PICK g \in given :
          Give(s, [TillIdle EXCEPT !.op = "remove", !.phase = "checked", !.sale = g.sale,
                      !.promo = g.promo, !.row = g.id, !.sub = sale[g.sale].sub])
    BY <1>3 DEF ReadForRemove
  <2>2. PICK r : r = [TillIdle EXCEPT !.op = "remove", !.phase = "checked", !.sale = g.sale,
                      !.promo = g.promo, !.row = g.id, !.sub = sale[g.sale].sub]
    OBVIOUS
  <2>a. g.sale \in Sale /\ g.promo \in Promo \cup {NoPromo} /\ g.id \in 1..MaxGiven
    BY DEF RowTypes, DiscountTypeOK, GivenRow
  <2>3. /\ g.sale \in Sale /\ g.promo \in Promo \cup {NoPromo} /\ g.id \in 0..MaxGiven
        /\ sale[g.sale].sub \in Nat
    BY <1>0, <1>a, <2>a
  <2>4. r \in TillRow
    BY <1>0, <1>a, <1>b, <2>2, <2>3 DEF TillRow
  <2>5. /\ r.op = "remove" /\ r.sale = g.sale /\ r.sum = 0
        /\ r.phase = "checked"
    BY <2>2 DEF TillIdle
  <2>6. Worded(r)
    BY <2>3, <2>5 DEF Worded, Working
  <2> QED
    BY <2>1, <2>2, <2>4, <2>5, <2>6 DEF Give
<1>4. CASE ReadForDirect(s)
  <2>1. PICK o \in Sale, w \in {Unset, 0} \cup Worths :
          Give(s, [TillIdle EXCEPT !.op = "direct", !.phase = "checked", !.sale = o,
                      !.sub = sale[o].sub, !.direct = w])
    BY <1>4 DEF ReadForDirect
  <2>2. PICK r : r = [TillIdle EXCEPT !.op = "direct", !.phase = "checked", !.sale = o,
                      !.sub = sale[o].sub, !.direct = w]
    OBVIOUS
  <2>3. TRUE
    OBVIOUS
  <2>4. r \in TillRow
    BY <1>0, <1>a, <1>b, <2>2, <2>3 DEF TillRow
  <2>5. /\ r.op = "direct" /\ r.sale = o
        /\ r.phase = "checked"
    BY <2>2 DEF TillIdle
  <2>6. Worded(r)
    BY <2>5 DEF Worded, Working
  <2> QED
    BY <2>1, <2>2, <2>4, <2>5, <2>6 DEF Give
<1>5. CASE ReadForEdit(s)
  <2>1. PICK p \in Promo, limit \in 0..MaxLimit, per \in 0..MaxLimit, most \in 1..2,
             w \in Worths, stack \in BOOLEAN, on \in BOOLEAN :
          Give(s, ToEdit(p, limit, per, most, w, stack, on))
    BY <1>5, EditAsks
  <2>2. PICK r : r = [TillIdle EXCEPT !.op = "edit", !.phase = "checked", !.promo = p,
                      !.limit = limit, !.per = per, !.most = most, !.amt = w,
                      !.stack = stack, !.on = on]
    OBVIOUS
  <2>3. w \in Nat
    BY <1>0
  <2>4. r \in TillRow
    BY <1>b, <2>2, <2>3 DEF TillRow
  <2>5. /\ r.op = "edit" /\ r.promo = p /\ r.amt = w
        /\ r.phase = "checked"
    BY <2>2 DEF TillIdle
  <2>6. Worded(r)
    BY <2>5 DEF Worded, Working
  <2> QED
    BY <2>1, <2>2, <2>4, <2>5, <2>6 DEF Give, ToEdit
<1>6. CASE ReadForSwitch(s)
  <2>1. PICK p \in Promo :
          Give(s, [TillIdle EXCEPT !.op = "switch", !.phase = "checked", !.promo = p,
                      !.on = ~promo[p].on])
    BY <1>6 DEF ReadForSwitch
  <2>a. PICK x \in BOOLEAN : x = ~promo[p].on
    OBVIOUS
  <2>2. PICK r : r = [TillIdle EXCEPT !.op = "switch", !.phase = "checked", !.promo = p,
                      !.on = x]
    OBVIOUS
  <2>4. r \in TillRow
    BY <1>b, <2>2 DEF TillRow
  <2>5. /\ r.op = "switch" /\ r.promo = p
        /\ r.phase = "checked"
    BY <2>2 DEF TillIdle
  <2>6. Worded(r)
    BY <2>5 DEF Worded, Working
  <2> QED
    BY <2>1, <2>a, <2>2, <2>4, <2>5, <2>6 DEF Give
<1>7. CASE ReadForReplace(s)
  <2>1. PICK o \in Sale, k \in Subs, w \in {Unset, 0} \cup Worths :
          Give(s, [TillIdle EXCEPT !.op = "replace", !.phase = "checked", !.sale = o,
                      !.sub = k, !.direct = w])
    BY <1>7 DEF ReadForReplace
  <2>2. PICK r : r = [TillIdle EXCEPT !.op = "replace", !.phase = "checked", !.sale = o,
                      !.sub = k, !.direct = w]
    OBVIOUS
  <2>3. k \in Nat
    BY <1>0
  <2>4. r \in TillRow
    BY <1>0, <1>a, <1>b, <2>2, <2>3 DEF TillRow
  <2>5. /\ r.op = "replace" /\ r.sale = o /\ r.sub = k
        /\ r.phase = "checked"
    BY <2>2 DEF TillIdle
  <2>6. Worded(r)
    BY <2>5 DEF Worded, Working
  <2> QED
    BY <2>1, <2>2, <2>4, <2>5, <2>6 DEF Give
<1>8. CASE ReadForMerge(s)
  <2>1. PICK o \in Sale, k \in Sale :
          Give(s, [TillIdle EXCEPT !.op = "merge", !.phase = "checked", !.sale = o,
                      !.from = k])
    BY <1>8 DEF ReadForMerge
  <2>2. PICK r : r = [TillIdle EXCEPT !.op = "merge", !.phase = "checked", !.sale = o,
                      !.from = k]
    OBVIOUS
  <2>3. TRUE
    OBVIOUS
  <2>4. r \in TillRow
    BY <1>0, <1>a, <1>b, <2>2, <2>3 DEF TillRow
  <2>5. /\ r.op = "merge" /\ r.sale = o /\ r.from = k
        /\ r.phase = "checked"
    BY <2>2 DEF TillIdle
  <2>6. Worded(r)
    BY <2>5 DEF Worded, Working
  <2> QED
    BY <2>1, <2>2, <2>4, <2>5, <2>6 DEF Give
<1>9. CASE ReadForBillDiscount(s)
  <2>1. PICK o \in Sale, w \in {0} \cup Worths :
          Give(s, [TillIdle EXCEPT !.op = "billDiscount", !.phase = "checked", !.sale = o,
                      !.sum = slip[o].sub - Least(w, slip[o].sub) + slip[o].extra])
    BY <1>9 DEF ReadForBillDiscount
  <2>2. PICK r : r = [TillIdle EXCEPT !.op = "billDiscount", !.phase = "checked", !.sale = o,
                      !.sum = slip[o].sub - Least(w, slip[o].sub) + slip[o].extra]
    OBVIOUS
  <2>a. w \in Nat /\ slip[o].sub \in Nat
    BY <1>0, <1>a
  <2>b. Least(w, slip[o].sub) \in Nat
    BY <2>a, LeastIs
  <2>3. slip[o].sub - Least(w, slip[o].sub) + slip[o].extra \in Int
    BY <1>a, <2>a, <2>b
  <2>4. r \in TillRow
    BY <1>0, <1>a, <1>b, <2>2, <2>3 DEF TillRow
  <2>5. /\ r.op = "billDiscount" /\ r.sale = o
        /\ r.phase = "checked"
    BY <2>2 DEF TillIdle
  <2>6. Worded(r)
    BY <2>5 DEF Worded, Working
  <2> QED
    BY <2>1, <2>2, <2>4, <2>5, <2>6 DEF Give
<1>10. CASE ReadForBill(s)
  <2>1. PICK o \in Sale, w \in {Unset, 0} \cup Worths, x \in Extras :
          LET d == IF w = Unset THEN Inherited(o) ELSE Least(w, sale[o].sub) IN
            Give(s, ToBill(o, d, x, w # Unset \/ x # 0))
    BY <1>10 DEF ReadForBill
  <2>2. PICK d, b, r : /\ d = IF w = Unset THEN Inherited(o) ELSE Least(w, sale[o].sub)
                       /\ b \in BOOLEAN /\ r = ToBill(o, d, x, b) /\ Give(s, r)
    BY <2>1
  <2>3. d \in Nat
    <3>1. w # Unset => w \in Nat
      BY <1>0 DEF Unset
    <3>2. w # Unset => Least(w, sale[o].sub) \in Nat
      BY <1>a, <3>1, LeastIs
    <3>3. Least(sale[o].disc, sale[o].sub) \in Nat
      BY <1>a, LeastIs
    <3>4. Off(sale[o].direct, sale[o].sub) \in Nat
      BY <1>a, OffIs
    <3> QED
      BY <2>2, <3>2, <3>3, <3>4 DEF Inherited
  <2>4. Payable(sale[o].sub, d, x) \in Int
    BY <1>0, <1>a, <2>3 DEF Payable
  <2>5. r \in TillRow
    <3>1. PICK n \in Nat, y \in Int : n = sale[o].sub /\ y = Payable(sale[o].sub, d, x)
      BY <1>a, <2>4
    <3>2. x \in Int
      BY <1>0
    <3>3. r = [TillIdle EXCEPT !.op = "bill", !.phase = "checked", !.sale = o, !.sub = n,
                               !.extra = x, !.sum = y, !.own = b]
      BY <2>2, <3>1 DEF ToBill
    <3>4. b \in BOOLEAN
      BY <2>2
    <3> QED
      BY <1>b, <3>1, <3>2, <3>3, <3>4 DEF TillRow
  <2>6. r.op = "bill" /\ r.sale = o /\ r.phase = "checked"
    BY <2>2 DEF ToBill, TillIdle
  <2>7. Worded(r)
    BY <2>6 DEF Worded, Working
  <2> QED
    BY <2>2, <2>5, <2>6, <2>7 DEF Give
<1>11. CASE ReadForCollect(s)
  <2>1. PICK o \in Sale, w \in {0} \cup Worths, x \in Extras :
          \E direct \in {Unset, w} :
            LET d == Least(IF Of(o) # {} THEN sale[o].disc ELSE w, sale[o].sub) IN
              Give(s, ToCollect(o, d, direct, x))
    BY <1>11 DEF ReadForCollect
  <2>2. PICK direct \in {Unset, w} :
          Give(s, ToCollect(o, Least(IF Of(o) # {} THEN sale[o].disc ELSE w, sale[o].sub),
                            direct, x))
    BY <2>1
  <2>3. PICK d, r : /\ d = Least(IF Of(o) # {} THEN sale[o].disc ELSE w, sale[o].sub)
                    /\ r = ToCollect(o, d, direct, x) /\ Give(s, r)
    BY <2>2
  <2>4. d \in Nat /\ direct \in {Unset, 0} \cup Worths
    <3>1. sale[o].disc \in Nat /\ sale[o].sub \in Nat
      BY <1>a
    <3>2. w \in Nat /\ direct \in {Unset, 0} \cup Worths
      BY <1>0
    <3>3. Least(sale[o].disc, sale[o].sub) \in Nat /\ Least(w, sale[o].sub) \in Nat
      BY <3>1, <3>2, LeastIs
    <3> QED
      BY <2>3, <3>2, <3>3
  <2>5. Payable(sale[o].sub, d, x) \in Int
    BY <1>0, <1>a, <2>4 DEF Payable
  <2>6. r \in TillRow
    <3>1. PICK n \in Nat, y \in Int, b \in BOOLEAN, c \in BOOLEAN :
            /\ n = sale[o].sub /\ y = Payable(sale[o].sub, d, x)
            /\ b = (x # 0) /\ c = (slip[o].status = "LIVE")
      BY <1>a, <2>5
    <3>2. x \in Int
      BY <1>0
    <3>3. r = [TillIdle EXCEPT !.op = "collect", !.phase = "checked", !.sale = o, !.sub = n,
                               !.amt = d, !.direct = direct, !.extra = x, !.sum = y,
                               !.own = b, !.had = c]
      BY <2>3, <3>1 DEF ToCollect
    <3> QED
      BY <1>b, <2>4, <3>2, <3>3 DEF TillRow
  <2>7. r.op = "collect" /\ r.sale = o /\ r.phase = "checked"
    BY <2>3 DEF ToCollect, TillIdle
  <2>8. Worded(r)
    BY <2>7 DEF Worded, Working
  <2> QED
    BY <2>3, <2>6, <2>7, <2>8 DEF Give
<1> QED
  BY <1>1, <1>2, <1>3, <1>4, <1>5, <1>6, <1>7, <1>8, <1>9, <1>10, <1>11

\* The order and the bill after a request has shown what discounts come to.
LEMMA ShowIs ==
  ASSUME RowTypes, NEW o \in Sale, NEW n \in Nat, NEW d \in Nat, Show(o, n, d)
  PROVE  /\ DOMAIN sale' = Sale /\ DOMAIN slip' = Sale
         /\ \A q \in Sale : /\ sale'[q] \in SaleRow /\ slip'[q] \in SlipRow
                            /\ sale'[q].who = sale[q].who /\ sale'[q].sub = sale[q].sub
                            /\ sale'[q].direct = sale[q].direct
                            /\ q # o => sale'[q] = sale[q] /\ slip'[q] = slip[q]
         /\ sale'[o].disc = d /\ sale'[o].total = computeTotalAmount(n, d)
         /\ slip'[o].status = "LIVE" => slip'[o].grand = sale'[o].total
<1> DEFINE total == computeTotalAmount(n, d)
<1>1. total \in Nat
  BY DEF computeTotalAmount
<1>2. sale[o] \in SaleRow /\ slip[o] \in SlipRow /\ DOMAIN sale = Sale /\ DOMAIN slip = Sale
  BY RowsTyped DEF RowTypes
<1>3. PICK r, b : /\ r = [[sale[o] EXCEPT !.disc = d] EXCEPT !.total = total]
                  /\ b = IF slip[o].status = "LIVE"
                           THEN [[slip[o] EXCEPT !.grand = total] EXCEPT !.own = FALSE]
                           ELSE slip[o]
  OBVIOUS
<1>4. /\ DOMAIN sale' = Sale /\ sale'[o] = r
      /\ \A q \in Sale \ {o} : sale'[q] = sale[q]
  <2>1. sale' = [sale EXCEPT ![o] = r]
    BY <1>2, <1>3 DEF Show
  <2> QED
    BY <1>2, <2>1
<1>7. /\ DOMAIN slip' = Sale /\ slip'[o] = b
      /\ \A q \in Sale \ {o} : slip'[q] = slip[q]
  <2>1. CASE slip[o].status = "LIVE"
    <3>1. /\ slip' = [slip EXCEPT ![o].grand = total, ![o].own = FALSE]
          /\ b = [[slip[o] EXCEPT !.grand = total] EXCEPT !.own = FALSE]
      BY <1>3, <2>1 DEF Show
    <3> QED
      BY <1>2, <3>1
  <2>2. CASE slip[o].status # "LIVE"
    <3>1. slip' = slip /\ b = slip[o]
      BY <1>3, <2>2 DEF Show
    <3> QED
      BY <1>2, <3>1
  <2> QED
    BY <2>1, <2>2
<1> HIDE DEF total
<1>5. /\ r \in SaleRow /\ r.who = sale[o].who /\ r.sub = sale[o].sub
      /\ r.direct = sale[o].direct /\ r.disc = d /\ r.total = total
  BY <1>1, <1>2, <1>3 DEF SaleRow
<1>6. b \in SlipRow /\ (b.status = "LIVE" => b.grand = total)
  <2>1. PICK no \in BOOLEAN : no = FALSE
    OBVIOUS
  <2>2. CASE slip[o].status = "LIVE"
    <3>1. PICK n2 \in Int : n2 = total
      BY <1>1
    <3>2. b = [[slip[o] EXCEPT !.grand = n2] EXCEPT !.own = no]
      BY <1>3, <2>1, <2>2, <3>1
    <3> QED
      BY <1>2, <3>1, <3>2 DEF SlipRow
  <2>3. CASE slip[o].status # "LIVE"
    BY <1>2, <1>3, <2>3
  <2> QED
    BY <2>2, <2>3
<1> QED
  BY <1>4, <1>5, <1>6, <1>7, RowsTyped DEF total

\* What a request reads or does to its own record leaves the rows typed.
LEMMA AskTyped ==
  ASSUME RowTypes, NEW s \in Cashier, NEW r \in TillRow, Worded(r),
         till' = [till EXCEPT ![s] = r], odd' \subseteq Sale,
         UNCHANGED <<promo, sale, slip, given, always, summit, each>>
  PROVE  RowTypes'
<1>1. /\ DOMAIN till' = Cashier
      /\ \A t \in Cashier : till'[t] \in TillRow /\ Worded(till'[t])
  BY TillTyped
<1>2. \A t \in Cashier : Worded(till[t])'
  BY <1>1 DEF Worded
<1> QED
  BY <1>1, <1>2 DEF RowTypes, DiscountTypeOK

LEMMA MeetTyped ==
  ASSUME RowTypes, NEW o \in Sale,
         Meet(o) \/ Ignore(o) \/ \E kept \in BOOLEAN : MeetUnless(o, kept)
  PROVE  odd' \subseteq Sale /\ odd \subseteq odd'
<1>1. CASE Meet(o) \/ Ignore(o)
  BY <1>1, KinIs, RowsTyped DEF Meet, Ignore
<1>2. CASE \E kept \in BOOLEAN : MeetUnless(o, kept)
  BY <1>2, KinIs, RowsTyped DEF MeetUnless
<1> QED
  BY <1>1, <1>2

Asks(s) ==
  \/ ReadForApply(s) \/ ReadForManual(s) \/ ReadForRemove(s) \/ ReadForDirect(s)
  \/ ReadForEdit(s) \/ ReadForSwitch(s) \/ ReadForReplace(s) \/ ReadForMerge(s)
  \/ ReadForBill(s) \/ ReadForBillDiscount(s) \/ ReadForCollect(s)

LEMMA AskStepTyped ==
  ASSUME UsesInv, RowTypes, NEW s \in Cashier,
         Asks(s) \/ Claim(s) \/ Delete(s) \/ DropRequest(s)
  PROVE  /\ RowTypes' /\ odd \subseteq odd'
         /\ UNCHANGED <<promo, sale, slip, given, always, summit, each>>
<1>1. UNCHANGED <<promo, sale, slip, given, always, summit, each>>
  BY DEF Asks, ReadForApply, ReadForManual, ReadForRemove, ReadForDirect, ReadForEdit,
         ReadForSwitch, ReadForReplace, ReadForMerge, ReadForBill, ReadForBillDiscount,
         ReadForCollect, Claim, Delete, DropRequest
<1>2. odd' \subseteq Sale /\ odd \subseteq odd'
  <2>1. CASE ReadForApply(s) \/ ReadForManual(s) \/ ReadForDirect(s) \/ ReadForBill(s)
    <3>1. \E o \in Sale : Meet(o) \/ Ignore(o)
      BY <2>1 DEF ReadForApply, ReadForManual, ReadForDirect, ReadForBill
    <3> QED
      BY <3>1, MeetTyped
  <2>2. CASE ReadForRemove(s)
    BY <2>2, MeetTyped DEF ReadForRemove, RowTypes, DiscountTypeOK, GivenRow
  <2>3. CASE ReadForReplace(s) \/ ReadForMerge(s) \/ ReadForCollect(s)
    <3>1. \E o \in Sale : \E kept \in BOOLEAN : MeetUnless(o, kept)
      <4>1. CASE ReadForReplace(s)
        <5>1. PICK o \in Sale, w \in {Unset, 0} \cup Worths :
                MeetUnless(o, w = Unset /\ Of(o) = {} /\ slip[o].status # "LIVE")
          BY <4>1 DEF ReadForReplace
        <5> QED
          BY <5>1
      <4>2. CASE ReadForMerge(s)
        <5>1. PICK o \in Sale : MeetUnless(o, Of(o) = {})
          BY <4>2 DEF ReadForMerge
        <5> QED
          BY <5>1
      <4>3. CASE ReadForCollect(s)
        <5>1. PICK o \in Sale, w \in {0} \cup Worths : \E direct \in {Unset, w} :
                LET d == Least(IF Of(o) # {} THEN sale[o].disc ELSE w, sale[o].sub) IN
                  MeetUnless(o, direct = Unset /\ d = sale[o].disc)
          BY <4>3 DEF ReadForCollect
        <5>2. \E x, y : MeetUnless(o, x = Unset /\ y = sale[o].disc)
          BY <5>1
        <5>3. \A x, y : (x = Unset /\ y = sale[o].disc) \in BOOLEAN
          OBVIOUS
        <5> QED
          BY <5>2, <5>3
      <4> QED
        BY <2>3, <4>1, <4>2, <4>3
    <3> QED
      BY <3>1, MeetTyped
  <2>4. CASE \/ ReadForEdit(s) \/ ReadForSwitch(s) \/ ReadForBillDiscount(s)
             \/ Claim(s) \/ Delete(s) \/ DropRequest(s)
    BY <2>4, RowsTyped DEF ReadForEdit, ReadForSwitch, ReadForBillDiscount, Claim, Delete,
                           DropRequest
  <2> QED
    BY <2>1, <2>2, <2>3, <2>4 DEF Asks
<1>3. ASSUME NEW r \in TillRow, Worded(r), till' = [till EXCEPT ![s] = r]
      PROVE  RowTypes'
  BY <1>1, <1>2, <1>3, AskTyped
<1>4. CASE Asks(s)
  BY <1>1, <1>2, <1>3, <1>4, ReadTyped DEF Asks
<1>5. CASE Return(s)
  BY <1>1, <1>2, <1>3, <1>5, IdleTyped DEF Return, Give
<1>6. ASSUME NEW x \in Nat,
             till' = [till EXCEPT ![s] = [till[s] EXCEPT !.phase = "open", !.sum = x]]
      PROVE  RowTypes'
  <2>1. PICK r : r = [till[s] EXCEPT !.phase = "open", !.sum = x]
    OBVIOUS
  <2>2. till[s] \in TillRow /\ Worded(till[s])
    BY RowsTyped
  <2>3. /\ r \in TillRow
        /\ r.op = till[s].op /\ r.sale = till[s].sale /\ r.from = till[s].from
        /\ r.promo = till[s].promo /\ r.sub = till[s].sub /\ r.amt = till[s].amt
        /\ r.sum = x
    <3>1. x \in Int /\ "open" \in {"open", "sync"}
      BY <1>6
    <3>2. r = Goes(till[s], "open", x)
      BY <2>1 DEF Goes
    <3> QED
      BY <2>2, <3>1, <3>2, TillMoves
  <2>4. Worded(r)
    BY <1>6, <2>2, <2>3 DEF Worded
  <2> QED
    BY <1>3, <1>6, <2>1, <2>3, <2>4
<1>7. CASE Claim(s)
  <2>1. till[s].sale \in Sale /\ till[s].amt \in Nat
    BY <1>7, RowsTyped DEF Claim, Worded, Working, TillRow
  <2>a. SumOf(Of(till[s].sale)) \in Nat
    BY OfIs
  <2>2. SumOf(Of(till[s].sale)) + till[s].amt \in Nat
    BY <2>1, <2>a
  <2> QED
    BY <1>5, <1>6, <1>7, <2>2 DEF Claim, Give
<1>8. CASE Delete(s)
  <2>1. SumOf({g \in Of(till[s].sale) : g.id # till[s].row}) \in Nat
    BY OfIs
  <2> QED
    BY <1>5, <1>6, <1>8, <2>1 DEF Delete, Give
<1> QED
  BY <1>1, <1>2, <1>4, <1>5, <1>7, <1>8 DEF DropRequest

\* A request is answered.
LEMMA ReturnTyped ==
  ASSUME RowTypes, NEW s \in Cashier, Return(s)
  PROVE  /\ DOMAIN till' = Cashier
         /\ \A t \in Cashier : till'[t] \in TillRow /\ Worded(till'[t])
         /\ till'[s] = TillIdle /\ \A t \in Cashier \ {s} : till'[t] = till[t]
<1>1. till' = [till EXCEPT ![s] = TillIdle]
  BY DEF Return, Give
<1>2. /\ DOMAIN till' = Cashier
      /\ \A t \in Cashier : till'[t] \in TillRow /\ Worded(till'[t])
  BY <1>1, IdleTyped, TillTyped
<1> QED
  BY <1>1, <1>2 DEF RowTypes

\* A use is counted or given back.
LEMMA UsedTyped ==
  ASSUME RowTypes, NEW p \in Promo, NEW n \in Nat, promo' = [promo EXCEPT ![p].used = n]
  PROVE  /\ DOMAIN promo' = Promo
         /\ \A q \in Promo : promo'[q] \in PromoRow /\ promo'[q].per = promo[q].per
<1>1. promo[p] \in PromoRow /\ DOMAIN promo = Promo
  BY RowsTyped DEF RowTypes
<1>2. promo' = [promo EXCEPT ![p] = [promo[p] EXCEPT !.used = n]]
  BY <1>1
<1>3. promo'[p] \in PromoRow /\ promo'[p].per = promo[p].per
  BY <1>1, <1>2 DEF PromoRow
<1> QED
  BY <1>1, <1>2, <1>3, RowsTyped

\* The uses that the three requests which give and take discounts leave.
LEMMA CommitTyped ==
  ASSUME UsesInv, RowTypes, NEW s \in Cashier, Apply(s) \/ applyManualDiscount(s) \/ Remove(s)
  PROVE  /\ RowTypes' /\ till[s].op \in Working /\ till[s].sale \in Sale
         /\ \A q \in Promo : promo'[q].per = promo[q].per
         /\ each' = each
         /\ Return(s) /\ odd' = odd
<1>1. /\ till[s].op \in Working /\ till[s].sale \in Sale /\ Return(s) /\ odd' = odd
      /\ UNCHANGED <<always, summit, each>>
  BY RowsTyped DEF Apply, applyManualDiscount, Remove, Working, Worded
<1>2. /\ till[s].sub \in Nat /\ till[s].sum \in Nat /\ till[s].amt \in Nat
      /\ till[s].op = "apply" => till[s].promo \in Promo
  BY RowsTyped DEF TillRow, Worded, Apply, applyManualDiscount, Remove
<1>3. /\ DOMAIN sale' = Sale /\ DOMAIN slip' = Sale
      /\ \A o \in Sale : sale'[o] \in SaleRow /\ slip'[o] \in SlipRow
  BY <1>1, <1>2, ShowIs DEF Apply, applyManualDiscount, Remove
<1>4. /\ DOMAIN promo' = Promo
      /\ \A q \in Promo : promo'[q] \in PromoRow /\ promo'[q].per = promo[q].per
  <2>0. /\ DOMAIN promo = Promo
        /\ \A q \in Promo : promo[q] \in PromoRow /\ promo[q].used \in Nat
    BY RowsTyped DEF RowTypes, PromoRow
  <2>1. CASE UNCHANGED promo
    BY <2>0, <2>1
  <2>2. CASE Apply(s)
    <3>1. till[s].promo \in Promo /\ DOMAIN promo = Promo
      BY <1>2, <2>0, <2>2 DEF Apply
    <3>2. PICK p, n : /\ p = till[s].promo
                      /\ n = promo[p].used + (IF till[s].limit > 0 THEN 1 ELSE 0)
      OBVIOUS
    <3>3. p \in Promo /\ n \in Nat /\ promo' = [promo EXCEPT ![p].used = n]
      BY <2>0, <2>2, <3>1, <3>2 DEF Apply
    <3> QED
      BY <3>3, UsedTyped
  <2>3. CASE Remove(s) /\ promo' # promo
    <3>1. PICK p, n : p = till[s].promo /\ n = GivenBack(p)
      OBVIOUS
    <3>2. p # NoPromo /\ p \in Promo
      BY <2>3, <3>1, RowsTyped DEF Remove, TillRow
    <3>3. n \in Nat /\ promo' = [promo EXCEPT ![p].used = n]
      BY <2>0, <2>3, <3>1, <3>2 DEF Remove, GivenBack
    <3> QED
      BY <3>2, <3>3, UsedTyped
  <2> QED
    BY <2>1, <2>2, <2>3 DEF applyManualDiscount
<1>5. \A g \in given' : g \in GivenRow
  <2>0. \A g \in given : g \in GivenRow
    BY DEF RowTypes, DiscountTypeOK
  <2>1. CASE Remove(s)
    BY <2>0, <2>1 DEF Remove
  <2>2. CASE Apply(s) \/ applyManualDiscount(s)
    <3>1. NewId \in 1..MaxGiven
      BY <2>2, NewIdIsNew DEF Apply, applyManualDiscount, HasRoom, UsesInv
    <3>2. PICK n : /\ given' = given \cup {n}
                   /\ \E p \in Promo \cup {NoPromo} :
                        n = [id |-> NewId, sale |-> till[s].sale, promo |-> p,
                             amt |-> till[s].amt]
      BY <1>2, <2>2 DEF Apply, applyManualDiscount
    <3>3. n \in GivenRow
      BY <1>1, <1>2, <3>1, <3>2 DEF GivenRow
    <3> QED
      BY <2>0, <3>2, <3>3
  <2> QED
    BY <2>1, <2>2
<1>6. /\ DOMAIN till' = Cashier
      /\ \A t \in Cashier : till'[t] \in TillRow /\ Worded(till[t])'
  BY <1>1, ReturnTyped DEF Worded
<1>7. RowTypes'
  <2>1. \A q \in Promo : each'[q] > 0 => 0 < promo'[q].per /\ promo'[q].per <= each'[q]
    BY <1>1, <1>4 DEF RowTypes
  <2> QED
    BY <1>1, <1>3, <1>4, <1>5, <1>6, <2>1 DEF RowTypes, DiscountTypeOK
<1> QED
  BY <1>1, <1>4, <1>7

\* f with r for o, the rest of it as in g.
Put(f, g, o, r) ==
  DOMAIN f = DOMAIN g /\ \A q \in DOMAIN g : f[q] = IF q = o THEN r ELSE g[q]

\* An order's row, and a bill's, are written.
LEMMA OrdersTyped ==
  ASSUME RowTypes, DOMAIN sale' = Sale, DOMAIN slip' = Sale,
         \A q \in Sale : sale'[q] \in SaleRow /\ slip'[q] \in SlipRow,
         UNCHANGED <<promo, given, always, summit, each>>, odd' \subseteq Sale,
         DOMAIN till' = Cashier,
         \A t \in Cashier : till'[t] \in TillRow /\ Worded(till'[t])
  PROVE  RowTypes'
<1>1. \A t \in Cashier : Worded(till[t])'
  BY DEF Worded
<1> QED
  BY <1>1 DEF RowTypes, DiscountTypeOK

LEMMA OrderTyped ==
  ASSUME RowTypes, NEW o \in Sale, NEW r \in SaleRow, NEW b \in SlipRow,
         Put(sale', sale, o, r), Put(slip', slip, o, b),
         UNCHANGED <<promo, given, always, summit, each>>, odd' \subseteq Sale,
         DOMAIN till' = Cashier,
         \A t \in Cashier : till'[t] \in TillRow /\ Worded(till'[t])
  PROVE  RowTypes'
<1>1. /\ DOMAIN sale' = Sale /\ DOMAIN slip' = Sale
      /\ \A q \in Sale : sale'[q] \in SaleRow /\ slip'[q] \in SlipRow
  BY RowsTyped DEF RowTypes, Put
<1> QED
  BY <1>1, OrdersTyped

\* updateDiscount of the order, and what its bill is told.
LEMMA DirectTyped ==
  ASSUME RowTypes, NEW s \in Cashier, WriteDirect(s) \/ SyncDirect(s)
  PROVE  /\ RowTypes' /\ odd' = odd
         /\ till[s].op = "direct" /\ till[s].sale \in Sale
         /\ \A q \in Sale : sale'[q].who = sale[q].who /\ sale'[q].sub = sale[q].sub
         /\ \A q \in Sale \ {till[s].sale} : sale'[q] = sale[q] /\ slip'[q] = slip[q]
         /\ \A t \in Cashier \ {s} : till'[t] = till[t]
         /\ till'[s].op \in {"none", "direct"}
         /\ till'[s].op = "direct" => till'[s].sale = till[s].sale
<1> DEFINE o == till[s].sale
           disc == Off(till[s].direct, till[s].sub)
           total == till[s].sub - disc
<1>1. /\ till[s].op = "direct" /\ o \in Sale /\ odd' = odd /\ odd \subseteq Sale
      /\ till[s].sub \in Nat /\ till[s].sum \in Int
      /\ till[s].direct \in {Unset, 0} \cup Worths
  BY RowsTyped DEF WriteDirect, SyncDirect, Worded, TillRow
<1>2. disc \in Nat /\ total \in Nat
  BY <1>1, OffIs
<1>3. sale[o] \in SaleRow /\ slip[o] \in SlipRow /\ DOMAIN sale = Sale /\ DOMAIN slip = Sale
  BY <1>1, RowsTyped DEF RowTypes
<1>4. CASE WriteDirect(s)
  <2>1. PICK r : r = [[[sale[o] EXCEPT !.direct = till[s].direct] EXCEPT !.disc = disc]
                         EXCEPT !.total = total]
    OBVIOUS
  <2>2. Put(sale', sale, o, r) /\ Put(slip', slip, o, slip[o])
    <3>1. slip' = slip
      BY <1>4 DEF WriteDirect
    <3>2. sale' = [sale EXCEPT ![o].direct = till[s].direct, ![o].disc = disc, ![o].total = total]
      BY <1>4 DEF WriteDirect
    <3> QED
      BY <2>1, <3>1, <3>2, <1>3 DEF Put
  <2> DEFINE d == disc
             n == total
  <2>3. r \in SaleRow /\ r.who = sale[o].who /\ r.sub = sale[o].sub
    <3> HIDE DEF d, n
    <3> SUFFICES ASSUME d \in Nat, n \in Nat,
                        r = [[[sale[o] EXCEPT !.direct = till[s].direct] EXCEPT !.disc = d]
                               EXCEPT !.total = n]
                 PROVE  r \in SaleRow /\ r.who = sale[o].who /\ r.sub = sale[o].sub
      BY <1>2, <2>1 DEF d, n
    <3> QED
      BY <1>1, <1>3 DEF SaleRow
  <2>4. PICK k : /\ k = [till[s] EXCEPT !.phase = "sync", !.sum = total]
                 /\ till' = [till EXCEPT ![s] = k]
    BY <1>4 DEF WriteDirect, Give
  <2>5. k \in TillRow /\ Worded(k) /\ k.op = "direct" /\ k.sale = o
    <3>1. till[s] \in TillRow /\ Worded(till[s])
      BY RowsTyped
    <3>2. PICK m \in Int : m = total
      BY <1>2
    <3>3. k = [till[s] EXCEPT !.phase = "sync", !.sum = m]
      BY <2>4, <3>2
    <3> HIDE DEF o, disc, total
    <3>4. /\ k \in TillRow
          /\ k.op = till[s].op /\ k.sale = till[s].sale
      <4>1. "sync" \in {"open", "sync"}
        OBVIOUS
      <4>2. k = Goes(till[s], "sync", m)
        BY <3>3 DEF Goes
      <4> QED
        BY <3>1, <4>1, <4>2, TillMoves
    <3>5. Worded(k)
      BY <1>1, <3>4 DEF Worded, o
    <3> QED
      BY <1>1, <3>4, <3>5 DEF o
  <2>6. /\ DOMAIN till' = Cashier
        /\ \A t \in Cashier : till'[t] \in TillRow /\ Worded(till'[t])
    BY <2>4, <2>5, TillTyped
  <2>7. UNCHANGED <<promo, given, always, summit, each>>
    BY <1>4 DEF WriteDirect
  <2> HIDE DEF o, disc, total
  <2>8. RowTypes'
    BY <1>1, <1>3, <2>2, <2>3, <2>6, <2>7, OrderTyped
  <2>9. /\ \A q \in Sale : sale'[q].who = sale[q].who /\ sale'[q].sub = sale[q].sub
        /\ \A q \in Sale \ {o} : sale'[q] = sale[q] /\ slip'[q] = slip[q]
        /\ till'[s] = k /\ \A t \in Cashier \ {s} : till'[t] = till[t]
    BY <1>1, <1>3, <2>2, <2>3, <2>4 DEF RowTypes, Put
  <2> QED
    BY <1>1, <2>5, <2>8, <2>9 DEF o
<1>5. CASE SyncDirect(s)
  <2>1. PICK r : r = IF slip[o].status = "NONE" THEN slip[o]
                       ELSE [[slip[o] EXCEPT !.grand = till[s].sum] EXCEPT !.own = FALSE]
    OBVIOUS
  <2>2. Put(slip', slip, o, r) /\ Put(sale', sale, o, sale[o])
    <3>1. sale' = sale
      BY <1>5 DEF SyncDirect
    <3>2. CASE slip[o].status = "NONE"
      <4>1. slip' = slip
        BY <1>5, <3>2 DEF SyncDirect
      <4> QED
        BY <1>3, <2>1, <3>1, <3>2, <4>1 DEF Put
    <3>3. CASE slip[o].status # "NONE"
      <4>1. slip' = [slip EXCEPT ![o].grand = till[s].sum, ![o].own = FALSE]
        BY <1>5, <3>3 DEF SyncDirect
      <4> QED
        BY <1>3, <2>1, <3>1, <3>3, <4>1 DEF Put
    <3> QED
      BY <3>2, <3>3
  <2>3. r \in SlipRow
    <3>1. PICK m \in Int, no \in BOOLEAN : m = till[s].sum /\ no = FALSE
      BY <1>1
    <3> QED
      BY <1>3, <2>1, <3>1 DEF SlipRow
  <2>4. /\ DOMAIN till' = Cashier
        /\ \A t \in Cashier : till'[t] \in TillRow /\ Worded(till'[t])
        /\ till'[s] = TillIdle /\ \A t \in Cashier \ {s} : till'[t] = till[t]
    BY <1>5, ReturnTyped DEF SyncDirect
  <2>5. UNCHANGED <<promo, given, always, summit, each>>
    BY <1>5 DEF SyncDirect
  <2> HIDE DEF o, disc, total
  <2>6. RowTypes'
    BY <1>1, <1>3, <2>2, <2>3, <2>4, <2>5, OrderTyped
  <2>7. /\ sale' = sale
        /\ \A q \in Sale \ {o} : slip'[q] = slip[q]
    BY <1>1, <1>3, <1>5, <2>2 DEF SyncDirect, Put
  <2> QED
    BY <1>1, <2>4, <2>6, <2>7 DEF o, TillIdle
<1> QED
  BY <1>4, <1>5

\* The other requests that write an order or its bill.
Writes(s) ==
  \/ updateOrder(s) \/ mergeOrders(s) \/ createBill(s) \/ updateBillDiscount(s)
  \/ collectPayment(s)

\* What nobody may change of an order while a request is alone on it.
Same(o) ==
  /\ sale'[o].sub = sale[o].sub /\ sale'[o].direct = sale[o].direct
  /\ sale'[o].disc = sale[o].disc /\ sale'[o].total = sale[o].total

LEMMA BilledIs ==
  ASSUME RowTypes, NEW o \in Sale, NEW r \in TillRow, Billed(o, r)
  PROVE  /\ DOMAIN slip' = Sale /\ slip'[o] \in SlipRow
         /\ slip'[o].grand = r.sum /\ slip'[o].own = r.own
         /\ \A q \in Sale \ {o} : slip'[q] = slip[q]
<1>1. slip[o] \in SlipRow /\ DOMAIN slip = Sale
  BY RowsTyped DEF RowTypes
<1>2. PICK b : b = [status |-> IF slip[o].status = "NONE" THEN "LIVE" ELSE slip[o].status,
                    sub |-> r.sub, extra |-> r.extra, grand |-> r.sum, own |-> r.own]
  OBVIOUS
<1>3. slip' = [slip EXCEPT ![o] = b]
  BY <1>1, <1>2 DEF Billed
<1>4. r.sub \in Nat /\ r.extra \in Int /\ r.sum \in Int /\ r.own \in BOOLEAN
  BY DEF TillRow
<1>5. b \in SlipRow
  <2>1. PICK x : x = IF slip[o].status = "NONE" THEN "LIVE" ELSE slip[o].status
    OBVIOUS
  <2>2. x \in {"NONE", "LIVE", "CANCELLED"}
    BY <1>1, <2>1 DEF SlipRow
  <2>3. b = [status |-> x, sub |-> r.sub, extra |-> r.extra, grand |-> r.sum, own |-> r.own]
    BY <1>2, <2>1
  <2> QED
    BY <1>4, <2>2, <2>3 DEF SlipRow
<1>6. b.grand = r.sum /\ b.own = r.own
  BY <1>2
<1> QED
  BY <1>1, <1>3, <1>5, <1>6

LEMMA WriteTyped ==
  ASSUME RowTypes, NEW s \in Cashier, Writes(s)
  PROVE  /\ RowTypes' /\ odd' = odd /\ given' = given /\ promo' = promo /\ each' = each
         /\ Return(s) /\ till[s].sale \in Sale
         /\ till[s].op \in {"replace", "merge", "bill", "billDiscount", "collect"}
         /\ \A q \in Sale : sale'[q].who = sale[q].who
         /\ \A q \in Sale \ {till[s].sale} : Same(q) /\ slip'[q] = slip[q]
<1>1. /\ UNCHANGED <<promo, given, odd, always, summit, each>> /\ Return(s)
      /\ till[s].op \in {"replace", "merge", "bill", "billDiscount", "collect"}
  BY DEF Writes, updateOrder, mergeOrders, createBill, updateBillDiscount, collectPayment
<1>2. PICK r \in TillRow, o \in Sale : r = till[s] /\ o = till[s].sale /\ Worded(r)
  BY <1>1, RowsTyped DEF Worded, Working
<1>3. /\ r.sub \in Nat /\ r.amt \in Nat /\ r.sum \in Int
      /\ r.direct \in {Unset, 0} \cup Worths
  BY DEF TillRow
<1>4. /\ DOMAIN sale = Sale /\ DOMAIN slip = Sale
      /\ \A q \in Sale : sale[q] \in SaleRow /\ slip[q] \in SlipRow
  BY RowsTyped DEF RowTypes
<1>5. ASSUME /\ DOMAIN sale' = Sale /\ DOMAIN slip' = Sale
             /\ \A q \in Sale : sale'[q] \in SaleRow /\ slip'[q] \in SlipRow
             /\ \A q \in Sale : sale'[q].who = sale[q].who
             /\ \A q \in Sale \ {o} : Same(q) /\ slip'[q] = slip[q]
      PROVE  /\ RowTypes'
             /\ \A q \in Sale : sale'[q].who = sale[q].who
             /\ \A q \in Sale \ {till[s].sale} : Same(q) /\ slip'[q] = slip[q]
  <2>1. /\ DOMAIN till' = Cashier
        /\ \A t \in Cashier : till'[t] \in TillRow /\ Worded(till'[t])
    BY <1>1, ReturnTyped
  <2>2. RowTypes'
    BY <1>1, <1>5, <2>1, RowsTyped, OrdersTyped
  <2> QED
    BY <1>2, <1>5, <2>2
<1>6. ASSUME NEW b \in SaleRow, b.who = sale[o].who, Put(sale', sale, o, b)
      PROVE  /\ DOMAIN sale' = Sale
             /\ \A q \in Sale : sale'[q] \in SaleRow /\ sale'[q].who = sale[q].who
             /\ \A q \in Sale \ {o} : Same(q)
  BY <1>4, <1>6 DEF Put, Same
<1>7. sale' = sale => Put(sale', sale, o, sale[o])
  BY <1>4 DEF Put
<1>8. slip' = slip => /\ DOMAIN slip' = Sale /\ \A q \in Sale : slip'[q] \in SlipRow
                      /\ \A q \in Sale \ {o} : slip'[q] = slip[q]
  BY <1>4
<1>9. CASE updateOrder(s)
  <2>1. PICK k, w, d, n : k = r.sub /\ w = r.direct /\ d = Off(w, k) /\ n = k - d
    OBVIOUS
  <2>2. k \in Subs /\ w \in {Unset, 0} \cup Worths /\ d \in Nat /\ n \in Nat
    <3>1. k \in Subs
      BY <1>2, <1>9, <2>1 DEF updateOrder, Worded
    <3> QED
      BY <1>3, <2>1, <3>1, OffIs
  <2>3. PICK b : b = [[[[sale[o] EXCEPT !.sub = k] EXCEPT !.direct = w] EXCEPT !.disc = d]
                        EXCEPT !.total = n]
    OBVIOUS
  <2>4. b \in SaleRow /\ b.who = sale[o].who
    BY <1>4, <2>2, <2>3 DEF SaleRow
  <2>5. sale' = [sale EXCEPT ![o].sub = k, ![o].direct = w, ![o].disc = d, ![o].total = n]
    BY <1>2, <1>9, <2>1 DEF updateOrder
  <2>6. Put(sale', sale, o, b)
    BY <1>4, <2>3, <2>5 DEF Put
  <2>7. slip' = slip
    BY <1>9 DEF updateOrder
  <2> QED
    BY <1>1, <1>2, <1>5, <1>6, <1>8, <2>4, <2>6, <2>7
<1>10. CASE mergeOrders(s)
  <2>1. PICK k \in Subs :
          LET d == Off(sale[o].direct, k) IN
            sale' = [sale EXCEPT ![r.from].status = "CANCELLED", ![o].sub = k,
                                 ![o].disc = d, ![o].total = k - d]
    BY <1>2, <1>10 DEF mergeOrders
  <2>2. PICK d, n, m : /\ d = Off(sale[o].direct, k) /\ n = k - d
                       /\ m = [sale EXCEPT ![r.from].status = "CANCELLED"]
    OBVIOUS
  <2>3. d \in Nat /\ n \in Nat
    <3>1. sale[o].direct \in {Unset, 0} \cup Worths /\ k \in Nat
      BY <1>4, DiscountAssumption DEF SaleRow
    <3> QED
      BY <2>2, <3>1, OffIs
  <2>4. /\ DOMAIN m = Sale
        /\ \A q \in Sale : /\ m[q] \in SaleRow /\ m[q].who = sale[q].who
                           /\ m[q].sub = sale[q].sub /\ m[q].direct = sale[q].direct
                           /\ m[q].disc = sale[q].disc /\ m[q].total = sale[q].total
    <3>1. r.from \in Sale
      BY <1>2, <1>10 DEF mergeOrders, Worded
    <3>2. PICK c : c = [sale[r.from] EXCEPT !.status = "CANCELLED"]
      OBVIOUS
    <3>3. /\ c \in SaleRow /\ c.who = sale[r.from].who
          /\ c.sub = sale[r.from].sub /\ c.direct = sale[r.from].direct
          /\ c.disc = sale[r.from].disc /\ c.total = sale[r.from].total
      BY <1>4, <3>1, <3>2 DEF SaleRow
    <3>4. DOMAIN m = Sale /\ \A q \in Sale : m[q] = IF q = r.from THEN c ELSE sale[q]
      BY <1>4, <2>2, <3>1, <3>2
    <3> QED
      BY <1>4, <3>1, <3>3, <3>4
  <2>5. sale' = [m EXCEPT ![o].sub = k, ![o].disc = d, ![o].total = n]
    BY <2>1, <2>2
  <2>6. PICK b : b = [[[m[o] EXCEPT !.sub = k] EXCEPT !.disc = d] EXCEPT !.total = n]
    OBVIOUS
  <2>7. b \in SaleRow /\ b.who = sale[o].who
    BY <2>3, <2>4, <2>6 DEF SaleRow
  <2>8. DOMAIN sale' = Sale /\ \A q \in Sale : sale'[q] = IF q = o THEN b ELSE m[q]
    BY <2>4, <2>5, <2>6
  <2>9. /\ \A q \in Sale : sale'[q] \in SaleRow /\ sale'[q].who = sale[q].who
        /\ \A q \in Sale \ {o} : Same(q)
    BY <2>4, <2>7, <2>8 DEF Same
  <2>10. slip' = slip
    BY <1>10 DEF mergeOrders
  <2> QED
    BY <1>1, <1>2, <1>5, <1>8, <2>8, <2>9, <2>10
<1>11. CASE createBill(s)
  <2>1. sale' = sale /\ (slip' = slip \/ Billed(o, r))
    BY <1>2, <1>11 DEF createBill
  <2>2. /\ DOMAIN slip' = Sale /\ \A q \in Sale : slip'[q] \in SlipRow
        /\ \A q \in Sale \ {o} : slip'[q] = slip[q]
    BY <1>4, <1>8, <2>1, BilledIs
  <2> QED
    BY <1>1, <1>2, <1>4, <1>5, <1>6, <1>7, <2>1, <2>2
<1>12. CASE updateBillDiscount(s)
  <2>1. PICK y \in BOOLEAN : y = TRUE
    OBVIOUS
  <2>2. PICK b : b = [[slip[o] EXCEPT !.grand = r.sum] EXCEPT !.own = y]
    OBVIOUS
  <2>3. b \in SlipRow
    BY <1>3, <1>4, <2>2 DEF SlipRow
  <2>4. slip' = [slip EXCEPT ![o].grand = r.sum, ![o].own = y] /\ sale' = sale
    BY <1>2, <1>12, <2>1 DEF updateBillDiscount
  <2>5. DOMAIN slip' = Sale /\ \A q \in Sale : slip'[q] = IF q = o THEN b ELSE slip[q]
    BY <1>4, <2>2, <2>4
  <2> QED
    BY <1>1, <1>2, <1>4, <1>5, <1>6, <1>7, <2>3, <2>4, <2>5
<1>13. CASE collectPayment(s)
  <2>1. /\ slip' = slip \/ Billed(o, r)
        /\ \/ sale' = [sale EXCEPT ![o].status = "OPEN", ![o].disc = r.amt,
                                   ![o].direct = r.direct]
           \/ sale' = sale
    BY <1>2, <1>13 DEF collectPayment
  <2>2. /\ DOMAIN slip' = Sale /\ \A q \in Sale : slip'[q] \in SlipRow
        /\ \A q \in Sale \ {o} : slip'[q] = slip[q]
    BY <1>4, <1>8, <2>1, BilledIs
  <2>3. PICK b : b = [[[sale[o] EXCEPT !.status = "OPEN"] EXCEPT !.disc = r.amt]
                        EXCEPT !.direct = r.direct]
    OBVIOUS
  <2>4. b \in SaleRow /\ b.who = sale[o].who
    BY <1>3, <1>4, <2>3 DEF SaleRow
  <2>5. sale' = sale \/ Put(sale', sale, o, b)
    BY <1>4, <2>1, <2>3 DEF Put
  <2> QED
    BY <1>1, <1>2, <1>4, <1>5, <1>6, <1>7, <2>2, <2>4, <2>5
<1> QED
  BY <1>1, <1>2, <1>9, <1>10, <1>11, <1>12, <1>13 DEF Writes

\* The operations on an order and its bill.
LEMMA CloseTyped ==
  ASSUME RowTypes, NEW o \in Sale,
         recalculateOrder(o) \/ CloseOrder(o) \/ splitOrders(o) \/ cancelBill(o)
  PROVE  /\ RowTypes' /\ odd \subseteq odd' /\ till' = till /\ promo' = promo /\ given' = given
         /\ each' = each
         /\ \A q \in Sale : sale'[q].who = sale[q].who
         /\ \A q \in Sale \ {o} : sale'[q] = sale[q] /\ slip'[q] = slip[q]
         /\ ~recalculateOrder(o) =>
              /\ Same(o)
              /\ slip'[o] \in {slip[o], [slip[o] EXCEPT !.status = "CANCELLED"]}
<1>1. sale[o] \in SaleRow /\ slip[o] \in SlipRow /\ DOMAIN sale = Sale /\ DOMAIN slip = Sale
  BY RowsTyped DEF RowTypes
<1>2. /\ UNCHANGED <<promo, given, always, summit, each>> /\ till' = till
      /\ odd \subseteq odd' /\ odd' \subseteq Sale
  BY RowsTyped DEF recalculateOrder, CloseOrder, splitOrders, cancelBill
<1>3. /\ DOMAIN till' = Cashier
      /\ \A t \in Cashier : till'[t] \in TillRow /\ Worded(till'[t])
  BY <1>2, RowsTyped DEF RowTypes
<1>4. slip' = slip => Put(slip', slip, o, slip[o])
  BY <1>1 DEF Put
<1>5. ASSUME NEW r \in SaleRow, NEW b \in SlipRow, r.who = sale[o].who,
             Put(sale', sale, o, r), Put(slip', slip, o, b)
      PROVE  /\ RowTypes' /\ sale'[o] = r /\ slip'[o] = b
             /\ \A q \in Sale : sale'[q].who = sale[q].who
             /\ \A q \in Sale \ {o} : sale'[q] = sale[q] /\ slip'[q] = slip[q]
  <2>1. RowTypes'
    BY <1>2, <1>3, <1>5, OrderTyped
  <2> QED
    BY <1>1, <1>5, <2>1 DEF Put
<1>6. CASE recalculateOrder(o)
  <2>1. PICK sub \in Subs :
          LET disc == Off(sale[o].direct, sub) IN
            /\ sale' = [sale EXCEPT ![o].sub = sub, ![o].disc = disc, ![o].total = sub - disc]
            /\ slip' = IF slip[o].status = "NONE" THEN slip
                         ELSE [slip EXCEPT ![o].sub = sub, ![o].grand = sub - disc,
                                           ![o].own = FALSE]
    BY <1>6 DEF recalculateOrder
  <2>2. PICK d, n : d = Off(sale[o].direct, sub) /\ n = sub - d
    OBVIOUS
  <2>3. sub \in Nat /\ d \in Nat /\ n \in Nat
    <3>1. sale[o].direct \in {Unset, 0} \cup Worths /\ sub \in Nat
      BY <1>1, DiscountAssumption DEF SaleRow
    <3> QED
      BY <2>2, <3>1, OffIs
  <2>4. PICK no, m : no = FALSE /\ m = n /\ no \in BOOLEAN /\ m \in Int
    <3>1. n \in Int
      BY <2>3
    <3>2. PICK no : no = FALSE /\ no \in BOOLEAN
      OBVIOUS
    <3> QED
      BY <3>1, <3>2
  <2>5. PICK r, b : /\ r = [[[sale[o] EXCEPT !.sub = sub] EXCEPT !.disc = d] EXCEPT !.total = n]
                    /\ b = [[[slip[o] EXCEPT !.sub = sub] EXCEPT !.grand = m] EXCEPT !.own = no]
    OBVIOUS
  <2>6. r \in SaleRow /\ r.who = sale[o].who /\ b \in SlipRow
    <3>1. r \in SaleRow /\ r.who = sale[o].who
      BY <1>1, <2>3, <2>5 DEF SaleRow
    <3>2. b \in SlipRow
      BY <1>1, <2>3, <2>4, <2>5 DEF SlipRow
    <3> QED
      BY <3>1, <3>2
  <2>7. Put(sale', sale, o, r)
    <3>1. sale' = [sale EXCEPT ![o].sub = sub, ![o].disc = d, ![o].total = n]
      BY <2>1, <2>2
    <3> QED
      BY <1>1, <2>5, <3>1 DEF Put
  <2>8. CASE slip[o].status = "NONE"
    <3>1. slip' = slip
      BY <2>1, <2>8
    <3> QED
      BY <1>1, <1>2, <1>4, <1>5, <1>6, <2>6, <2>7, <3>1
  <2>9. CASE slip[o].status # "NONE"
    <3>1. slip' = [slip EXCEPT ![o].sub = sub, ![o].grand = m, ![o].own = no]
      BY <2>1, <2>2, <2>4, <2>9
    <3>2. Put(slip', slip, o, b)
      BY <1>1, <2>5, <3>1 DEF Put
    <3> QED
      BY <1>2, <1>5, <1>6, <2>6, <2>7, <3>2
  <2> QED
    BY <2>8, <2>9
<1>7. CASE CloseOrder(o) \/ splitOrders(o) \/ cancelBill(o)
  <2>1. PICK r : /\ Put(sale', sale, o, r)
                 /\ \/ r = [sale[o] EXCEPT !.status = "CANCELLED"]
                    \/ r = [sale[o] EXCEPT !.deleted = TRUE]
                    \/ r = [sale[o] EXCEPT !.status = "OPEN"]
    BY <1>1, <1>7 DEF CloseOrder, splitOrders, cancelBill, Put
  <2>2. /\ r \in SaleRow /\ r.who = sale[o].who
        /\ r.sub = sale[o].sub /\ r.direct = sale[o].direct
        /\ r.disc = sale[o].disc /\ r.total = sale[o].total
    BY <1>1, <2>1 DEF SaleRow
  <2>3. PICK b : /\ Put(slip', slip, o, b)
                 /\ b = slip[o] \/ b = [slip[o] EXCEPT !.status = "CANCELLED"]
    BY <1>1, <1>7 DEF CloseOrder, splitOrders, cancelBill, Put
  <2>4. b \in SlipRow
    BY <1>1, <2>3 DEF SlipRow
  <2>5. /\ RowTypes' /\ sale'[o] = r /\ slip'[o] = b
        /\ \A q \in Sale : sale'[q].who = sale[q].who
        /\ \A q \in Sale \ {o} : sale'[q] = sale[q] /\ slip'[q] = slip[q]
    BY <1>5, <2>1, <2>2, <2>3, <2>4
  <2> QED
    BY <1>2, <2>2, <2>3, <2>5 DEF Same
<1> QED
  BY <1>6, <1>7

\* Limits per customer that were always there only go up.
Grown == \A q \in Promo : each'[q] > 0 => 0 < each[q] /\ each[q] <= each'[q]

LEMMA GrownSame == ASSUME RowTypes, each' = each PROVE Grown
<1>1. \A q \in Promo : each[q] \in Nat
  BY DiscountAssumption DEF RowTypes, DiscountTypeOK
<1> QED
  BY <1>1 DEF Grown

\* A promotion's row is written.
LEMMA PromoTyped ==
  ASSUME RowTypes, NEW p \in Promo, NEW r \in PromoRow, promo' = [promo EXCEPT ![p] = r],
         each' \in [Promo -> 0..MaxLimit], \A q \in Promo \ {p} : each'[q] = each[q],
         each'[p] > 0 => /\ 0 < r.per /\ r.per <= each'[p]
                         /\ 0 < each[p] /\ each[p] <= each'[p],
         UNCHANGED <<sale, slip, given, odd>>, always' \subseteq always,
         summit' \in [Promo -> 0..MaxLimit], DOMAIN till' = Cashier,
         \A t \in Cashier : till'[t] \in TillRow /\ Worded(till'[t])
  PROVE  RowTypes' /\ Grown
<1>1. /\ DOMAIN promo' = Promo
      /\ \A q \in Promo : promo'[q] \in PromoRow
      /\ promo'[p] = r /\ \A q \in Promo \ {p} : promo'[q] = promo[q]
  BY RowsTyped DEF RowTypes
<1>2. \A t \in Cashier : Worded(till[t])'
  BY DEF Worded
<1>3. \A q \in Promo : each'[q] > 0 => 0 < promo'[q].per /\ promo'[q].per <= each'[q]
  BY <1>1 DEF RowTypes
<1>4. Grown
  <2>1. \A q \in Promo : each[q] \in Nat
    BY DiscountAssumption DEF RowTypes, DiscountTypeOK
  <2> QED
    BY <2>1 DEF Grown
<1> QED
  BY <1>1, <1>2, <1>3, <1>4 DEF RowTypes, DiscountTypeOK

\* What the owner, or time, does to a promotion.
LEMMA OwnerTyped ==
  ASSUME RowTypes,
         \/ \E s \in Cashier : updateDiscount(s) \/ setDiscountStatus(s)
         \/ \E p \in Promo : archiveDiscount(p) \/ ScheduleTurns(p)
  PROVE  /\ RowTypes' /\ Grown /\ UNCHANGED <<sale, slip, given, odd>>
         /\ \A t \in Cashier : till'[t] \in {till[t], TillIdle}
<1>1. /\ DOMAIN promo = Promo /\ \A q \in Promo : promo[q] \in PromoRow
      /\ summit \in [Promo -> 0..MaxLimit] /\ each \in [Promo -> 0..MaxLimit]
      /\ DOMAIN till = Cashier
      /\ \A t \in Cashier : till[t] \in TillRow /\ Worded(till[t])
  BY RowsTyped DEF RowTypes, DiscountTypeOK
<1>2. UNCHANGED <<sale, slip, given, odd>>
  BY DEF updateDiscount, setDiscountStatus, archiveDiscount, ScheduleTurns
<1>a. \A q \in Promo : /\ each[q] \in Nat /\ promo[q].per \in Nat
                       /\ each[q] > 0 => 0 < promo[q].per /\ promo[q].per <= each[q]
  BY <1>1, DiscountAssumption DEF RowTypes, PromoRow
<1>b. ASSUME NEW p \in Promo, NEW r \in PromoRow, promo' = [promo EXCEPT ![p] = r],
             r.per = promo[p].per, UNCHANGED <<always, summit, each>>, DOMAIN till' = Cashier,
             \A t \in Cashier : till'[t] \in TillRow /\ Worded(till'[t])
      PROVE  RowTypes' /\ Grown
  <2>1. each'[p] > 0 => /\ 0 < r.per /\ r.per <= each'[p]
                        /\ 0 < each[p] /\ each[p] <= each'[p]
    BY <1>a, <1>b
  <2> QED
    BY <1>1, <1>2, <1>b, <2>1, PromoTyped
<1>3. ASSUME NEW s \in Cashier, updateDiscount(s)
      PROVE  RowTypes' /\ Grown /\ \A t \in Cashier : till'[t] \in {till[t], TillIdle}
  <2>1. PICK p, k, c, m, w, x, y :
          /\ p = till[s].promo /\ k = till[s].limit /\ c = till[s].per /\ m = till[s].most
          /\ w = till[s].amt /\ x = till[s].stack /\ y = till[s].on
    OBVIOUS
  <2>2. /\ p \in Promo /\ k \in 0..MaxLimit /\ c \in 0..MaxLimit /\ m \in 1..2
        /\ w \in Worths /\ x \in BOOLEAN /\ y \in BOOLEAN
    BY <1>1, <1>3, <2>1 DEF TillRow, Worded, updateDiscount
  <2>3. /\ promo' = [promo EXCEPT ![p].limit = k, ![p].per = c, ![p].most = m,
                                  ![p].worth = w, ![p].stack = x, ![p].on = y]
        /\ summit' = [summit EXCEPT ![p] = IF k > @ THEN k ELSE @]
        /\ each' = [each EXCEPT ![p] = IF c = 0 \/ @ = 0 THEN 0 ELSE IF c > @ THEN c ELSE @]
        /\ always' \subseteq always /\ Return(s)
    BY <1>3, <2>1 DEF updateDiscount, Limit
  <2>4. PICK r : r = [[[[[[promo[p] EXCEPT !.limit = k] EXCEPT !.per = c] EXCEPT !.most = m]
                        EXCEPT !.worth = w] EXCEPT !.stack = x] EXCEPT !.on = y]
    OBVIOUS
  <2>5. promo' = [promo EXCEPT ![p] = r]
    BY <1>1, <2>2, <2>3, <2>4
  <2>6. r \in PromoRow /\ r.per = c
    BY <1>1, <2>2, <2>4 DEF PromoRow
  <2>7. summit' \in [Promo -> 0..MaxLimit]
    BY <1>1, <2>2, <2>3
  <2>8. /\ DOMAIN till' = Cashier
        /\ \A t \in Cashier : till'[t] \in TillRow /\ Worded(till'[t])
        /\ till'[s] = TillIdle /\ \A t \in Cashier \ {s} : till'[t] = till[t]
    BY <2>3, ReturnTyped
  <2>9. /\ each' \in [Promo -> 0..MaxLimit]
        /\ \A q \in Promo \ {p} : each'[q] = each[q]
        /\ each'[p] = IF c = 0 \/ each[p] = 0 THEN 0 ELSE IF c > each[p] THEN c ELSE each[p]
    <3>1. PICK n : n = IF c = 0 \/ each[p] = 0 THEN 0 ELSE IF c > each[p] THEN c ELSE each[p]
      OBVIOUS
    <3>2. n \in 0..MaxLimit
      BY <1>1, <2>2, <3>1, DiscountAssumption
    <3>3. each' = [each EXCEPT ![p] = n]
      BY <1>1, <2>2, <2>3, <3>1
    <3> QED
      BY <1>1, <2>2, <3>1, <3>2, <3>3
  <2>10. each'[p] > 0 => /\ 0 < r.per /\ r.per <= each'[p]
                         /\ 0 < each[p] /\ each[p] <= each'[p]
    <3>1. c \in Nat /\ each[p] \in Nat
      BY <1>a, <2>2, DiscountAssumption
    <3> QED
      BY <2>6, <2>9, <3>1
  <2>11. RowTypes' /\ Grown
    BY <1>2, <2>2, <2>3, <2>5, <2>6, <2>7, <2>8, <2>9, <2>10, PromoTyped
  <2> QED
    BY <2>8, <2>11
<1>4. ASSUME NEW s \in Cashier, setDiscountStatus(s)
      PROVE  RowTypes' /\ Grown /\ \A t \in Cashier : till'[t] \in {till[t], TillIdle}
  <2>1. PICK p, y : p = till[s].promo /\ y = till[s].on
    OBVIOUS
  <2>2. p \in Promo /\ y \in BOOLEAN
    BY <1>1, <1>4, <2>1 DEF TillRow, Worded, setDiscountStatus
  <2>3. /\ promo' = [promo EXCEPT ![p].on = y]
        /\ UNCHANGED <<always, summit, each>> /\ Return(s)
    BY <1>4, <2>1 DEF setDiscountStatus
  <2>4. PICK r : r = [promo[p] EXCEPT !.on = y]
    OBVIOUS
  <2>5. promo' = [promo EXCEPT ![p] = r]
    BY <1>1, <2>2, <2>3, <2>4
  <2>6. r \in PromoRow /\ r.per = promo[p].per
    BY <1>1, <2>2, <2>4 DEF PromoRow
  <2>7. /\ DOMAIN till' = Cashier
        /\ \A t \in Cashier : till'[t] \in TillRow /\ Worded(till'[t])
        /\ till'[s] = TillIdle /\ \A t \in Cashier \ {s} : till'[t] = till[t]
    BY <2>3, ReturnTyped
  <2>8. RowTypes' /\ Grown
    BY <1>b, <2>2, <2>3, <2>5, <2>6, <2>7
  <2> QED
    BY <2>7, <2>8
<1>5. ASSUME NEW p \in Promo, archiveDiscount(p) \/ ScheduleTurns(p)
      PROVE  RowTypes' /\ Grown /\ \A t \in Cashier : till'[t] \in {till[t], TillIdle}
  <2>1. PICK r : /\ promo' = [promo EXCEPT ![p] = r]
                 /\ r \in PromoRow /\ r.per = promo[p].per
    <3>1. CASE archiveDiscount(p)
      <4>1. PICK yes, no : yes = TRUE /\ no = FALSE /\ yes \in BOOLEAN /\ no \in BOOLEAN
        OBVIOUS
      <4>2. PICK r : r = [[promo[p] EXCEPT !.archived = yes] EXCEPT !.on = no]
        OBVIOUS
      <4>3. promo' = [promo EXCEPT ![p] = r]
        BY <1>1, <3>1, <4>1, <4>2 DEF archiveDiscount
      <4>4. r \in PromoRow /\ r.per = promo[p].per
        BY <1>1, <4>1, <4>2 DEF PromoRow
      <4> QED
        BY <4>3, <4>4
    <3>2. CASE ScheduleTurns(p)
      <4>1. PICK x \in BOOLEAN : x = ~promo[p].due
        OBVIOUS
      <4>2. PICK r : r = [promo[p] EXCEPT !.due = x]
        OBVIOUS
      <4>3. promo' = [promo EXCEPT ![p] = r]
        BY <1>1, <3>2, <4>1, <4>2 DEF ScheduleTurns
      <4>4. r \in PromoRow /\ r.per = promo[p].per
        BY <1>1, <4>1, <4>2 DEF PromoRow
      <4> QED
        BY <4>3, <4>4
    <3> QED
      BY <1>5, <3>1, <3>2
  <2>2. UNCHANGED <<till, always, summit, each>>
    BY <1>5 DEF archiveDiscount, ScheduleTurns
  <2>3. DOMAIN till' = Cashier /\ \A t \in Cashier : till'[t] \in TillRow /\ Worded(till'[t])
    BY <1>1, <2>2
  <2>4. RowTypes' /\ Grown
    BY <1>b, <1>5, <2>1, <2>2, <2>3
  <2> QED
    BY <2>2, <2>4
<1> QED
  BY <1>2, <1>3, <1>4, <1>5

LEMMA TypesStep == ASSUME UsesInv, RowTypes, [DiscountNext]_discountVars PROVE RowTypes'
<1>1. CASE UNCHANGED discountVars
  BY <1>1 DEF discountVars, RowTypes, DiscountTypeOK, Worded
<1> QED
  BY <1>1, AskStepTyped, CommitTyped, DirectTyped, WriteTyped, CloseTyped, OwnerTyped
     DEF DiscountNext, Asks, Writes

LEMMA TypesStart == ASSUME DiscountInit PROVE RowTypes
<1> USE DiscountAssumption DEF DiscountInit
<1>1. ASSUME NEW r \in NewPromo
      PROVE  r \in PromoRow /\ r.limit \in 0..MaxLimit /\ r.per \in 0..MaxLimit
  <2>1. /\ IsPromo(r) /\ r.worth \in Worths /\ r.limit \in 0..MaxLimit
        /\ r.per \in 0..MaxLimit /\ r.most \in 1..2 /\ r.used = 0
    BY DEF NewPromo, IsPromo
  <2>2. /\ r.on \in BOOLEAN /\ r.archived \in BOOLEAN /\ r.due \in BOOLEAN
        /\ r.stack \in BOOLEAN
    BY DEF NewPromo
  <2> QED
    BY <2>1, <2>2 DEF PromoRow, IsPromo
<1>2. /\ DOMAIN promo = Promo /\ \A p \in Promo : promo[p] \in PromoRow
      /\ summit \in [Promo -> 0..MaxLimit] /\ always \subseteq Promo
      /\ each \in [Promo -> 0..MaxLimit]
      /\ \A p \in Promo : each[p] > 0 => 0 < promo[p].per /\ promo[p].per <= each[p]
  BY <1>1 DEF Limited
<1>3. /\ DOMAIN sale = Sale /\ \A o \in Sale : sale[o] \in SaleRow
      /\ odd \subseteq Sale
  <2>1. ASSUME NEW c \in Guest \cup {WalkIn}, NEW n \in Subs, NEW d \in {Unset, 0} \cup Worths
        PROVE  [status |-> "OPEN", deleted |-> FALSE, who |-> c, sub |-> n, direct |-> d,
                disc |-> Off(d, n), total |-> n - Off(d, n)] \in SaleRow
    <3>1. PICK x, y : x = Off(d, n) /\ y = n - Off(d, n)
      OBVIOUS
    <3>2. x \in Nat /\ y \in Nat
      BY <3>1, OffIs
    <3> QED
      BY <3>1, <3>2 DEF SaleRow
  <2>2. \A z \in NewSale : z \in SaleRow
    BY <2>1 DEF NewSale
  <2> QED
    BY <2>2
<1>4. /\ DOMAIN slip = Sale /\ \A o \in Sale : slip[o] \in SlipRow
  BY DEF SlipRow, NoSlip
<1>5. DOMAIN till = Cashier /\ \A s \in Cashier : till[s] = TillIdle
  OBVIOUS
<1>6. \A s \in Cashier : till[s] \in TillRow /\ Worded(till[s])
  BY <1>5, IdleTyped
<1> QED
  BY <1>2, <1>3, <1>4, <1>5, <1>6 DEF RowTypes, DiscountTypeOK

-----------------------------------------------------------------------------
(* Steps that give and take nothing *)

\* What neither the customers nor the discounts change.
LEMMA Framed ==
  ASSUME UsesInv, RowTypes, RowTypes', given' = given, odd \subseteq odd', Grown,
         \A q \in Sale : sale'[q].who = sale[q].who
  PROVE  /\ \A o \in Sale : Kin(o)' = Kin(o)
         /\ \A o : Of(o)' = Of(o)
         /\ \A p \in Promo, o \in Sale : Spent(p, o)' => Spent(p, o)
         /\ \A o \in Sale : Within(o) => Within(o)'
         /\ \A r : RowHolds(r) /\ (r.op = "apply" => r.promo \in Promo /\ r.sale \in Sale)
                     => RowHolds(r)'
<1>1. \A o \in Sale : Kin(o)' = Kin(o)
  BY DEF Kin
<1>2. \A o : Of(o)' = Of(o)
  BY DEF Of
<1>3. ASSUME NEW p, NEW c
      PROVE  Taken(p, c)' = Taken(p, c) /\ Cardinality(Taken(p, c)) \in Nat
  <2>1. \A g \in given : g.sale \in Sale
    BY DEF RowTypes, DiscountTypeOK, GivenRow
  <2>2. Taken(p, c)' = Taken(p, c)
    BY <2>1 DEF Taken, Uses
  <2> QED
    BY <2>2, TakenIs
<1>a. \A p \in Promo : /\ each[p] \in Nat /\ each'[p] \in Nat
                       /\ each'[p] > 0 => 0 < each[p] /\ each[p] <= each'[p]
  BY DiscountAssumption DEF RowTypes, DiscountTypeOK, Grown
<1>4. ASSUME NEW p \in Promo, NEW o \in Sale, Spent(p, o)' PROVE Spent(p, o)
  <2>1. PICK c, n : c = sale[o].who /\ n = Cardinality(Taken(p, c)) /\ c = sale'[o].who
    OBVIOUS
  <2>2. n \in Nat /\ n = Cardinality(Taken(p, c)')
    BY <1>3, <2>1
  <2>3. Spent(p, o)' <=> each'[p] > 0 /\ c # WalkIn /\ n >= each'[p]
    BY <2>1, <2>2 DEF Spent, Taken
  <2>4. Spent(p, o) <=> each[p] > 0 /\ c # WalkIn /\ n >= each[p]
    BY <2>1 DEF Spent
  <2> QED
    BY <1>4, <1>a, <2>2, <2>3, <2>4
<1>5. ASSUME NEW o \in Sale, Within(o) PROVE Within(o)'
  <2>1. PICK c : c = sale[o].who /\ c = sale'[o].who
    OBVIOUS
  <2>2. Within(o) <=> \A p \in Promo :
                        each[p] > 0 /\ c # WalkIn => Cardinality(Taken(p, c)) <= each[p]
    BY <2>1 DEF Within, Taken
  <2>3. Within(o)' <=> \A p \in Promo :
                         each'[p] > 0 /\ c # WalkIn => Cardinality(Taken(p, c)') <= each'[p]
    BY <2>1 DEF Within, Taken
  <2>4. ASSUME NEW p \in Promo, each'[p] > 0, c # WalkIn
        PROVE  Cardinality(Taken(p, c)') <= each'[p]
    <3>1. PICK n \in Nat : n = Cardinality(Taken(p, c)) /\ n = Cardinality(Taken(p, c)')
      BY <1>3
    <3>2. n <= each[p]
      BY <1>5, <1>a, <2>2, <2>4, <3>1
    <3> QED
      BY <1>5, <1>a, <2>4, <3>1, <3>2
  <2> QED
    BY <2>3, <2>4
<1>6. ASSUME NEW r, RowHolds(r), r.op = "apply" => r.promo \in Promo /\ r.sale \in Sale
      PROVE  RowHolds(r)'
  BY <1>1, <1>4, <1>6 DEF RowHolds
<1> QED
  BY <1>1, <1>2, <1>4, <1>5, <1>6

\* What a request alone on an order has read of it stays as it read it.
Kept(o) ==
  /\ sale'[o].sub = sale[o].sub /\ sale'[o].disc = sale[o].disc
  /\ sale'[o].total = sale[o].total
  /\ slip'[o].status = "LIVE" => slip[o].status = "LIVE"

LEMMA KeptSame ==
  ASSUME NEW o, Same(o), slip'[o].status = "LIVE" => slip'[o] = slip[o]
  PROVE  Kept(o)
  BY DEF Same, Kept

\* A request at work is on an order, and a giver of a promotion has one.
LEMMA GiverIs ==
  ASSUME RowTypes, NEW t \in Cashier
  PROVE  /\ till[t].op \in Working \cup {"direct", "billDiscount"} => till[t].sale \in Sale
         /\ till[t].op = "apply" => till[t].promo \in Promo
  BY RowsTyped DEF Worded

LEMMA Framed2 ==
  ASSUME UsesInv, RowTypes, given' = given, odd \subseteq odd', NEW r, ReadHolds(r),
         r.op \in Working /\ r.sale \notin odd' => Kept(r.sale)
  PROVE  ReadHolds(r)'
<1>1. Of(r.sale)' = Of(r.sale)
  BY DEF Of
<1>2. {g \in Of(r.sale) : g.id # r.row}' = {g \in Of(r.sale) : g.id # r.row}
  BY <1>1
<1> QED
  BY <1>1, <1>2 DEF ReadHolds, Kept

\* The step gives and takes nothing; requests go on as they were or give nothing.
LEMMA StaysShown ==
  ASSUME UsesInv, ShownInv, RowTypes', given' = given, odd \subseteq odd',
         Grown, \A q \in Sale : sale'[q].who = sale[q].who,
         \A t \in Cashier :
           \/ /\ till'[t] = till[t]
              /\ till[t].op \in Working /\ till[t].sale \notin odd' => Kept(till[t].sale)
           \/ /\ till'[t].op \notin Working
              /\ till'[t].op = "direct" => till'[t].sale \in odd',
         \A q \in Sale \ odd' : Shown(q)'
  PROVE  ShownInv'
<1> USE DEF ShownInv
<1>1. /\ \A o \in Sale : Kin(o)' = Kin(o)
      /\ \A o \in Sale : Within(o) => Within(o)'
      /\ \A r : RowHolds(r) /\ (r.op = "apply" => r.promo \in Promo /\ r.sale \in Sale)
                  => RowHolds(r)'
  BY Framed
<1>2. AloneInv'
  <2>1. \A t \in Cashier : till'[t].op = "direct" => till'[t].sale \in odd'
    BY DEF AloneInv
  <2>2. ASSUME NEW t \in Cashier, NEW u \in Cashier, t # u,
               till'[t].op \in Working, till'[u].op \in Working,
               (till[u].sale \in Kin(till[t].sale))'
        PROVE  (Kin(till[t].sale) \subseteq odd)'
    <3>1. till'[t] = till[t] /\ till'[u] = till[u]
      BY <2>2
    <3>2. till[t].sale \in Sale
      BY <2>2, <3>1, GiverIs
    <3>3. PICK o \in Sale : o = till[t].sale
      BY <3>2
    <3>4. Kin(o)' = Kin(o)
      BY <1>1
    <3>5. Kin(till[t].sale)' = Kin(o)
      <4>1. o = till'[t].sale
        BY <3>1, <3>3
      <4> QED
        BY <3>4, <4>1 DEF Kin
    <3> QED
      BY <2>2, <3>1, <3>3, <3>5 DEF AloneInv
  <2> QED
    BY <2>1, <2>2 DEF AloneInv
<1>3. ASSUME NEW t \in Cashier PROVE ReadHolds(till[t])' /\ RowHolds(till[t])'
  <2>1. CASE till'[t].op \notin Working
    BY <2>1 DEF ReadHolds, RowHolds, Working
  <2>2. CASE till'[t].op \in Working
    <3>1. PICK q : q = till[t] /\ q = till'[t]
      BY <2>2
    <3>2. /\ ReadHolds(q) /\ RowHolds(q)
          /\ q.op = "apply" => q.promo \in Promo /\ q.sale \in Sale
      BY <3>1, GiverIs DEF ReadInv, Working
    <3>3. q.op \in Working /\ q.sale \notin odd' => Kept(q.sale)
      BY <2>2, <3>1
    <3>4. ReadHolds(q)' /\ RowHolds(q)'
      BY <1>1, <3>2, <3>3, Framed2
    <3> QED
      BY <3>1, <3>4 DEF ReadHolds, RowHolds, Of, Spent, Taken, Kin, Uses
  <2> QED
    BY <2>1, <2>2
<1>4. \A o \in Sale \ odd' : Shown(o)' /\ Within(o)'
  BY <1>1
<1> QED
  BY <1>2, <1>3, <1>4 DEF ReadInv

LEMMA ShownSame ==
  ASSUME NEW q, Shown(q), Same(q), slip'[q].status = "LIVE" => slip'[q] = slip[q],
         given' = given
  PROVE  Shown(q)'
<1>1. Of(q)' = Of(q)
  BY DEF Of
<1> QED
  BY <1>1 DEF Shown, Same

LEMMA RowSame ==
  ASSUME NEW q, sale'[q] = sale[q]
  PROVE  Same(q)
  BY DEF Same

\* What an operation on an order does to the order, when nobody gives it discounts.
LEMMA CloseShows ==
  ASSUME UsesInv, ShownInv, NEW o \in Sale,
         recalculateOrder(o) \/ CloseOrder(o) \/ splitOrders(o) \/ cancelBill(o),
         o \notin odd'
  PROVE  Shown(o)' /\ \A t \in Cashier : till[t].sale = o => Kept(o)
<1> USE DEF ShownInv
<1>1. /\ given' = given /\ odd \subseteq odd' /\ Of(o)' = Of(o)
      /\ sale[o] \in SaleRow /\ slip[o] \in SlipRow /\ DOMAIN sale = Sale /\ DOMAIN slip = Sale
      /\ ~recalculateOrder(o) =>
           /\ Same(o)
           /\ slip'[o] \in {slip[o], [slip[o] EXCEPT !.status = "CANCELLED"]}
  BY CloseTyped, RowsTyped DEF RowTypes, Of
<1>2. Shown(o)
  BY <1>1
<1>3. CASE recalculateOrder(o)
  <2>1. PICK sub \in Subs :
          LET disc == Off(sale[o].direct, sub) IN
            /\ sale' = [sale EXCEPT ![o].sub = sub, ![o].disc = disc, ![o].total = sub - disc]
            /\ slip' = IF slip[o].status = "NONE" THEN slip
                         ELSE [slip EXCEPT ![o].sub = sub, ![o].grand = sub - disc,
                                           ![o].own = FALSE]
    BY <1>3 DEF recalculateOrder
  <2>2. sub \in Nat
    BY DiscountAssumption
  <2>3. Off(sale[o].direct, sub) = 0
    BY <1>2 DEF Shown, Off, Unset
  <2>4. Of(o) = {} /\ On(o) = {}
    BY <1>3 DEF recalculateOrder
  <2>5. SumOf(Of(o)) = 0
    BY <2>4, FS_EmptySet, SumAdds
  <2>6. PICK n : n = sub - 0
    OBVIOUS
  <2>7. /\ sale' = [sale EXCEPT ![o].sub = sub, ![o].disc = 0, ![o].total = n]
        /\ slip' = IF slip[o].status = "NONE" THEN slip
                     ELSE [slip EXCEPT ![o].sub = sub, ![o].grand = n, ![o].own = FALSE]
    BY <2>1, <2>3, <2>6
  <2>8. /\ sale'[o].sub = sub /\ sale'[o].disc = 0 /\ sale'[o].total = n
        /\ sale'[o].direct = sale[o].direct
    BY <1>1, <2>7 DEF SaleRow
  <2>a. slip'[o].status = "LIVE" => slip'[o].grand = n
    BY <1>1, <2>7 DEF SlipRow
  <2>9. computeTotalAmount(sub, 0) = n
    BY <2>2, <2>6 DEF computeTotalAmount
  <2>10. Shown(o)'
    BY <1>1, <1>2, <2>5, <2>8, <2>a, <2>9 DEF Shown
  <2> QED
    BY <2>4, <2>10 DEF On
<1>4. CASE ~recalculateOrder(o)
  <2>1. slip'[o].status = "LIVE" => slip'[o] = slip[o]
    BY <1>1, <1>4 DEF SlipRow
  <2> QED
    BY <1>1, <1>2, <1>4, <2>1, ShownSame, KeptSame
<1> QED
  BY <1>3, <1>4

LEMMA CloseShown ==
  ASSUME UsesInv, ShownInv, NEW o \in Sale,
         recalculateOrder(o) \/ CloseOrder(o) \/ splitOrders(o) \/ cancelBill(o)
  PROVE  ShownInv'
<1>1. /\ RowTypes' /\ odd \subseteq odd' /\ till' = till /\ given' = given /\ each' = each
      /\ \A q \in Sale : sale'[q].who = sale[q].who
      /\ \A q \in Sale \ {o} : sale'[q] = sale[q] /\ slip'[q] = slip[q]
  BY CloseTyped DEF ShownInv
<1>2. \A q \in Sale \ odd' : Shown(q)'
  BY <1>1, CloseShows, ShownSame, RowSame DEF ShownInv
<1>3. ASSUME NEW t \in Cashier, till[t].op \in Working, till[t].sale \notin odd'
      PROVE  Kept(till[t].sale)
  <2>1. till[t].sale \in Sale
    BY <1>3, GiverIs DEF ShownInv
  <2>2. CASE till[t].sale = o
    BY <1>3, <2>2, CloseShows
  <2>3. CASE till[t].sale # o
    BY <1>1, <2>1, <2>3, RowSame, KeptSame
  <2> QED
    BY <2>2, <2>3
<1>4. Grown
  BY <1>1, GrownSame DEF ShownInv
<1> QED
  BY <1>1, <1>2, <1>3, <1>4, StaysShown

LEMMA DirectShown ==
  ASSUME UsesInv, ShownInv, NEW s \in Cashier, WriteDirect(s) \/ SyncDirect(s)
  PROVE  ShownInv'
<1>1. /\ RowTypes' /\ odd' = odd
      /\ till[s].op = "direct" /\ till[s].sale \in Sale
      /\ \A q \in Sale : sale'[q].who = sale[q].who /\ sale'[q].sub = sale[q].sub
      /\ \A q \in Sale \ {till[s].sale} : sale'[q] = sale[q] /\ slip'[q] = slip[q]
      /\ \A t \in Cashier \ {s} : till'[t] = till[t]
      /\ till'[s].op \in {"none", "direct"}
      /\ till'[s].op = "direct" => till'[s].sale = till[s].sale
  BY DirectTyped DEF ShownInv
<1>2. till[s].sale \in odd /\ given' = given /\ each' = each
  BY <1>1 DEF ShownInv, AloneInv, WriteDirect, SyncDirect
<1>3. \A q \in Sale \ odd' : Shown(q)'
  BY <1>1, <1>2, ShownSame, RowSame DEF ShownInv
<1>4. /\ till'[s].op \notin Working
      /\ till'[s].op = "direct" => till'[s].sale \in odd'
  BY <1>1, <1>2 DEF Working
<1>5. \A t \in Cashier \ {s} :
        till[t].op \in Working /\ till[t].sale \notin odd' => Kept(till[t].sale)
  <2>1. \A q \in Sale : q \notin odd' => Kept(q)
    BY <1>1, <1>2, RowSame, KeptSame
  <2> QED
    BY <2>1, GiverIs DEF ShownInv
<1>6. Grown
  BY <1>2, GrownSame DEF ShownInv
<1> QED
  BY <1>1, <1>2, <1>3, <1>4, <1>5, <1>6, StaysShown

LEMMA OwnerShown ==
  ASSUME UsesInv, ShownInv,
         \/ \E s \in Cashier : updateDiscount(s) \/ setDiscountStatus(s)
         \/ \E p \in Promo : archiveDiscount(p) \/ ScheduleTurns(p)
  PROVE  ShownInv'
<1>1. /\ RowTypes' /\ Grown /\ UNCHANGED <<sale, slip, given, odd>>
      /\ \A t \in Cashier : till'[t] \in {till[t], TillIdle}
  BY OwnerTyped DEF ShownInv
<1>2. \A q \in Sale \ odd' : Shown(q)'
  BY <1>1, ShownSame, RowSame DEF ShownInv
<1>3. TillIdle.op \notin Working \cup {"direct"}
  BY DEF TillIdle, Working
<1>4. \A t \in Cashier :
        \/ till'[t] = till[t]
        \/ till'[t].op \notin Working \cup {"direct"}
  BY <1>1, <1>3
<1>5. \A q : Kept(q)
  BY <1>1 DEF Kept
<1> QED
  BY <1>1, <1>2, <1>4, <1>5, StaysShown

\* Requests that begin or end without giving anything.
LEMMA IdleShown ==
  ASSUME UsesInv, ShownInv, RowTypes', odd \subseteq odd', NEW s \in Cashier, NEW r,
         UNCHANGED <<promo, sale, slip, given, each>>, till' = [till EXCEPT ![s] = r],
         r.op \notin Working, r.op = "direct" => r.sale \in odd'
  PROVE  ShownInv'
<1>1. till'[s] = r /\ \A t \in Cashier \ {s} : till'[t] = till[t]
  BY DEF ShownInv, RowTypes
<1>2. \A q \in Sale \ odd' : Shown(q)'
  BY ShownSame, RowSame DEF ShownInv
<1>3. (\A q : Kept(q)) /\ Grown
  BY GrownSame DEF Kept, ShownInv
<1> QED
  BY <1>1, <1>2, <1>3, StaysShown

LEMMA QuietShown ==
  ASSUME UsesInv, ShownInv, NEW s \in Cashier,
         \/ ReadForDirect(s) \/ ReadForEdit(s) \/ ReadForSwitch(s) \/ ReadForBillDiscount(s)
         \/ DropRequest(s) \/ ((Claim(s) \/ Delete(s)) /\ Return(s))
  PROVE  ShownInv'
<1>1. RowTypes' /\ odd \subseteq odd' /\ UNCHANGED <<promo, sale, slip, given, each>>
  BY AskStepTyped DEF ShownInv, Asks
<1>2. ASSUME NEW r, till' = [till EXCEPT ![s] = r], r.op \notin Working \cup {"direct"}
      PROVE  ShownInv'
  BY <1>1, <1>2, IdleShown
<1>3. CASE Return(s)
  <2>1. TillIdle.op \notin Working \cup {"direct"}
    BY DEF TillIdle, Working
  <2> QED
    BY <1>2, <1>3, <2>1 DEF Return, Give
<1>4. CASE ReadForDirect(s)
  <2>1. PICK o \in Sale, w \in {Unset, 0} \cup Worths :
          /\ Give(s, [TillIdle EXCEPT !.op = "direct", !.phase = "checked", !.sale = o,
                      !.sub = sale[o].sub, !.direct = w])
          /\ Ignore(o)
    BY <1>4 DEF ReadForDirect
  <2>2. PICK r : r = [TillIdle EXCEPT !.op = "direct", !.phase = "checked", !.sale = o,
                      !.sub = sale[o].sub, !.direct = w]
    OBVIOUS
  <2>3. r.op = "direct" /\ r.sale = o /\ till' = [till EXCEPT ![s] = r]
    BY <2>1, <2>2 DEF TillIdle, Give
  <2>4. r.op \notin Working /\ r.sale \in odd'
    BY <2>1, <2>3 DEF Working, Ignore
  <2> QED
    BY <1>1, <2>3, <2>4, IdleShown
<1>5. CASE ReadForEdit(s)
  <2>1. PICK p \in Promo, limit \in 0..MaxLimit, per \in 0..MaxLimit, most \in 1..2,
             w \in Worths, stack \in BOOLEAN, on \in BOOLEAN :
          Give(s, ToEdit(p, limit, per, most, w, stack, on))
    BY <1>5, EditAsks
  <2>2. PICK r : r = [TillIdle EXCEPT !.op = "edit", !.phase = "checked", !.promo = p,
                      !.limit = limit, !.per = per, !.most = most, !.amt = w,
                      !.stack = stack, !.on = on]
    OBVIOUS
  <2>3. r.op \notin Working \cup {"direct"} /\ till' = [till EXCEPT ![s] = r]
    BY <2>1, <2>2 DEF TillIdle, Give, Working, ToEdit
  <2> QED
    BY <1>2, <2>3
<1>6. CASE ReadForSwitch(s)
  <2>1. PICK p \in Promo :
          Give(s, [TillIdle EXCEPT !.op = "switch", !.phase = "checked", !.promo = p,
                      !.on = ~promo[p].on])
    BY <1>6 DEF ReadForSwitch
  <2>2. PICK r : r = [TillIdle EXCEPT !.op = "switch", !.phase = "checked", !.promo = p,
                      !.on = ~promo[p].on]
    OBVIOUS
  <2>3. r.op \notin Working \cup {"direct"} /\ till' = [till EXCEPT ![s] = r]
    BY <2>1, <2>2 DEF TillIdle, Give, Working
  <2> QED
    BY <1>2, <2>3
<1>7. CASE ReadForBillDiscount(s)
  <2>1. PICK o, x : till' = [till EXCEPT ![s] =
                       [TillIdle EXCEPT !.op = "billDiscount", !.phase = "checked", !.sale = o,
                                        !.sum = x]]
    BY <1>7 DEF ReadForBillDiscount, Give
  <2>2. PICK r : r = [TillIdle EXCEPT !.op = "billDiscount", !.phase = "checked", !.sale = o,
                                        !.sum = x]
    OBVIOUS
  <2>3. r.op \notin Working \cup {"direct"} /\ till' = [till EXCEPT ![s] = r]
    BY <2>1, <2>2 DEF TillIdle, Working
  <2> QED
    BY <1>2, <2>3
<1> QED
  BY <1>3, <1>4, <1>5, <1>6, <1>7 DEF DropRequest

-----------------------------------------------------------------------------
(* Requests that give and take discounts *)

\* A request reads what it will give or take, or goes on with it.
LEMMA AskedShown ==
  ASSUME UsesInv, ShownInv, RowTypes', odd \subseteq odd', NEW s \in Cashier, NEW r,
         UNCHANGED <<promo, sale, slip, given, each>>, till' = [till EXCEPT ![s] = r],
         r.op \in Working, r.sale \in Sale, r.op = "apply" => r.promo \in Promo,
         \A t \in Cashier \ {s} :
           till[t].op \in Working /\ till[t].sale \in Kin(r.sale) => Kin(r.sale) \subseteq odd',
         r.sale \in odd' \/ ReadHolds(r), RowHolds(r)
  PROVE  ShownInv'
<1> USE DEF ShownInv
<1>1. /\ \A o \in Sale : Kin(o)' = Kin(o)
      /\ \A o \in Sale : Within(o) => Within(o)'
      /\ \A q : RowHolds(q) /\ (q.op = "apply" => q.promo \in Promo /\ q.sale \in Sale)
                  => RowHolds(q)'
      /\ \A q : ReadHolds(q) => ReadHolds(q)'
  <2>1. (\A q : Kept(q)) /\ Grown
    BY GrownSame DEF Kept
  <2> QED
    BY <2>1, Framed, Framed2
<1>2. till'[s] = r /\ \A t \in Cashier \ {s} : till'[t] = till[t]
  BY DEF RowTypes
<1>3. \A o \in Sale \ odd' : Shown(o)' /\ Within(o)'
  BY <1>1, ShownSame, RowSame
<1>4. AloneInv'
  <2>1. \A t \in Cashier : till'[t].op = "direct" => till'[t].sale \in odd'
    BY <1>2 DEF AloneInv, Working
  <2>2. ASSUME NEW t \in Cashier, NEW u \in Cashier, t # u,
               till'[t].op \in Working, till'[u].op \in Working,
               (till[u].sale \in Kin(till[t].sale))'
        PROVE  (Kin(till[t].sale) \subseteq odd)'
    <3>1. PICK o, q : o = till'[t].sale /\ q = till'[u].sale
      OBVIOUS
    <3>2. o \in Sale /\ q \in Sale
      BY <1>2, <2>2, <3>1, GiverIs
    <3>3. q \in Kin(o) /\ Kin(o)' = Kin(o)
      <4>1. Kin(o)' = Kin(o)
        BY <1>1, <3>2
      <4>2. (q \in Kin(o))'
        BY <2>2, <3>1 DEF Kin
      <4> QED
        BY <4>1, <4>2
    <3>4. Kin(o) \subseteq odd'
      <4>1. CASE t = s
        BY <1>2, <2>2, <3>1, <3>3, <4>1
      <4>2. CASE u = s
        <5>1. Kin(q) = Kin(o) /\ o \in Kin(q)
          BY <3>2, <3>3, KinIs
        <5> QED
          BY <1>2, <2>2, <3>1, <4>2, <5>1
      <4>3. CASE t # s /\ u # s
        BY <1>2, <2>2, <3>1, <3>3, <4>3 DEF AloneInv
      <4> QED
        BY <4>1, <4>2, <4>3
    <3> QED
      BY <3>1, <3>3, <3>4 DEF Kin
  <2> QED
    BY <2>1, <2>2 DEF AloneInv
<1>5. ASSUME NEW t \in Cashier PROVE ReadHolds(till[t])' /\ RowHolds(till[t])'
  <2>1. PICK q : q = till'[t]
    OBVIOUS
  <2>2. /\ q.sale \in odd' \/ ReadHolds(q)
        /\ RowHolds(q) /\ (q.op = "apply" => q.promo \in Promo /\ q.sale \in Sale)
    BY <1>2, <2>1, GiverIs DEF ReadInv, Working
  <2>a. q.sale \in odd' => ReadHolds(q)'
    BY DEF ReadHolds
  <2>3. ReadHolds(q)' /\ RowHolds(q)'
    BY <1>1, <2>2, <2>a
  <2> QED
    BY <2>1, <2>3 DEF ReadHolds, RowHolds, Of, Spent, Taken, Kin, Uses
<1> QED
  BY <1>3, <1>4, <1>5 DEF ReadInv

\* A request that meets another of the customer makes the orders of both odd.
LEMMA MeetAlone ==
  ASSUME NEW o \in Sale, NEW t \in Cashier, till[t].sale \in Kin(o),
         Meet(o) \/ \E kept \in BOOLEAN : MeetUnless(o, kept)
  PROVE  Kin(o) \subseteq odd'
<1>1. \E q \in Kin(o) : On(q) # {}
  BY DEF On
<1>2. odd \cup Kin(o) \subseteq odd'
  BY <1>1 DEF Meet, MeetUnless
<1> QED
  BY <1>2

\* An order whose discounts a request ignores is odd from then on.
LEMMA IgnoredIsOdd ==
  ASSUME NEW o \in Sale, NEW kept \in BOOLEAN, MeetUnless(o, kept), o \notin odd'
  PROVE  kept
  BY DEF MeetUnless

LEMMA ApplyAsked ==
  ASSUME UsesInv, ShownInv, NEW s \in Cashier, ReadForApply(s)
  PROVE  ShownInv'
<1>1. PICK o \in Sale, p \in Promo :
        /\ ~Duplicate(p, o) /\ canStackWith(p, o) /\ evaluateEligibility(p, o)
        /\ Give(s, [TillIdle EXCEPT !.op = "apply", !.phase = "checked", !.sale = o,
                      !.promo = p, !.sub = sale[o].sub, !.limit = promo[p].limit,
                      !.amt = calculateDiscountAmount(promo[p].worth, sale[o].sub)])
        /\ Meet(o)
  BY DEF ReadForApply
<1>2. PICK r : r = [TillIdle EXCEPT !.op = "apply", !.phase = "checked", !.sale = o,
                      !.promo = p, !.sub = sale[o].sub, !.limit = promo[p].limit,
                      !.amt = calculateDiscountAmount(promo[p].worth, sale[o].sub)]
  OBVIOUS
<1>3. /\ r.op = "apply" /\ r.phase = "checked" /\ r.sale = o /\ r.promo = p
      /\ r.sub = sale[o].sub /\ till' = [till EXCEPT ![s] = r]
  BY <1>1, <1>2 DEF TillIdle, Give
<1>4. \A g \in Of(o) : g.promo # p /\ g.promo # NoPromo
  BY <1>1 DEF Duplicate, canStackWith
<1>a. ~Spent(p, o)
  BY <1>1, SpentIs DEF ShownInv, evaluateEligibility
<1>5. ReadHolds(r) /\ RowHolds(r) /\ r.op \in Working
  BY <1>3, <1>4, <1>a DEF ReadHolds, RowHolds, Working
<1>6. RowTypes' /\ odd \subseteq odd' /\ UNCHANGED <<promo, sale, slip, given, each>>
  BY AskStepTyped DEF ShownInv, Asks
<1> QED
  BY <1>1, <1>3, <1>5, <1>6, MeetAlone, AskedShown

LEMMA ManualAsked ==
  ASSUME UsesInv, ShownInv, NEW s \in Cashier, ReadForManual(s)
  PROVE  ShownInv'
<1>1. PICK o \in Sale, w \in Worths :
        /\ ByHand(o)
        /\ Give(s, [TillIdle EXCEPT !.op = "manual", !.phase = "checked", !.sale = o,
                      !.sub = sale[o].sub,
                      !.amt = calculateDiscountAmount(w, sale[o].sub)])
        /\ Meet(o)
  BY DEF ReadForManual
<1>2. PICK r : r = [TillIdle EXCEPT !.op = "manual", !.phase = "checked", !.sale = o,
                      !.sub = sale[o].sub,
                      !.amt = calculateDiscountAmount(w, sale[o].sub)]
  OBVIOUS
<1>3. /\ r.op = "manual" /\ r.phase = "checked" /\ r.sale = o
      /\ r.sub = sale[o].sub /\ till' = [till EXCEPT ![s] = r]
  BY <1>1, <1>2 DEF TillIdle, Give
<1>4. ReadHolds(r) /\ RowHolds(r) /\ r.op \in Working /\ r.op # "apply"
  BY <1>1, <1>3 DEF ReadHolds, RowHolds, Working, ByHand
<1>5. RowTypes' /\ odd \subseteq odd' /\ UNCHANGED <<promo, sale, slip, given, each>>
  BY AskStepTyped DEF ShownInv, Asks
<1> QED
  BY <1>1, <1>3, <1>4, <1>5, MeetAlone, AskedShown

LEMMA RemoveAsked ==
  ASSUME UsesInv, ShownInv, NEW s \in Cashier, ReadForRemove(s)
  PROVE  ShownInv'
<1>1. PICK g \in given :
        /\ Give(s, [TillIdle EXCEPT !.op = "remove", !.phase = "checked", !.sale = g.sale,
                      !.promo = g.promo, !.row = g.id, !.sub = sale[g.sale].sub])
        /\ Meet(g.sale)
  BY DEF ReadForRemove
<1>2. PICK r : r = [TillIdle EXCEPT !.op = "remove", !.phase = "checked", !.sale = g.sale,
                      !.promo = g.promo, !.row = g.id, !.sub = sale[g.sale].sub]
  OBVIOUS
<1>3. /\ r.op = "remove" /\ r.phase = "checked" /\ r.sale = g.sale /\ r.row = g.id
      /\ r.sub = sale[g.sale].sub /\ till' = [till EXCEPT ![s] = r]
  BY <1>1, <1>2 DEF TillIdle, Give
<1>4. \A h \in given : h.id = g.id => h.sale = g.sale
  BY DEF UsesInv, GivenInv
<1>5. ReadHolds(r) /\ RowHolds(r) /\ r.op \in Working /\ r.op # "apply"
  BY <1>3, <1>4 DEF ReadHolds, RowHolds, Working
<1>6. r.sale \in Sale
  BY <1>3 DEF ShownInv, RowTypes, DiscountTypeOK, GivenRow
<1>7. RowTypes' /\ odd \subseteq odd' /\ UNCHANGED <<promo, sale, slip, given, each>>
  BY AskStepTyped DEF ShownInv, Asks
<1> QED
  BY <1>1, <1>3, <1>5, <1>6, <1>7, MeetAlone, AskedShown

\* The requests that write an order or its bill read what they will write.
LEMMA WriterAsked ==
  ASSUME UsesInv, ShownInv, NEW s \in Cashier, Asks(s), NEW o \in Sale, NEW r,
         till' = [till EXCEPT ![s] = r], r.sale = o, r.op \in Working \ {"apply", "remove"},
         Meet(o) \/ \E kept \in BOOLEAN : MeetUnless(o, kept), o \in odd' \/ ReadHolds(r)
  PROVE  ShownInv'
<1>1. RowTypes' /\ odd \subseteq odd' /\ UNCHANGED <<promo, sale, slip, given, each>>
  BY AskStepTyped DEF ShownInv
<1>2. \A t \in Cashier \ {s} :
        till[t].op \in Working /\ till[t].sale \in Kin(r.sale) => Kin(r.sale) \subseteq odd'
  BY MeetAlone
<1>3. RowHolds(r)
  BY DEF RowHolds
<1>4. r.op \in Working /\ r.op # "apply"
  OBVIOUS
<1> QED
  BY <1>1, <1>2, <1>3, <1>4, AskedShown

LEMMA ReplaceAsked ==
  ASSUME UsesInv, ShownInv, NEW s \in Cashier, ReadForReplace(s)
  PROVE  ShownInv'
<1>1. PICK o \in Sale, sub \in Subs, w \in {Unset, 0} \cup Worths :
        /\ Give(s, [TillIdle EXCEPT !.op = "replace", !.phase = "checked", !.sale = o,
                      !.sub = sub, !.direct = w])
        /\ MeetUnless(o, w = Unset /\ Of(o) = {} /\ slip[o].status # "LIVE")
  BY DEF ReadForReplace
<1>2. PICK r : r = [TillIdle EXCEPT !.op = "replace", !.phase = "checked", !.sale = o,
                      !.sub = sub, !.direct = w]
  OBVIOUS
<1>3. /\ r.op = "replace" /\ r.phase = "checked" /\ r.sale = o /\ r.direct = w
      /\ till' = [till EXCEPT ![s] = r]
  BY <1>1, <1>2 DEF TillIdle, Give
<1>4. PICK kept \in BOOLEAN : /\ MeetUnless(o, kept)
                              /\ kept <=> w = Unset /\ Of(o) = {} /\ slip[o].status # "LIVE"
  BY <1>1
<1>5. o \in odd' \/ ReadHolds(r)
  BY <1>3, <1>4, IgnoredIsOdd DEF ReadHolds, Working
<1> QED
  BY <1>3, <1>4, <1>5, WriterAsked DEF Asks, Working

LEMMA MergeAsked ==
  ASSUME UsesInv, ShownInv, NEW s \in Cashier, ReadForMerge(s)
  PROVE  ShownInv'
<1>1. PICK o \in Sale, from \in Sale :
        /\ slip[o].status = "NONE"
        /\ Give(s, [TillIdle EXCEPT !.op = "merge", !.phase = "checked", !.sale = o,
                      !.from = from])
        /\ MeetUnless(o, Of(o) = {})
  BY DEF ReadForMerge
<1>2. PICK r : r = [TillIdle EXCEPT !.op = "merge", !.phase = "checked", !.sale = o,
                      !.from = from]
  OBVIOUS
<1>3. /\ r.op = "merge" /\ r.phase = "checked" /\ r.sale = o
      /\ till' = [till EXCEPT ![s] = r]
  BY <1>1, <1>2 DEF TillIdle, Give
<1>4. PICK kept \in BOOLEAN : MeetUnless(o, kept) /\ (kept <=> Of(o) = {})
  BY <1>1
<1>5. o \in odd' \/ ReadHolds(r)
  BY <1>1, <1>3, <1>4, IgnoredIsOdd DEF ReadHolds, Working
<1> QED
  BY <1>3, <1>4, <1>5, WriterAsked DEF Asks, Working

\* What a bill asks for is what the order comes to.
LEMMA PayableIs ==
  ASSUME NEW n \in Nat, NEW d \in Nat
  PROVE  Payable(n, Least(d, n), 0) = computeTotalAmount(n, d)
  BY DEF Payable, Least, computeTotalAmount

LEMMA BillAsked ==
  ASSUME UsesInv, ShownInv, NEW s \in Cashier, ReadForBill(s)
  PROVE  ShownInv'
<1>1. PICK o \in Sale, w \in {Unset, 0} \cup Worths, extra \in Extras :
        LET d == IF w = Unset THEN Inherited(o) ELSE Least(w, sale[o].sub) IN
          /\ Give(s, ToBill(o, d, extra, w # Unset \/ extra # 0))
          /\ Meet(o)
  BY DEF ReadForBill
<1>a. PICK own \in BOOLEAN : own = (w # Unset \/ extra # 0)
  OBVIOUS
<1>b. PICK d : d = IF w = Unset THEN Inherited(o) ELSE Least(w, sale[o].sub)
  OBVIOUS
<1>2. Give(s, ToBill(o, d, extra, own))
  BY <1>1, <1>a, <1>b
<1>3. PICK r : r = ToBill(o, d, extra, own)
  OBVIOUS
<1>4. /\ r.op = "bill" /\ r.phase = "checked" /\ r.sale = o /\ r.sub = sale[o].sub
      /\ r.sum = Payable(sale[o].sub, d, extra) /\ r.own = own
      /\ till' = [till EXCEPT ![s] = r]
  BY <1>2, <1>3 DEF ToBill, TillIdle, Give
<1>5. ASSUME o \notin odd', ~own PROVE r.sum = sale[o].total
  <2>1. Shown(o) /\ sale[o].sub \in Nat /\ sale[o].disc \in Nat
    <3>1. odd \subseteq odd' /\ sale[o] \in SaleRow
      BY AskStepTyped, RowsTyped DEF ShownInv, Asks
    <3> QED
      BY <1>5, <3>1, DiscountAssumption DEF ShownInv, SaleRow
  <2>2. extra = 0 /\ d = Least(sale[o].disc, sale[o].sub)
    BY <1>a, <1>b, <1>5, <2>1 DEF Inherited, Shown
  <2>3. Payable(sale[o].sub, d, extra) = computeTotalAmount(sale[o].sub, sale[o].disc)
    BY <2>1, <2>2, PayableIs
  <2> QED
    BY <1>4, <2>1, <2>3 DEF Shown
<1>6. o \in odd' \/ ReadHolds(r)
  BY <1>4, <1>5 DEF ReadHolds, Working
<1> QED
  BY <1>1, <1>4, <1>6, WriterAsked DEF Asks, Working

LEMMA CollectAsked ==
  ASSUME UsesInv, ShownInv, NEW s \in Cashier, ReadForCollect(s)
  PROVE  ShownInv'
<1>1. PICK o \in Sale, w \in {0} \cup Worths, extra \in Extras :
        \E direct \in {Unset, w} :
          LET d == Least(IF Of(o) # {} THEN sale[o].disc ELSE w, sale[o].sub) IN
            /\ Give(s, ToCollect(o, d, direct, extra))
            /\ MeetUnless(o, direct = Unset /\ d = sale[o].disc)
  BY DEF ReadForCollect
<1>a. PICK d : d = Least(IF Of(o) # {} THEN sale[o].disc ELSE w, sale[o].sub)
  OBVIOUS
<1>b. PICK direct : /\ Give(s, ToCollect(o, d, direct, extra))
                    /\ MeetUnless(o, direct = Unset /\ d = sale[o].disc)
  BY <1>1, <1>a
<1>c. PICK kept \in BOOLEAN : kept = (direct = Unset /\ d = sale[o].disc)
  OBVIOUS
<1>2. Give(s, ToCollect(o, d, direct, extra)) /\ MeetUnless(o, kept)
  BY <1>b, <1>c
<1>3. PICK r : r = ToCollect(o, d, direct, extra)
  OBVIOUS
<1>4. /\ r.op = "collect" /\ r.phase = "checked" /\ r.sale = o /\ r.sub = sale[o].sub
      /\ r.amt = d /\ r.direct = direct
      /\ r.sum = Payable(sale[o].sub, d, extra) /\ r.own = (extra # 0)
      /\ till' = [till EXCEPT ![s] = r]
  BY <1>2, <1>3 DEF ToCollect, TillIdle, Give
<1>5. ASSUME o \notin odd' PROVE ReadHolds(r)
  <2>1. Shown(o) /\ sale[o].sub \in Nat /\ sale[o].disc \in Nat
    <3>1. odd \subseteq odd' /\ sale[o] \in SaleRow
      BY AskStepTyped, RowsTyped DEF ShownInv, Asks
    <3> QED
      BY <1>5, <3>1, DiscountAssumption DEF ShownInv, SaleRow
  <2>2. direct = Unset /\ d = sale[o].disc
    BY <1>2, <1>c, <1>5, IgnoredIsOdd
  <2>3. d <= sale[o].sub
    <3>1. (IF Of(o) # {} THEN sale[o].disc ELSE w) \in Nat
      BY <2>1, DiscountAssumption
    <3> QED
      BY <1>a, <2>1, <3>1, LeastIs
  <2>4. extra = 0 => r.sum = sale[o].total
    BY <1>4, <2>1, <2>2, <2>3 DEF Payable, Shown, computeTotalAmount
  <2> QED
    BY <1>4, <2>2, <2>4 DEF ReadHolds, Working
<1> QED
  BY <1>2, <1>4, <1>5, WriterAsked DEF Asks, Working

\* The transaction reads the other discounts of the order.
LEMMA OpenShown ==
  ASSUME UsesInv, ShownInv, NEW s \in Cashier, Claim(s) \/ Delete(s), ~Return(s)
  PROVE  ShownInv'
<1>1. /\ RowTypes' /\ odd' = odd /\ UNCHANGED <<promo, sale, slip, given, each>>
      /\ till[s] \in TillRow /\ ReadHolds(till[s]) /\ RowHolds(till[s])
  BY AskStepTyped, RowsTyped DEF ShownInv, ReadInv, Claim, Delete
<1>2. till[s].op \in Working /\ till[s].sale \in Sale
  BY GiverIs DEF Claim, Delete, Working, ShownInv
<1>3. PICK r, x : /\ r = [till[s] EXCEPT !.phase = "open", !.sum = x]
                  /\ till' = [till EXCEPT ![s] = r]
                  /\ \/ till[s].op = "apply" /\ x = SumOf(Of(till[s].sale)) + till[s].amt
                     \/ till[s].op = "remove"
                          /\ x = SumOf({g \in Of(till[s].sale) : g.id # till[s].row})
  BY DEF Claim, Delete, Give
<1>4. /\ r.op = till[s].op /\ r.sale = till[s].sale /\ r.promo = till[s].promo
      /\ r.row = till[s].row /\ r.sub = till[s].sub /\ r.amt = till[s].amt
      /\ r.sum = x
  BY <1>1, <1>3 DEF TillRow
<1>5. ReadHolds(r)
  BY <1>1, <1>3, <1>4 DEF ReadHolds
<1>6. RowHolds(r) /\ (r.op = "apply" => r.promo \in Promo)
  BY <1>1, <1>4, GiverIs DEF RowHolds, ShownInv
<1>7. \A t \in Cashier \ {s} :
        till[t].op \in Working /\ till[t].sale \in Kin(r.sale) => Kin(r.sale) \subseteq odd'
  BY <1>1, <1>2, <1>4 DEF ShownInv, AloneInv
<1>8. /\ RowTypes' /\ odd \subseteq odd' /\ UNCHANGED <<promo, sale, slip, given, each>>
      /\ till' = [till EXCEPT ![s] = r] /\ r.op \in Working /\ r.sale \in Sale
  BY <1>1, <1>2, <1>3, <1>4
<1> QED
  BY <1>5, <1>6, <1>7, <1>8, AskedShown

-----------------------------------------------------------------------------
(* The commits *)

\* A discount is given: one row more, and nobody is taking one back meanwhile.
LEMMA Gives ==
  ASSUME UsesInv, RowTypes, NEW s \in Cashier, Apply(s) \/ applyManualDiscount(s)
  PROVE  \E n : /\ given' = given \cup {n} /\ n \notin given
                /\ n.sale = till[s].sale /\ n.amt = till[s].amt /\ n.amt \in Nat
                /\ till[s].op = "apply" => n.promo = till[s].promo
                /\ till[s].op = "manual" => n.promo = NoPromo
                /\ till[s].op \in {"apply", "manual"}
                /\ \A t \in Cashier \ {s} : till[t].op # "remove"
<1>1. \A g \in given : g.id # NewId
  BY NewIdIsNew DEF Apply, applyManualDiscount, HasRoom, UsesInv
<1>2. till[s].amt \in Nat
  BY RowsTyped DEF TillRow
<1>3. PICK n : /\ given' = given \cup {n}
               /\ \/ /\ till[s].op = "apply"
                     /\ n = [id |-> NewId, sale |-> till[s].sale, promo |-> till[s].promo,
                             amt |-> till[s].amt]
                  \/ /\ till[s].op = "manual"
                     /\ n = [id |-> NewId, sale |-> till[s].sale, promo |-> NoPromo,
                             amt |-> till[s].amt]
  BY DEF Apply, applyManualDiscount
<1>4. /\ n.id = NewId /\ n.sale = till[s].sale /\ n.amt = till[s].amt
      /\ till[s].op = "apply" => n.promo = till[s].promo
      /\ till[s].op = "manual" => n.promo = NoPromo
      /\ till[s].op \in {"apply", "manual"}
  BY <1>3
<1>5. n \notin given
  BY <1>1, <1>4
<1>6. \A t \in Cashier \ {s} : till[t].op # "remove"
  BY DEF Apply, applyManualDiscount, HasRoom
<1> QED
  BY <1>2, <1>3, <1>4, <1>5, <1>6

\* What the order and its bill show then.
LEMMA Shows ==
  ASSUME RowTypes, NEW s \in Cashier, Apply(s) \/ applyManualDiscount(s) \/ Remove(s)
  PROVE  LET r == till[s] IN
           /\ \A q \in Sale : /\ sale'[q].who = sale[q].who /\ sale'[q].sub = sale[q].sub
                              /\ sale'[q].direct = sale[q].direct
                              /\ q # r.sale => sale'[q] = sale[q] /\ slip'[q] = slip[q]
           /\ sale'[r.sale].disc = IF r.op = "manual" THEN r.amt ELSE r.sum
           /\ sale'[r.sale].total = computeTotalAmount(r.sub, sale'[r.sale].disc)
           /\ slip'[r.sale].status = "LIVE" => slip'[r.sale].grand = sale'[r.sale].total
<1>1. PICK o, n, d : /\ o = till[s].sale /\ n = till[s].sub
                     /\ d = IF till[s].op = "manual" THEN till[s].amt ELSE till[s].sum
  OBVIOUS
<1>2. Show(o, n, d)
  BY <1>1 DEF Apply, applyManualDiscount, Remove
<1>3. till[s] \in TillRow /\ Worded(till[s])
  BY RowsTyped
<1>4. o \in Sale /\ n \in Nat /\ d \in Nat
  BY <1>1, <1>3 DEF Apply, applyManualDiscount, Remove, TillRow, Worded, Working
<1>5. /\ \A q \in Sale : /\ sale'[q].who = sale[q].who /\ sale'[q].sub = sale[q].sub
                         /\ sale'[q].direct = sale[q].direct
                         /\ q # o => sale'[q] = sale[q] /\ slip'[q] = slip[q]
      /\ sale'[o].disc = d /\ sale'[o].total = computeTotalAmount(n, d)
      /\ slip'[o].status = "LIVE" => slip'[o].grand = sale'[o].total
  BY <1>2, <1>4, ShowIs
<1> QED
  BY <1>1, <1>5

\* The uses of a promotion by one customer, as discounts are taken and given.
LEMMA TakenStep ==
  ASSUME UsesInv, RowTypes, \A q \in Sale : sale'[q].who = sale[q].who, NEW p, NEW c
  PROVE  /\ given' \subseteq given =>
              Cardinality(Taken(p, c)') <= Cardinality(Taken(p, c))
         /\ \A n : given' = given \cup {n} /\ n.sale \in Sale =>
              /\ Cardinality(Taken(p, c)') <= Cardinality(Taken(p, c)) + 1
              /\ n.promo # p \/ sale[n.sale].who # c => Taken(p, c)' = Taken(p, c)
              /\ n.promo = p /\ sale[n.sale].who = c =>
                   Taken(p, c)' = Taken(p, c) \cup {n}
         /\ Cardinality(Taken(p, c)) \in Nat
<1>1. /\ Taken(p, c) = {g \in given : g.promo = p /\ sale[g.sale].who = c}
      /\ Taken(p, c)' = {g \in given' : g.promo = p /\ sale'[g.sale].who = c}
  BY DEF Taken, Uses
<1>2. \A g \in given : g.sale \in Sale
  BY DEF RowTypes, DiscountTypeOK, GivenRow
<1>3. IsFiniteSet(Taken(p, c)) /\ Cardinality(Taken(p, c)) \in Nat
  BY TakenIs
<1>4. ASSUME given' \subseteq given
      PROVE  Cardinality(Taken(p, c)') <= Cardinality(Taken(p, c))
  <2>1. Taken(p, c)' \subseteq Taken(p, c)
    BY <1>1, <1>2, <1>4
  <2> QED
    BY <1>3, <2>1, FS_Subset
<1>5. ASSUME NEW n, given' = given \cup {n}, n.sale \in Sale
      PROVE  /\ Cardinality(Taken(p, c)') <= Cardinality(Taken(p, c)) + 1
             /\ n.promo # p \/ sale[n.sale].who # c => Taken(p, c)' = Taken(p, c)
             /\ n.promo = p /\ sale[n.sale].who = c =>
                  Taken(p, c)' = Taken(p, c) \cup {n}
  <2>1. n.promo # p \/ sale[n.sale].who # c => Taken(p, c)' = Taken(p, c)
    BY <1>1, <1>2, <1>5
  <2>2. ~(n.promo # p \/ sale[n.sale].who # c) => Taken(p, c)' = Taken(p, c) \cup {n}
    BY <1>1, <1>2, <1>5
  <2>3. Cardinality(Taken(p, c) \cup {n}) <= Cardinality(Taken(p, c)) + 1
    BY <1>3, FS_AddElement
  <2>4. Cardinality(Taken(p, c)') <= Cardinality(Taken(p, c)) + 1
    <3>1. CASE n.promo # p \/ sale[n.sale].who # c
      BY <1>3, <2>1, <3>1
    <3>2. CASE ~(n.promo # p \/ sale[n.sale].who # c)
      BY <2>2, <2>3, <3>2
    <3> QED
      BY <3>1, <3>2
  <2> QED
    BY <2>1, <2>2, <2>4
<1> QED
  BY <1>3, <1>4, <1>5

\* A discount that is taken back is of the order it is taken from.
LEMMA Removes ==
  ASSUME ShownInv, NEW s \in Cashier, Remove(s)
  PROVE  /\ given' \subseteq given /\ till[s].op = "remove" /\ till[s].phase = "open"
         /\ \A g \in given : g.id = till[s].row => g.sale = till[s].sale
         /\ given' = {g \in given : g.id # till[s].row}
  BY DEF Remove, ShownInv, ReadInv, RowHolds

\* What a commit leaves of the orders it does not write.
LEMMA CommitOf ==
  ASSUME UsesInv, ShownInv, NEW s \in Cashier,
         Apply(s) \/ applyManualDiscount(s) \/ Remove(s)
  PROVE  /\ \A z \in Sale : Kin(z)' = Kin(z)
         /\ \A z : z # till[s].sale => Of(z)' = Of(z)
<1>1. \A z \in Sale : Kin(z)' = Kin(z)
  BY Shows DEF ShownInv, Kin
<1>2. ASSUME NEW z, z # till[s].sale PROVE Of(z)' = Of(z)
  <2>1. CASE Apply(s) \/ applyManualDiscount(s)
    BY <1>2, <2>1, Gives DEF ShownInv, Of
  <2>2. CASE Remove(s)
    BY <1>2, <2>2, Removes DEF Of
  <2> QED
    BY <2>1, <2>2
<1> QED
  BY <1>1, <1>2

\* The requests that are still at work.
LEMMA CommitOthers ==
  ASSUME UsesInv, ShownInv, NEW s \in Cashier,
         Apply(s) \/ applyManualDiscount(s) \/ Remove(s),
         NEW t \in Cashier \ {s}
  PROVE  (ReadHolds(till[t]) /\ RowHolds(till[t]))'
<1> USE DEF ShownInv
<1>1. PICK o, q : o = till[s].sale /\ q = till[t]
  OBVIOUS
<1>2. /\ till[s].op \in Working /\ o \in Sale /\ odd' = odd /\ till'[t] = q
      /\ each' = each
  BY <1>1, CommitTyped, ReturnTyped
<1>3. /\ \A z \in Sale : sale'[z].who = sale[z].who /\ sale'[z].sub = sale[z].sub
      /\ \A z \in Sale : Kin(z)' = Kin(z)
      /\ \A z : z # o => Of(z)' = Of(z)
  BY <1>1, Shows, CommitOf
<1>4. /\ ReadHolds(q) /\ RowHolds(q)
      /\ q.op \in Working => q.sale \in Sale
      /\ q.op = "apply" => q.promo \in Promo
  BY <1>1, GiverIs DEF ReadInv
<1>5. q.op \in Working /\ ~(Kin(q.sale) \subseteq odd) => o \notin Kin(q.sale)
  BY <1>1, <1>2 DEF AloneInv
<1>6. ReadHolds(q)'
  <2>1. SUFFICES ASSUME q.op \in Working, q.sale \notin odd PROVE ReadHolds(q)'
    BY <1>2 DEF ReadHolds
  <2>2. q.sale \in Kin(q.sale) /\ q.sale # o
    BY <1>4, <1>5, <2>1, KinIs
  <2>3. PICK z : z = q.sale
    OBVIOUS
  <2>4. Of(z)' = Of(z) /\ sale'[z] = sale[z] /\ slip'[z] = slip[z]
    BY <1>1, <1>3, <1>4, <2>1, <2>2, <2>3, Shows
  <2>5. {g \in Of(z) : g.id # q.row}' = {g \in Of(z) : g.id # q.row}
    BY <2>4
  <2> QED
    BY <1>4, <2>1, <2>3, <2>4, <2>5 DEF ReadHolds
<1>7. RowHolds(q)'
  <2>1. ASSUME q.op = "remove", NEW g \in given', g.id = q.row PROVE g.sale = q.sale
    <3>1. CASE Apply(s) \/ applyManualDiscount(s)
      BY <1>1, <2>1, <3>1, Gives
    <3>2. CASE Remove(s)
      BY <1>4, <2>1, <3>2, Removes DEF RowHolds
    <3> QED
      BY <3>1, <3>2
  <2>2. ASSUME q.op = "apply", ~(Kin(q.sale) \subseteq odd)
        PROVE  ~Spent(q.promo, q.sale)'
    <3>1. PICK z \in Sale, p \in Promo : z = q.sale /\ p = q.promo
      BY <1>4, <2>2 DEF Working
    <3>2. PICK c : c = sale[z].who /\ sale'[z].who = c
      BY <1>3
    <3>3. o # z /\ (sale[o].who # c \/ c = WalkIn)
      BY <1>2, <1>5, <2>2, <3>1, <3>2, KinIs DEF Working, Kin
    <3>4. ~Spent(p, z)
      BY <1>4, <2>2, <3>1 DEF RowHolds
    <3>5. c # WalkIn => /\ Cardinality(Taken(p, c)') <= Cardinality(Taken(p, c))
                        /\ Cardinality(Taken(p, c)) \in Nat
                        /\ Cardinality(Taken(p, c)') \in Nat
      <4>1. CASE Apply(s) \/ applyManualDiscount(s)
        <5>1. PICK n : given' = given \cup {n} /\ n.sale = o
          BY <1>1, <4>1, Gives
        <5>2. /\ Cardinality(Taken(p, c)) \in Nat
              /\ sale[n.sale].who # c => Taken(p, c)' = Taken(p, c)
          BY <1>2, <1>3, <5>1, TakenStep
        <5> QED
          BY <3>3, <5>1, <5>2
      <4>2. CASE Remove(s)
        <5>1. given' \subseteq given
          BY <4>2, Removes
        <5>2. /\ Cardinality(Taken(p, c)') <= Cardinality(Taken(p, c))
              /\ Cardinality(Taken(p, c)) \in Nat
          BY <1>3, <5>1, TakenStep
        <5>3. Taken(p, c)' \subseteq Taken(p, c)
          BY <1>3, <5>1 DEF Taken, Uses, RowTypes, DiscountTypeOK, GivenRow
        <5>4. IsFiniteSet(Taken(p, c))
          BY TakenIs
        <5>5. IsFiniteSet(Taken(p, c)')
          BY <5>3, <5>4, FS_Subset
        <5>6. Cardinality(Taken(p, c)') \in Nat
          BY <5>5, FS_CardinalityType
        <5> QED
          BY <5>2, <5>6
      <4> QED
        BY <4>1, <4>2
    <3>6. each'[p] = each[p] /\ each[p] \in Nat
      BY <1>2, DiscountAssumption DEF RowTypes, DiscountTypeOK
    <3>7. ~Spent(p, z)'
      <4>1. Spent(p, z) <=> /\ each[p] > 0 /\ c # WalkIn
                            /\ Cardinality(Taken(p, c)) >= each[p]
        BY <3>2 DEF Spent
      <4>2. Spent(p, z)' <=> /\ each'[p] > 0 /\ c # WalkIn
                             /\ Cardinality(Taken(p, c)') >= each'[p]
        BY <3>2 DEF Spent, Taken
      <4> QED
        BY <3>4, <3>5, <3>6, <4>1, <4>2
    <3> QED
      BY <3>1, <3>7
  <2>3. Kin(q.sale)' = Kin(q.sale) \/ q.op # "apply"
    BY <1>3, <1>4 DEF Working
  <2> QED
    BY <1>2, <2>1, <2>2, <2>3 DEF RowHolds
<1> QED
  BY <1>2, <1>6, <1>7 DEF ReadHolds, RowHolds, Of, Spent, Taken, Kin, Uses

\* No customer gets a promotion more often than allowed.
LEMMA CommitWithin ==
  ASSUME UsesInv, ShownInv, NEW s \in Cashier,
         Apply(s) \/ applyManualDiscount(s) \/ Remove(s),
         NEW z \in Sale \ odd
  PROVE  Within(z)'
<1> USE DEF ShownInv
<1>1. PICK o, k, c : o = till[s].sale /\ k = till[s].promo /\ c = sale[z].who
  OBVIOUS
<1>2. /\ o \in Sale
      /\ till[s].op = "apply" => k \in Promo
      /\ each' = each /\ \A p \in Promo : each[p] \in Nat
      /\ \A q \in Sale : sale'[q].who = sale[q].who
  <2>1. \A p \in Promo : each[p] \in Nat
    BY DiscountAssumption DEF RowTypes, DiscountTypeOK
  <2> QED
    BY <1>1, <2>1, CommitTyped, GiverIs, Shows
<1>3. ASSUME NEW p \in Promo, each[p] > 0, c # WalkIn
      PROVE  Cardinality(Taken(p, c)') <= each[p]
  <2>1. /\ Cardinality(Taken(p, c)) <= each[p]
        /\ Cardinality(Taken(p, c)) \in Nat
    <3>1. Cardinality(Taken(p, c)) <= each[p]
      BY <1>1, <1>3 DEF Within, Taken
    <3> QED
      BY <3>1, TakenIs
  <2>2. CASE Remove(s)
    <3>1. given' \subseteq given
      BY <2>2, Removes
    <3>2. Cardinality(Taken(p, c)') <= Cardinality(Taken(p, c))
      BY <1>2, <3>1, TakenStep
    <3>3. Taken(p, c)' \subseteq Taken(p, c)
      BY <1>2, <3>1 DEF Taken, Uses, RowTypes, DiscountTypeOK, GivenRow
    <3>4. IsFiniteSet(Taken(p, c))
      BY TakenIs
    <3>5. Cardinality(Taken(p, c)') \in Nat
      BY <3>3, <3>4, FS_Subset, FS_CardinalityType
    <3> QED
      BY <1>2, <2>1, <3>2, <3>5
  <2>3. CASE Apply(s) \/ applyManualDiscount(s)
    <3>1. PICK n : /\ given' = given \cup {n} /\ n.sale = o
                   /\ till[s].op = "apply" => n.promo = k
                   /\ till[s].op = "manual" => n.promo = NoPromo
                   /\ till[s].op \in {"apply", "manual"}
      BY <1>1, <2>3, Gives
    <3>2. n.promo # p \/ sale[n.sale].who # c => Taken(p, c)' = Taken(p, c)
      BY <1>2, <3>1, TakenStep
    <3>3. CASE n.promo = p /\ sale[n.sale].who = c
      <4>1. till[s].op = "apply" /\ p = k
        BY <3>1, <3>3, DiscountAssumption
      <4>2. z \in Kin(o)
        BY <1>1, <1>3, <3>1, <3>3 DEF Kin
      <4>3. ~Spent(p, o)
        BY <1>1, <4>1, <4>2 DEF ReadInv, RowHolds
      <4>4. ~(Cardinality(Taken(p, c)) >= each[p])
        BY <1>3, <3>1, <3>3, <4>3 DEF Spent
      <4>5. Taken(p, c)' = Taken(p, c) \cup {n}
        BY <1>2, <3>1, <3>3, TakenStep
      <4>6. PICK G : G = Taken(p, c) /\ IsFiniteSet(G) /\ Cardinality(G) \in Nat
        BY TakenIs
      <4>7. /\ Cardinality(G \cup {n}) <= Cardinality(G) + 1
            /\ Cardinality(G \cup {n}) \in Nat
        <5>1. IsFiniteSet(G \cup {n})
          BY <4>6, FS_AddElement
        <5>2. Cardinality(G \cup {n}) = IF n \in G THEN Cardinality(G) ELSE Cardinality(G) + 1
          BY <4>6, FS_AddElement
        <5> QED
          BY <4>6, <5>2
      <4> QED
        BY <1>2, <2>1, <4>4, <4>5, <4>6, <4>7
    <3> QED
      BY <2>1, <3>2, <3>3
  <2> QED
    BY <2>2, <2>3
<1>4. \A p : {g \in Uses(p) : sale[g.sale].who = c}' = Taken(p, c)'
  BY DEF Taken
<1> QED
  BY <1>1, <1>2, <1>3, <1>4 DEF Within

\* The order that a request was alone on shows what it gave or took.
LEMMA CommitShows ==
  ASSUME UsesInv, ShownInv, NEW s \in Cashier,
         Apply(s) \/ applyManualDiscount(s) \/ Remove(s),
         NEW o, o = till[s].sale, o \notin odd
  PROVE  Shown(o)'
<1> USE DEF ShownInv
<1>1. PICK r : r = till[s]
  OBVIOUS
<1>2. /\ o \in Sale /\ r.op \in Working /\ ReadHolds(r) /\ RowHolds(r) /\ Shown(o)
      /\ r.op = "apply" => r.promo \in Promo
  BY <1>1, CommitTyped, GiverIs DEF ReadInv
<1>3. /\ sale'[o].direct = Unset /\ sale'[o].sub = r.sub
      /\ sale'[o].disc = IF r.op = "manual" THEN r.amt ELSE r.sum
      /\ sale'[o].total = computeTotalAmount(sale'[o].sub, sale'[o].disc)
      /\ slip'[o].status = "LIVE" => slip'[o].grand = sale'[o].total
  <2>1. r.op \in {"apply", "manual", "remove"}
    BY <1>1 DEF Apply, applyManualDiscount, Remove
  <2>2. r.sub = sale[o].sub /\ sale[o].direct = Unset
    BY <1>1, <1>2, <2>1 DEF Shown, ReadHolds
  <2> QED
    BY <1>1, <1>2, <2>2, Shows
<1>4. /\ IsFiniteSet(Of(o)) /\ \A g \in Of(o) : g.amt \in Nat
      /\ \A g, h \in Of(o) : g # h => NoPromo # g.promo /\ g.promo # h.promo
  BY <1>2, OfIs DEF Shown
<1>5. /\ sale'[o].disc = SumOf(Of(o)')
      /\ \A g, h \in Of(o)' : g # h => NoPromo # g.promo /\ g.promo # h.promo
  <2>1. CASE Remove(s)
    <3>1. r.op = "remove" /\ r.phase = "open"
      BY <1>1, <2>1, Removes
    <3>2. Of(o)' = {g \in Of(o) : g.id # r.row}
      BY <1>1, <2>1, Removes DEF Of
    <3>3. r.sum = SumOf({g \in Of(o) : g.id # r.row})
      BY <1>1, <1>2, <3>1 DEF ReadHolds
    <3> QED
      BY <1>3, <1>4, <3>1, <3>2, <3>3
  <2>2. CASE Apply(s) \/ applyManualDiscount(s)
    <3>1. PICK n : /\ given' = given \cup {n} /\ n \notin given
                   /\ n.sale = o /\ n.amt = r.amt /\ n.amt \in Nat
                   /\ r.op = "apply" => n.promo = r.promo
                   /\ r.op \in {"apply", "manual"}
      BY <1>1, <2>2, Gives
    <3>2. Of(o)' = Of(o) \cup {n} /\ n \notin Of(o)
      BY <3>1 DEF Of
    <3>3. SumOf(Of(o) \cup {n}) = SumOf(Of(o)) + r.amt /\ SumOf({}) = 0
      <4>1. SumOf(Of(o) \cup {n}) = SumOf(Of(o)) + n.amt
        BY <1>4, <3>1, <3>2, SumAdds
      <4> QED
        BY <1>4, <3>1, <4>1, SumAdds
    <3>4. CASE r.op = "manual"
      <4>1. Of(o) = {}
        BY <1>1, <1>2, <3>4 DEF ReadHolds
      <4>2. SumOf(Of(o) \cup {n}) = r.amt
        BY <3>1, <3>3, <4>1
      <4> QED
        BY <1>3, <3>2, <3>4, <4>1, <4>2
    <3>5. CASE r.op = "apply"
      <4>1. r.phase = "open"
        BY <1>1, <2>2, <3>5 DEF Apply, applyManualDiscount
      <4>2. /\ \A g \in Of(o) : g.promo # r.promo /\ g.promo # NoPromo
            /\ r.sum = SumOf(Of(o)) + r.amt
        BY <1>1, <1>2, <3>5, <4>1 DEF ReadHolds
      <4>3. n.promo = r.promo /\ r.promo # NoPromo
        BY <1>2, <3>1, <3>5, DiscountAssumption
      <4>4. \A g, h \in Of(o)' : g # h => NoPromo # g.promo /\ g.promo # h.promo
        BY <1>4, <3>2, <4>2, <4>3
      <4> QED
        BY <1>3, <3>2, <3>3, <3>5, <4>2, <4>4
    <3> QED
      BY <3>1, <3>4, <3>5
  <2> QED
    BY <2>1, <2>2
<1>6. SumOf(Of(o))' = SumOf(Of(o)')
  BY DEF SumOf, MapThenSumSet, MapThenFoldSet
<1> QED
  BY <1>3, <1>5, <1>6 DEF Shown

\* What a request gives or takes is shown when it commits.
LEMMA CommitShown ==
  ASSUME UsesInv, ShownInv, NEW s \in Cashier,
         Apply(s) \/ applyManualDiscount(s) \/ Remove(s)
  PROVE  ShownInv'
<1>1. /\ RowTypes' /\ odd' = odd /\ till[s].op \in Working /\ till[s].sale \in Sale
      /\ till'[s] = TillIdle /\ \A t \in Cashier \ {s} : till'[t] = till[t]
  BY CommitTyped, ReturnTyped DEF ShownInv
<1>2. TillIdle.op \notin Working \cup {"direct"} /\ TillIdle.op # "remove"
  BY DEF TillIdle, Working
<1>3. AloneInv'
  <2>1. \A t \in Cashier : till'[t].op = "direct" => till'[t].sale \in odd'
    BY <1>1, <1>2 DEF ShownInv, AloneInv
  <2>2. ASSUME NEW t \in Cashier, NEW u \in Cashier, t # u,
               till'[t].op \in Working, till'[u].op \in Working,
               (till[u].sale \in Kin(till[t].sale))'
        PROVE  (Kin(till[t].sale) \subseteq odd)'
    <3>1. till'[t] = till[t] /\ till'[u] = till[u]
      BY <1>1, <1>2, <2>2
    <3>2. PICK o \in Sale : o = till[t].sale /\ o = till'[t].sale
      BY <2>2, <3>1, GiverIs DEF ShownInv
    <3>3. Kin(till[t].sale)' = Kin(o)
      <4>1. Kin(o)' = Kin(o)
        BY CommitOf
      <4> QED
        BY <3>2, <4>1 DEF Kin
    <3> QED
      BY <1>1, <2>2, <3>1, <3>2, <3>3 DEF ShownInv, AloneInv
  <2> QED
    BY <2>1, <2>2 DEF AloneInv
<1>4. ReadInv'
  <2>1. ReadHolds(till[s])' /\ RowHolds(till[s])'
    BY <1>1, <1>2 DEF ReadHolds, RowHolds, Working
  <2> QED
    BY <2>1, CommitOthers DEF ReadInv
<1>5. \A o \in Sale \ odd' : Within(o)'
  BY <1>1, CommitWithin
<1>6. ASSUME NEW o \in Sale \ odd' PROVE Shown(o)'
  <2>1. CASE o = till[s].sale
    BY <1>1, <2>1, CommitShows
  <2>2. CASE o # till[s].sale
    <3>1. Of(o)' = Of(o) /\ sale'[o] = sale[o] /\ slip'[o] = slip[o] /\ Shown(o)
      BY <1>1, <2>2, CommitOf, Shows DEF ShownInv
    <3> QED
      BY <3>1 DEF Shown
  <2> QED
    BY <2>1, <2>2
<1> QED
  BY <1>1, <1>3, <1>4, <1>5, <1>6 DEF ShownInv

-----------------------------------------------------------------------------
(* The other requests that write an order or its bill *)

\* The order that one of them was alone on.
LEMMA WriteShows ==
  ASSUME UsesInv, ShownInv, NEW s \in Cashier, Writes(s), NEW o, o = till[s].sale, o \notin odd
  PROVE  Shown(o)'
<1> USE DEF ShownInv
<1>1. PICK r \in TillRow : r = till[s] /\ Worded(r) /\ ReadHolds(r)
  BY RowsTyped DEF ReadInv
<1>2. /\ o \in Sale /\ Shown(o) /\ Of(o)' = Of(o)
      /\ sale[o] \in SaleRow /\ slip[o] \in SlipRow /\ DOMAIN sale = Sale /\ DOMAIN slip = Sale
  BY WriteTyped, RowsTyped DEF RowTypes, Of
<1>a. o = r.sale
  BY <1>1
<1>3. \A n \in Nat : n - 0 = n /\ computeTotalAmount(n, 0) = n
  BY DEF computeTotalAmount
<1>4. Of(o) = {} => SumOf(Of(o)) = 0
  BY FS_EmptySet, SumAdds
<1>5. \A n : Off(Unset, n) = 0
  BY DEF Off, Unset
<1>6. CASE updateOrder(s)
  <2>1. r.op = "replace" /\ slip' = slip
    BY <1>1, <1>6 DEF updateOrder
  <2>2. Of(o) = {} /\ r.direct = Unset /\ slip[o].status # "LIVE"
    BY <1>a, <1>1, <2>1 DEF ReadHolds, Working
  <2>3. PICK n \in Nat : n = r.sub
    BY <1>1 DEF TillRow
  <2>4. sale' = [sale EXCEPT ![o].sub = n, ![o].direct = Unset, ![o].disc = 0, ![o].total = n]
    <3>1. sale' = [sale EXCEPT ![o].sub = n, ![o].direct = Unset, ![o].disc = Off(Unset, n),
                               ![o].total = n - Off(Unset, n)]
      BY <1>1, <1>6, <2>2, <2>3 DEF updateOrder
    <3> QED
      BY <1>3, <1>5, <3>1
  <2>5. /\ sale'[o].sub = n /\ sale'[o].direct = Unset /\ sale'[o].disc = 0
        /\ sale'[o].total = n
    BY <1>2, <2>4 DEF SaleRow
  <2> QED
    BY <1>2, <1>3, <1>4, <2>1, <2>2, <2>5 DEF Shown
<1>7. CASE mergeOrders(s)
  <2>1. r.op = "merge" /\ slip' = slip
    BY <1>1, <1>7 DEF mergeOrders
  <2>2. Of(o) = {} /\ slip[o].status # "LIVE" /\ sale[o].direct = Unset
    BY <1>a, <1>1, <1>2, <2>1 DEF ReadHolds, Working, Shown
  <2>3. PICK n \in Subs :
          LET d == Off(sale[o].direct, n) IN
            sale' = [sale EXCEPT ![r.from].status = "CANCELLED", ![o].sub = n,
                                 ![o].disc = d, ![o].total = n - d]
    BY <1>1, <1>7 DEF mergeOrders
  <2>4. sale' = [sale EXCEPT ![r.from].status = "CANCELLED", ![o].sub = n,
                             ![o].disc = 0, ![o].total = n]
    <3>1. n \in Nat /\ Off(sale[o].direct, n) = 0
      BY <1>5, <2>2, DiscountAssumption
    <3> QED
      BY <1>3, <2>3, <3>1
  <2>5. PICK m : m = [sale EXCEPT ![r.from].status = "CANCELLED"]
    OBVIOUS
  <2>6. /\ DOMAIN m = Sale /\ DOMAIN m[o] = DOMAIN sale[o]
        /\ m[o].direct = Unset
    BY <1>2, <2>2, <2>5 DEF SaleRow
  <2>7. sale' = [m EXCEPT ![o].sub = n, ![o].disc = 0, ![o].total = n]
    BY <2>4, <2>5
  <2>8. DOMAIN m[o] = {"status", "deleted", "who", "sub", "direct", "disc", "total"}
    BY <1>2, <2>6 DEF SaleRow
  <2>9. /\ sale'[o].sub = n /\ sale'[o].direct = Unset /\ sale'[o].disc = 0
        /\ sale'[o].total = n
    BY <1>2, <2>6, <2>7, <2>8
  <2> QED
    BY <1>2, <1>3, <1>4, <2>1, <2>2, <2>9, DiscountAssumption DEF Shown
<1>8. ASSUME slip' = slip \/ (Billed(o, r) /\ r.op \in {"bill", "collect"})
      PROVE  slip'[o].status = "LIVE" /\ ~slip'[o].own => slip'[o].grand = sale[o].total
  <2>1. CASE slip' = slip
    BY <1>2, <2>1 DEF Shown
  <2>2. CASE Billed(o, r) /\ r.op \in {"bill", "collect"}
    <3>1. r.own \/ r.sum = sale[o].total
      BY <1>a, <1>1, <2>2 DEF ReadHolds, Working
    <3> QED
      BY <1>2, <2>2, <3>1, BilledIs
  <2> QED
    BY <1>8, <2>1, <2>2
<1>9. CASE createBill(s)
  <2>1. /\ sale' = sale
        /\ slip' = slip \/ (Billed(o, r) /\ r.op \in {"bill", "collect"})
    BY <1>1, <1>9 DEF createBill
  <2> QED
    BY <1>2, <1>8, <2>1 DEF Shown
<1>10. CASE updateBillDiscount(s)
  <2>1. slip' = [slip EXCEPT ![o].grand = r.sum, ![o].own = TRUE] /\ sale' = sale
    BY <1>1, <1>10 DEF updateBillDiscount
  <2>2. slip'[o].own = TRUE
    BY <1>2, <2>1 DEF SlipRow
  <2> QED
    BY <1>2, <2>1, <2>2 DEF Shown
<1>11. CASE collectPayment(s)
  <2>1. /\ slip' = slip \/ (Billed(o, r) /\ r.op \in {"bill", "collect"})
        /\ \/ sale' = [sale EXCEPT ![o].status = "OPEN", ![o].disc = r.amt,
                                   ![o].direct = r.direct]
           \/ sale' = sale
        /\ r.op = "collect"
    BY <1>1, <1>11 DEF collectPayment
  <2>2. r.direct = Unset /\ r.amt = sale[o].disc
    BY <1>a, <1>1, <2>1 DEF ReadHolds, Working
  <2>3. /\ sale'[o].sub = sale[o].sub /\ sale'[o].direct = Unset
        /\ sale'[o].disc = sale[o].disc /\ sale'[o].total = sale[o].total
    <3>1. CASE sale' = sale
      BY <1>2, <3>1 DEF Shown
    <3>2. CASE sale' = [sale EXCEPT ![o].status = "OPEN", ![o].disc = r.amt,
                                    ![o].direct = r.direct]
      BY <1>2, <2>2, <3>2 DEF SaleRow
    <3> QED
      BY <2>1, <3>1, <3>2
  <2> QED
    BY <1>2, <1>8, <2>1, <2>3 DEF Shown
<1> QED
  BY <1>6, <1>7, <1>9, <1>10, <1>11 DEF Writes

LEMMA WriteShown ==
  ASSUME UsesInv, ShownInv, NEW s \in Cashier, Writes(s)
  PROVE  ShownInv'
<1>1. PICK o : o = till[s].sale
  OBVIOUS
<1>2. /\ RowTypes' /\ odd' = odd /\ given' = given /\ each' = each /\ o \in Sale
      /\ till[s].op \in {"replace", "merge", "bill", "billDiscount", "collect"}
      /\ \A q \in Sale : sale'[q].who = sale[q].who
      /\ \A q \in Sale \ {o} : Same(q) /\ slip'[q] = slip[q]
      /\ till'[s] = TillIdle /\ \A t \in Cashier \ {s} : till'[t] = till[t]
  BY <1>1, WriteTyped, ReturnTyped DEF ShownInv
<1>3. \A q \in Sale \ odd' : Shown(q)'
  BY <1>1, <1>2, WriteShows, ShownSame DEF ShownInv
<1>4. TillIdle.op \notin Working \cup {"direct"}
  BY DEF TillIdle, Working
<1>5. ASSUME NEW t \in Cashier \ {s}, till[t].op \in Working, till[t].sale \notin odd'
      PROVE  Kept(till[t].sale)
  <2>1. till[t].sale \in Sale
    BY <1>5, GiverIs DEF ShownInv
  <2>2. CASE till[t].sale # o
    BY <1>2, <2>1, <2>2, KeptSame
  <2>3. CASE till[t].sale = o
    <3>1. till[s].op \notin Working
      BY <1>1, <1>2, <1>5, <2>3, KinIs DEF ShownInv, AloneInv
    <3>2. updateBillDiscount(s)
      BY <3>1 DEF Writes, updateOrder, mergeOrders, createBill, collectPayment, Working
    <3>3. PICK x : slip' = [slip EXCEPT ![o].grand = x, ![o].own = TRUE] /\ sale' = sale
      BY <1>1, <3>2 DEF updateBillDiscount
    <3>4. slip[o] \in SlipRow /\ DOMAIN slip = Sale
      BY <1>2, RowsTyped DEF ShownInv, RowTypes
    <3>5. slip'[o].status = slip[o].status
      BY <1>2, <3>3, <3>4 DEF SlipRow
    <3> QED
      BY <2>3, <3>3, <3>5 DEF Kept
  <2> QED
    BY <2>2, <2>3
<1>6. Grown
  BY <1>2, GrownSame DEF ShownInv
<1> QED
  BY <1>2, <1>3, <1>4, <1>5, <1>6, StaysShown

-----------------------------------------------------------------------------
(* The theorems *)

LEMMA ShownStart == ASSUME DiscountInit PROVE ShownInv
<1>1. RowTypes
  BY TypesStart
<1>2. /\ \A s \in Cashier : till[s] = TillIdle
      /\ given = {} /\ \A o \in Sale \ odd : sale[o].direct = Unset
  BY DEF DiscountInit
<1>3. TillIdle.op \notin Working \cup {"direct"}
  BY DEF TillIdle, Working
<1>4. AloneInv
  BY <1>2, <1>3 DEF AloneInv
<1>5. ReadInv
  BY <1>2, <1>3 DEF ReadInv, ReadHolds, RowHolds, Working
<1>6. ASSUME NEW o \in Sale \ odd PROVE Shown(o) /\ Within(o)
  <2>1. Of(o) = {} /\ \A p : Uses(p) = {}
    BY <1>2 DEF Of, Uses
  <2>2. SumOf(Of(o)) = 0
    BY <2>1, FS_EmptySet, SumAdds
  <2>3. PICK n \in Subs, d \in {Unset, 0} \cup Worths :
          /\ sale[o].sub = n /\ sale[o].direct = d
          /\ sale[o].disc = Off(d, n) /\ sale[o].total = n - Off(d, n)
    <3>1. sale[o] \in NewSale
      BY DEF DiscountInit
    <3> QED
      BY <3>1 DEF NewSale
  <2>4. /\ d = Unset /\ Off(d, n) = 0 /\ n - 0 = n /\ computeTotalAmount(n, 0) = n
        /\ slip[o].status = "NONE"
    BY <1>2, <2>3, DiscountAssumption DEF computeTotalAmount, Off, Unset, DiscountInit, NoSlip
  <2>5. Shown(o)
    BY <2>1, <2>2, <2>3, <2>4 DEF Shown
  <2>6. Within(o)
    <3>1. Cardinality({}) = 0
      BY FS_EmptySet
    <3>2. \A p : {g \in Uses(p) : sale[g.sale].who = sale[o].who} = {}
      BY <2>1
    <3>3. ASSUME NEW p \in Promo, each[p] > 0
          PROVE  Cardinality({g \in Uses(p) : sale[g.sale].who = sale[o].who}) <= each[p]
      <4>1. PICK G : G = {g \in Uses(p) : sale[g.sale].who = sale[o].who} /\ G = {}
        BY <3>2
      <4>2. each[p] \in Nat
        BY <1>1, DiscountAssumption DEF RowTypes, DiscountTypeOK
      <4>3. PICK k : k = Cardinality(G) /\ k = 0
        BY <3>1, <4>1
      <4>4. k <= each[p]
        BY <4>2, <4>3
      <4> QED
        BY <4>1, <4>3, <4>4
    <3> QED
      BY <3>3 DEF Within
  <2> QED
    BY <2>5, <2>6
<1> QED
  BY <1>1, <1>4, <1>5, <1>6 DEF ShownInv

LEMMA ShownStep ==
  ASSUME UsesInv, ShownInv, [DiscountNext]_discountVars
  PROVE  ShownInv'
<1>1. CASE UNCHANGED discountVars
  <2>1. RowTypes' /\ given' = given /\ sale' = sale /\ slip' = slip
        /\ odd' = odd /\ till' = till /\ each' = each
    BY <1>1, TypesStep DEF discountVars, ShownInv
  <2>2. \A q \in Sale \ odd' : Shown(q)'
    BY <2>1, ShownSame, RowSame DEF ShownInv
  <2>3. (\A q : Kept(q)) /\ Grown
    BY <2>1, GrownSame DEF Kept, ShownInv
  <2> QED
    BY <2>1, <2>2, <2>3, StaysShown
<1>2. ASSUME NEW s \in Cashier,
             \/ Asks(s) \/ Claim(s) \/ Apply(s) \/ applyManualDiscount(s)
             \/ Delete(s) \/ Remove(s) \/ WriteDirect(s) \/ SyncDirect(s) \/ Writes(s)
             \/ updateDiscount(s) \/ setDiscountStatus(s) \/ DropRequest(s)
      PROVE  ShownInv'
  <2>1. CASE Asks(s)
    <3>1. CASE ReadForApply(s) \/ ReadForManual(s) \/ ReadForRemove(s)
      BY <3>1, ApplyAsked, ManualAsked, RemoveAsked
    <3>2. CASE ReadForReplace(s) \/ ReadForMerge(s) \/ ReadForBill(s) \/ ReadForCollect(s)
      BY <3>2, ReplaceAsked, MergeAsked, BillAsked, CollectAsked
    <3>3. CASE ReadForDirect(s) \/ ReadForEdit(s) \/ ReadForSwitch(s) \/ ReadForBillDiscount(s)
      BY <3>3, QuietShown
    <3> QED
      BY <2>1, <3>1, <3>2, <3>3 DEF Asks
  <2>2. CASE Claim(s) \/ Delete(s)
    BY <2>2, OpenShown, QuietShown
  <2>3. CASE Apply(s) \/ applyManualDiscount(s) \/ Remove(s)
    BY <2>3, CommitShown
  <2>4. CASE WriteDirect(s) \/ SyncDirect(s)
    BY <2>4, DirectShown
  <2>5. CASE updateDiscount(s) \/ setDiscountStatus(s)
    BY <2>5, OwnerShown
  <2>6. CASE DropRequest(s)
    BY <2>6, QuietShown
  <2> QED
    BY <1>2, <2>1, <2>2, <2>3, <2>4, <2>5, <2>6, WriteShown
<1>3. CASE \E o \in Sale : recalculateOrder(o) \/ CloseOrder(o) \/ splitOrders(o) \/ cancelBill(o)
  BY <1>3, CloseShown
<1>4. CASE \E p \in Promo : archiveDiscount(p) \/ ScheduleTurns(p)
  BY <1>4, OwnerShown
<1> QED
  BY <1>1, <1>2, <1>3, <1>4 DEF DiscountNext, Asks, Writes

LEMMA ShownAlways == DiscountSpec => [](UsesInv /\ ShownInv)
<1>1. DiscountInit => UsesInv /\ ShownInv
  BY UsesStart, ShownStart
<1>2. UsesInv /\ ShownInv /\ [DiscountNext]_discountVars => (UsesInv /\ ShownInv)'
  BY UsesStep, ShownStep
<1> QED
  BY <1>1, <1>2, PTL DEF DiscountSpec

\* Rows of promotions, orders, bills and discounts, and requests, keep their types: no
\* discount and no order's total goes below zero.
THEOREM DiscountTypeCorrect == DiscountSpec => []DiscountTypeOK
<1>1. ShownInv => DiscountTypeOK
  BY DEF ShownInv, RowTypes
<1> QED
  BY <1>1, ShownAlways, PTL

\* Whatever requests give and take discounts, bill, collect, merge and replace the lines
\* at the same time, an order that no two of them met on and whose discounts none ignored
\* shows the sum of the discounts in force, and so does its bill unless its amounts were
\* asked for at the bill; no promotion is on it twice, one given by hand is there alone,
\* and its customer has none more often than ever allowed.
THEOREM DiscountsAreShownAlways == DiscountSpec => []DiscountsAreShown
<1>1. ShownInv => DiscountsAreShown
  <2> SUFFICES ASSUME ShownInv, NEW o \in Sale \ odd
               PROVE  /\ sale[o].disc = SumOf(Of(o))
                      /\ sale[o].total = computeTotalAmount(sale[o].sub, sale[o].disc)
                      /\ slip[o].status = "LIVE" /\ ~slip[o].own =>
                           slip[o].grand = sale[o].total
                      /\ \A g, h \in Of(o) : g # h => NoPromo # g.promo /\ g.promo # h.promo
                      /\ Within(o)
    BY DEF DiscountsAreShown, Within
  <2> QED
    BY DEF ShownInv, Shown
<1> QED
  BY <1>1, ShownAlways, PTL

-----------------------------------------------------------------------------
(* One request after the other: the mix of MCDiscounts that bills are exact in *)

\* Requests served one after the other: at most one is at work, and one that is
\* not has read nothing.
SerialAloneInv ==
  /\ \A s, t \in Session : s # t => Idle \in {req[s], req[t]}
  /\ \A s \in Session : req[s].phase = "idle" => req[s] = Idle

\* An order without a bill received nothing; a payment without a number is that
\* of a request at work.
UnbilledInv ==
  /\ \A o \in Order : ~HasBill(o) => bill[o].paid = 0 /\ received[o] = 0
  /\ unnamed # NoOrder => \E s \in Session : At(s, "pay", "inserted")

\* No order was taken away from COMPLETED, and one that was merged into another
\* stays cancelled, without a bill, in one group at most.
MergedInv ==
  /\ loose = {}
  /\ \A g \in merged : ~HasBill(g[1]) /\ order[g[1]].status = "CANCELLED"
  /\ \A g, h \in merged : g[1] = h[1] => g = h

\* What the request at work has read is still so, and what it may be.
Found(r) ==
  LET o == r.ord IN
  /\ r.op \notin {"reopen", "void", "orderDiscount"}
  /\ r.op = "collect" /\ r.phase \in {"ordered", "checked", "numbered"} =>
       r.amt = r.grand /\ order[o].status = "OPEN"
  /\ r.op = "collect" /\ r.phase = "checked" => ~r.had
  /\ r.op = "bill" /\ r.phase = "ordered" => r.status = order[o].status
  /\ r.op = "bill" /\ r.phase \in {"checked", "numbered"} =>
       order[o].status = "COMPLETED"
  /\ r.op \in {"pay", "split"} /\ r.phase = "checked" =>
       HasBill(o) /\ r.paid = received[o]
  /\ r.op = "pay" /\ r.phase \in {"inserted", "named"} =>
       HasBill(o) /\ r.paid + r.amt = received[o]
  /\ r.op = "discount" /\ r.phase = "checked" =>
       HasBill(o) /\ bill[o].payment # "PAID"
  /\ r.op = "edit" /\ r.phase \in {"checked", "ordered"} => ~HasBill(o)
  /\ r.op = "cancelBill" => HasBill(o)
  /\ r.op = "complete" => order[o].status # "CANCELLED"
  /\ r.op = "hold" => order[o].status = "OPEN"
  /\ r.op = "merge" => order[o].status = "OPEN" /\ ~HasBill(o)
  /\ r.op = "unmerge" => \A p \in r.with : <<p, o>> \in merged

FoundInv == \A s \in Session : Found(req[s])

\* The payment of an order that is not yet credited to its bill.
Pending(r) == r.op = "pay" /\ r.phase \in {"inserted", "named"}

\* A bill shows what was received, but for the payment being credited to it.
ExactUpToInv ==
  \A o \in Order :
    \/ bill[o].paid = received[o]
    \/ \E s \in Session : Pending(req[s]) /\ req[s].ord = o

SerialInv == /\ BInv /\ LiveBillMeansCompleted
             /\ SerialAloneInv /\ UnbilledInv /\ MergedInv /\ FoundInv /\ ExactUpToInv

\* A step is one request's, and the others have not begun.
LEMMA SerialServes ==
  ASSUME SerialInv, Serial, NEW s \in Session, NEW r, Answer(s, r),
         req[s] # Idle \/ r # Idle, r.phase = "idle" => r = Idle
  PROVE  /\ req'[s] = r
         /\ \A t \in Session : t # s => req[t] = Idle /\ req'[t] = Idle
         /\ SerialAloneInv'
<1>1. BInv /\ SerialAloneInv
  BY DEF SerialInv
<1>2. req'[s] = r /\ \A t \in Session : t # s => req'[t] = req[t]
  BY <1>1, AnswerValue
<1>3. \A t \in Session : t # s => req[t] = Idle
  BY <1>1, <1>2 DEF SerialAloneInv, Serial
<1> QED
  BY <1>1, <1>2, <1>3 DEF SerialAloneInv

LEMMA IdleFound == Found(Idle) /\ ~Pending(Idle) /\ Idle \in Request
BY DEF Found, Pending, Idle, Request, Phase

\* With one request at work, nothing is pending but its own.
LEMMA SerialPending ==
  ASSUME SerialInv, NEW s \in Session, \A t \in Session : t # s => req[t] = Idle
  PROVE  /\ \A o \in Order : ~(Pending(req[s]) /\ req[s].ord = o) =>
                               bill[o].paid = received[o]
         /\ ~At(s, "pay", "inserted") => unnamed = NoOrder
<1>1. /\ \A t \in Session : t # s => ~Pending(req[t]) /\ ~At(t, "pay", "inserted")
  BY DEF Pending, At, Idle
<1> QED
  BY <1>1 DEF SerialInv, ExactUpToInv, UnbilledInv

\* The rows that a step may have written, and what it must have kept of them.
LEMMA SerialKept ==
  ASSUME SerialInv, Serial, BInv', NEW s \in Session, NEW r, Answer(s, r),
         req[s] # Idle \/ r # Idle, r.phase = "idle" => r = Idle,
         LiveBillMeansCompleted', UnbilledInv', MergedInv', Found(req[s])',
         \A o \in Order : (Pending(r) /\ r.ord = o) \/ bill'[o].paid = received'[o]
  PROVE  SerialInv'
<1>1. /\ req'[s] = r /\ SerialAloneInv'
      /\ \A t \in Session : t # s => req'[t] = Idle
  BY SerialServes
<1>2. \A t \in Session : Found(req[t])'
  <2> SUFFICES ASSUME NEW t \in Session PROVE Found(req[t])'
    OBVIOUS
  <2>1. CASE t = s
    BY <2>1
  <2>2. CASE t # s
    BY <1>1, <2>2 DEF Found, Idle
  <2> QED
    BY <2>1, <2>2
<1>3. ExactUpToInv'
  BY <1>1 DEF ExactUpToInv, Pending
<1> QED
  BY <1>1, <1>2, <1>3 DEF SerialInv, FoundInv

\* A step that writes to no row.
LEMMA SerialQuiet ==
  ASSUME SerialInv, Serial, BInv', NEW s \in Session, NEW r, Answer(s, r),
         req[s] # Idle \/ r # Idle, r.phase = "idle" => r = Idle,
         UNCHANGED <<order, bill, received, unnamed, merged, loose>>,
         ~Pending(req[s]), Found(r)
  PROVE  SerialInv' /\ SettledTotalStays
<1>1. /\ req'[s] = r
      /\ \A t \in Session : t # s => req[t] = Idle /\ req'[t] = Idle
  BY SerialServes
<1>2. /\ \A o \in Order : bill[o].paid = received[o]
      /\ unnamed = NoOrder
  BY <1>1, SerialPending DEF Pending, At
<1>3. UnbilledInv'
  BY <1>2 DEF UnbilledInv, SerialInv, HasBill
<1>4. LiveBillMeansCompleted'
  BY DEF LiveBillMeansCompleted, SerialInv, Live, HasBill
<1>5. Found(req[s])'
  BY <1>1 DEF Found, HasBill
<1>m. MergedInv'
  BY DEF MergedInv, SerialInv, HasBill
<1>6. SerialInv'
  <2>1. \A o \in Order : (Pending(r) /\ r.ord = o) \/ bill'[o].paid = received'[o]
    BY <1>2
  <2> QED
    BY <1>3, <1>4, <1>5, <1>m, <2>1, SerialKept
<1> QED
  BY <1>6 DEF SettledTotalStays

\* What a request served on its own may begin with.
LEMMA SerialBegins ==
  ASSUME SerialInv, Serial, NEW s \in Session, NEW r, Answer(s, r),
         req[s].phase = "idle", r.phase # "idle"
  PROVE  /\ r.op \notin {"reopen", "void", "orderDiscount"}
         /\ r.op = "collect" => r.amt = r.grand
         /\ r # Idle /\ ~Pending(req[s])
<1>1. req'[s] = r /\ req[s] = Idle /\ r # Idle
  BY AnswerValue DEF SerialInv, SerialAloneInv, Idle
<1>2. s \in Begun
  BY <1>1 DEF Begun
<1> QED
  BY <1>1, <1>2, IdleFound DEF Serial, AtWork

\* A step that reads and begins.
LEMMA SerialReads ==
  ASSUME SerialInv, Serial, BInv', NEW s \in Session, NEW r, Answer(s, r),
         req[s].phase = "idle", r.phase # "idle",
         UNCHANGED <<order, bill, received, unnamed, merged, loose>>,
         /\ r.op \notin {"reopen", "void", "orderDiscount"}
         /\ r.op = "collect" => r.amt = r.grand
         /\ \A o \in Order : bill[o].paid = received[o]
         => Found(r)
  PROVE  SerialInv' /\ SettledTotalStays
<1>1. /\ r.op \notin {"reopen", "void", "orderDiscount"}
      /\ r.op = "collect" => r.amt = r.grand
      /\ r # Idle /\ ~Pending(req[s])
  BY SerialBegins
<1>2. \A t \in Session : t # s => req[t] = Idle
  BY <1>1, SerialServes
<1>3. \A o \in Order : bill[o].paid = received[o]
  BY <1>1, <1>2, SerialPending
<1> QED
  BY <1>1, <1>3, SerialQuiet

\* A request at work, what it read and the rows of its order.
LEMMA SerialWorks ==
  ASSUME SerialInv, NEW s \in Session, req[s].phase # "idle"
  PROVE  /\ req[s] \in Request /\ req[s].ord \in Order /\ Found(req[s])
         /\ req[s] # Idle /\ TypeOK
         /\ bill[req[s].ord] \in BillRow
         /\ Live(req[s].ord) => order[req[s].ord].status = "COMPLETED"
         /\ ~HasBill(req[s].ord) => /\ received[req[s].ord] = 0
                                    /\ bill[req[s].ord].paid = 0
         /\ ~Pending(req[s]) => bill[req[s].ord].paid = received[req[s].ord]
         /\ ~At(s, "pay", "inserted") => unnamed = NoOrder
<1>1. /\ BInv /\ FoundInv /\ UnbilledInv
      /\ \A o \in Order : Live(o) => order[o].status = "COMPLETED"
  BY DEF SerialInv, MergedInv, LiveBillMeansCompleted
<1>2. /\ req[s] \in Request
      /\ req[s].phase # "idle" => req[s].ord \in Order /\ req[s].op \in Ops
  BY <1>1, RequestFields
<1>3. req[s] # Idle
  BY DEF Idle
<1>4. bill[req[s].ord] \in BillRow /\ TypeOK
  BY <1>1, <1>2 DEF BInv, TypeOK
<1>5. \A t \in Session : t # s => req[t] = Idle
  BY <1>3 DEF SerialInv, SerialAloneInv
<1>6. /\ ~Pending(req[s]) => bill[req[s].ord].paid = received[req[s].ord]
      /\ ~At(s, "pay", "inserted") => unnamed = NoOrder
  BY <1>2, <1>5, SerialPending
<1> QED
  BY <1>1, <1>2, <1>3, <1>4, <1>6 DEF FoundInv, UnbilledInv

\* A step after which a request is over, or goes on, with nothing written.
LEMMA SerialEnds ==
  ASSUME SerialInv, Serial, BInv', NEW s \in Session, Finish(s),
         req[s].phase # "idle", ~Pending(req[s]),
         UNCHANGED <<order, bill, received, unnamed, merged, loose>>
  PROVE  SerialInv' /\ SettledTotalStays
<1>1. req[s] # Idle
  BY DEF Idle
<1>2. Idle.phase = "idle" => Idle = Idle
  OBVIOUS
<1>3. Answer(s, Idle)
  BY DEF Finish
<1> QED
  BY <1>1, <1>2, <1>3, IdleFound, SerialQuiet

\* A request that is over, having written the orders and the groups alone.
LEMMA SerialRest ==
  ASSUME SerialInv, Serial, BInv', NEW s \in Session, Finish(s), req[s] # Idle,
         ~Pending(req[s]), UNCHANGED <<bill, received>>,
         LiveBillMeansCompleted', UnbilledInv', MergedInv'
  PROVE  SerialInv' /\ SettledTotalStays
<1>1. Answer(s, Idle)
  BY DEF Finish
<1>2. req'[s] = Idle /\ \A t \in Session : t # s => req[t] = Idle
  BY <1>1, SerialServes
<1>3. \A o \in Order : bill[o].paid = received[o]
  BY <1>2, SerialPending
<1>4. Found(req[s])'
  BY <1>2 DEF Found, Idle
<1>5. \A o \in Order : (Pending(Idle) /\ Idle.ord = o) \/ bill'[o].paid = received'[o]
  BY <1>3
<1>6. SerialInv'
  BY <1>1, <1>4, <1>5, SerialKept
<1> QED
  BY <1>6 DEF SettledTotalStays

\* A step that writes to the rows of its own order, and what it may leave there.
LEMMA SerialWrites ==
  ASSUME SerialInv, Serial, BInv', NEW s \in Session, req[s].phase # "idle",
         NEW r, Answer(s, r), r.phase = "idle" => r = Idle,
         NEW o \in Order, o = req[s].ord,
         \A p \in Order : p # o => /\ order'[p] = order[p] /\ bill'[p] = bill[p]
                                   /\ received'[p] = received[p],
         bill'[o].no # 0 /\ ~bill'[o].cancelled => order'[o].status = "COMPLETED",
         bill'[o].no = 0 => bill'[o].paid = 0 /\ received'[o] = 0,
         (Pending(r) /\ r.ord = o) \/ bill'[o].paid = received'[o],
         unnamed' # NoOrder => r.op = "pay" /\ r.phase = "inserted",
         Live(o) /\ bill[o].payment = "PAID" =>
           bill'[o].sub = bill[o].sub /\ bill'[o].grand = bill[o].grand,
         loose' = loose, merged' \subseteq merged,
         \/ order[o].status # "CANCELLED" \/ HasBill(o)
         \/ bill'[o].no = 0 /\ order'[o].status = order[o].status,
         Found(req[s])'
  PROVE  SerialInv' /\ SettledTotalStays
<1>1. req[s] # Idle /\ LiveBillMeansCompleted /\ UnbilledInv /\ MergedInv
  BY DEF Idle, SerialInv
<1>2. /\ req'[s] = r
      /\ \A t \in Session : t # s => req[t] = Idle
  BY <1>1, SerialServes
<1>3. \A p \in Order : p # o => bill[p].paid = received[p]
  BY <1>2, SerialPending
<1>4. LiveBillMeansCompleted'
  BY <1>1 DEF LiveBillMeansCompleted, Live, HasBill
<1>5. UnbilledInv'
  BY <1>1, <1>2 DEF UnbilledInv, HasBill, At
<1>6. \A p \in Order : (Pending(r) /\ r.ord = p) \/ bill'[p].paid = received'[p]
  BY <1>3
<1>m. MergedInv'
  <2>1. \A g \in merged : g[1] \in Order
    BY DEF SerialInv, BInv, TypeOK
  <2> QED
    BY <1>1, <2>1 DEF MergedInv, HasBill
<1>7. SerialInv'
  BY <1>1, <1>4, <1>5, <1>6, <1>m, SerialKept
<1> QED
  BY <1>7 DEF SettledTotalStays

\* Every step of a request served on its own keeps what it has read true, and
\* leaves the totals of settled bills alone.
LEMMA SerialStep ==
  ASSUME SerialInv, Serial, Next
  PROVE  SerialInv' /\ SettledTotalStays
<1>b. SerialInv /\ Serial /\ BInv'
  BY BaseStep DEF SerialInv
<1>2. ASSUME NEW s \in Session, CollectReadOrder(s)
      PROVE  SerialInv' /\ SettledTotalStays
  <2>1. PICK o \in Order, d \in Discounts, c \in Charges, amt \in 0..MaxReceived :
          /\ order[o].status = "OPEN"
          /\ Answer(s, [Idle EXCEPT !.phase = "ordered", !.op = "collect", !.ord = o,
             !.sub = order[o].total, !.extra = c, !.grand = Discounted(order[o].total, d) + c,
             !.amt = amt])
    BY <1>2 DEF CollectReadOrder
  <2> DEFINE r == [Idle EXCEPT !.phase = "ordered", !.op = "collect", !.ord = o,
             !.sub = order[o].total, !.extra = c, !.grand = Discounted(order[o].total, d) + c,
             !.amt = amt]
  <2>2. Answer(s, r) /\ req[s].phase = "idle" /\ r.phase # "idle"
    BY <1>2, <2>1 DEF CollectReadOrder, Serve, Idle
  <2>3. /\ r.op \notin {"reopen", "void", "orderDiscount"}
        /\ r.op = "collect" => r.amt = r.grand
        /\ \A q \in Order : bill[q].paid = received[q]
        => Found(r)
    BY <1>b, <2>1 DEF Found, Idle, HasBill, Live, SerialInv, UnbilledInv
  <2>4. UNCHANGED <<order, bill, received, unnamed, merged, loose>>
    BY <1>2 DEF CollectReadOrder
  <2> HIDE DEF r
  <2> QED
    BY <2>2, <2>3, <2>4, <1>b, SerialReads
<1>3. ASSUME NEW s \in Session, CollectReadBill(s)
      PROVE  SerialInv' /\ SettledTotalStays
  <2> DEFINE r == [req[s] EXCEPT !.phase = "checked", !.had = Live(req[s].ord)]
  <2>1. At(s, "collect", "ordered") /\ req[s].phase # "idle" /\ ~Pending(req[s])
    BY <1>3 DEF CollectReadBill, At, Pending
  <2>2. /\ req[s] \in Request /\ Found(req[s]) /\ req[s] # Idle
        /\ Live(req[s].ord) => order[req[s].ord].status = "COMPLETED"
    BY <1>b, <2>1, SerialWorks
  <2>3. ~Live(req[s].ord)
    BY <2>1, <2>2 DEF Found, At
  <2>4. Answer(s, r) /\ UNCHANGED <<order, bill, received, unnamed, merged, loose>>
    BY <1>3, <2>3 DEF CollectReadBill
  <2>5. Found(r) /\ r.phase # "idle"
    BY <2>1, <2>2, <2>3 DEF Found, At, Request
  <2> HIDE DEF r
  <2> QED
    BY <1>b, <2>1, <2>2, <2>4, <2>5, SerialQuiet
<1>4. ASSUME NEW s \in Session, CollectNumber(s)
      PROVE  SerialInv' /\ SettledTotalStays
  <2> DEFINE r == [req[s] EXCEPT !.phase = "numbered", !.no = NextNumber]
  <2>1. At(s, "collect", "checked") /\ req[s].phase # "idle" /\ ~Pending(req[s])
    BY <1>4 DEF CollectNumber, At, Pending
  <2>2. req[s] \in Request /\ Found(req[s]) /\ req[s] # Idle
    BY <1>b, <2>1, SerialWorks
  <2>3. Answer(s, r) /\ UNCHANGED <<order, bill, received, unnamed, merged, loose>>
    BY <1>4 DEF CollectNumber
  <2>4. Found(r) /\ r.phase # "idle"
    BY <2>1, <2>2 DEF Found, At, Request
  <2> HIDE DEF r
  <2> QED
    BY <1>b, <2>1, <2>2, <2>3, <2>4, SerialQuiet
<1>5. ASSUME NEW s \in Session, CollectInsert(s)
      PROVE  SerialInv' /\ SettledTotalStays
  <2> DEFINE o == req[s].ord
             r == [req[s] EXCEPT !.phase = "answered", !.ans = "collected"]
  <2>1. At(s, "collect", "numbered") /\ req[s].phase # "idle" /\ ~Pending(req[s])
    BY <1>5 DEF CollectInsert, At, Pending
  <2>2. /\ req[s] \in Request /\ o \in Order /\ Found(req[s])
        /\ req[s] # Idle /\ TypeOK /\ bill[o] \in BillRow
    BY <1>b, <2>1, SerialWorks
  <2>3. /\ ~HasBill(o) /\ received[o] = 0 /\ bill[o].paid = 0
        /\ UNCHANGED unnamed /\ Collect(s, req[s].no)
    BY <1>b, <1>5, <2>1, <2>2, SerialWorks DEF CollectInsert, Insertable
  <2>4. req[s].amt = req[s].grand /\ req[s].amt \in Nat /\ req[s].grand \in Nat
    BY <2>1, <2>2 DEF Found, At, Request
  <2>m. loose' = loose /\ merged' \subseteq merged /\ order[o].status = "OPEN"
    BY <2>1, <2>2, <2>3, <2>4, ReleaseType DEF Collect, Found, At
  <2>5. /\ \A p \in Order : p # o => /\ order'[p] = order[p] /\ bill'[p] = bill[p]
                                     /\ received'[p] = received[p]
        /\ order'[o].status = "COMPLETED" /\ received'[o] = req[s].amt
    BY <2>2, <2>3, <2>4 DEF Collect, TypeOK, OrderRow
  <2>6. bill'[o].paid = req[s].amt /\ bill'[o].no = req[s].no
    BY <2>2, <2>3 DEF Collect, TypeOK, BillRow
  <2>7. req[s].no # 0 /\ unnamed = NoOrder
    BY <1>b, <2>1, SerialWorks DEF At, SerialInv, BInv, SessionInv
  <2>8. Answer(s, r) /\ r.phase # "idle" /\ req'[s] = r
    BY <1>b, <2>2, <2>3, AnswerValue DEF Collect, Request, SerialInv
  <2>9. Found(req[s])'
    BY <2>1, <2>2, <2>8 DEF Found, At, Request
  <2> HIDE DEF r
  <2> QED
    BY <1>b, <2>1, <2>2, <2>3, <2>5, <2>6, <2>7, <2>8, <2>9, <2>m, SerialWrites DEF Live
<1>6. ASSUME NEW s \in Session, CollectConflict(s)
      PROVE  SerialInv' /\ SettledTotalStays
  <2> DEFINE r == [req[s] EXCEPT !.phase = "answered", !.ans = "already"]
  <2>1. At(s, "collect", "numbered") /\ req[s].phase # "idle" /\ ~Pending(req[s])
    BY <1>6 DEF CollectConflict, At, Pending
  <2>2. req[s] \in Request /\ Found(req[s]) /\ req[s] # Idle
    BY <1>b, <2>1, SerialWorks
  <2>3. Answer(s, r) /\ UNCHANGED <<order, bill, received, unnamed, merged, loose>>
    BY <1>6 DEF CollectConflict
  <2>4. Found(r) /\ r.phase # "idle"
    BY <2>1, <2>2 DEF Found, At, Request
  <2> HIDE DEF r
  <2> QED
    BY <1>b, <2>1, <2>2, <2>3, <2>4, SerialQuiet
<1>7. ASSUME NEW s \in Session, CollectUpdate(s)
      PROVE  SerialInv' /\ SettledTotalStays
  <2>1. At(s, "collect", "checked") /\ req[s].had /\ req[s].phase # "idle"
    BY <1>7 DEF CollectUpdate, At
  <2>2. Found(req[s])
    BY <1>b, <2>1, SerialWorks
  <2> QED
    BY <2>1, <2>2 DEF Found, At
<1>8. ASSUME NEW s \in Session, Answered(s)
      PROVE  SerialInv' /\ SettledTotalStays
  <2>1. /\ req[s].phase # "idle" /\ ~Pending(req[s]) /\ Finish(s)
        /\ UNCHANGED <<order, bill, received, unnamed, merged, loose>>
    BY <1>8 DEF Answered, Pending
  <2> QED
    BY <1>b, <2>1, SerialEnds
<1>9. ASSUME NEW s \in Session, BillReadOrder(s)
      PROVE  SerialInv' /\ SettledTotalStays
  <2>1. PICK o \in Order, d \in Discounts, c \in Charges :
          /\ TRUE
          /\ Answer(s, [Idle EXCEPT !.phase = "ordered", !.op = "bill", !.ord = o,
             !.status = order[o].status, !.sub = order[o].total, !.extra = c,
             !.grand = Discounted(order[o].total, d) + c])
    BY <1>9 DEF BillReadOrder
  <2> DEFINE r == [Idle EXCEPT !.phase = "ordered", !.op = "bill", !.ord = o,
             !.status = order[o].status, !.sub = order[o].total, !.extra = c,
             !.grand = Discounted(order[o].total, d) + c]
  <2>2. Answer(s, r) /\ req[s].phase = "idle" /\ r.phase # "idle"
    BY <1>9, <2>1 DEF BillReadOrder, Serve, Idle
  <2>3. /\ r.op \notin {"reopen", "void", "orderDiscount"}
        /\ r.op = "collect" => r.amt = r.grand
        /\ \A q \in Order : bill[q].paid = received[q]
        => Found(r)
    BY <1>b, <2>1 DEF Found, Idle, HasBill, Live, SerialInv, UnbilledInv
  <2>4. UNCHANGED <<order, bill, received, unnamed, merged, loose>>
    BY <1>9 DEF BillReadOrder
  <2> HIDE DEF r
  <2> QED
    BY <2>2, <2>3, <2>4, <1>b, SerialReads
<1>10. ASSUME NEW s \in Session, BillReadBill(s)
      PROVE  SerialInv' /\ SettledTotalStays
  <2> DEFINE r == [req[s] EXCEPT !.phase = "checked"]
  <2>1. /\ At(s, "bill", "ordered") /\ req[s].phase # "idle" /\ ~Pending(req[s])
        /\ UNCHANGED <<order, bill, received, unnamed, merged, loose>>
    BY <1>10 DEF BillReadBill, At, Pending
  <2>2. req[s] \in Request /\ Found(req[s]) /\ req[s] # Idle
    BY <1>b, <2>1, SerialWorks
  <2>3. CASE Finish(s)
    BY <1>b, <2>1, <2>3, SerialEnds
  <2>4. CASE Answer(s, r) /\ req[s].status = "COMPLETED"
    <3>1. Found(r) /\ r.phase # "idle"
      BY <2>1, <2>2, <2>4 DEF Found, At, Request
    <3> HIDE DEF r
    <3> QED
      BY <1>b, <2>1, <2>2, <2>4, <3>1, SerialQuiet
  <2> QED
    BY <1>10, <2>3, <2>4 DEF BillReadBill
<1>11. ASSUME NEW s \in Session, BillNumber(s)
      PROVE  SerialInv' /\ SettledTotalStays
  <2> DEFINE r == [req[s] EXCEPT !.phase = "numbered", !.no = NextNumber]
  <2>1. At(s, "bill", "checked") /\ req[s].phase # "idle" /\ ~Pending(req[s])
    BY <1>11 DEF BillNumber, At, Pending
  <2>2. req[s] \in Request /\ Found(req[s]) /\ req[s] # Idle
    BY <1>b, <2>1, SerialWorks
  <2>3. Answer(s, r) /\ UNCHANGED <<order, bill, received, unnamed, merged, loose>>
    BY <1>11 DEF BillNumber
  <2>4. Found(r) /\ r.phase # "idle"
    BY <2>1, <2>2 DEF Found, At, Request
  <2> HIDE DEF r
  <2> QED
    BY <1>b, <2>1, <2>2, <2>3, <2>4, SerialQuiet
<1>12. ASSUME NEW s \in Session, BillInsert(s)
      PROVE  SerialInv' /\ SettledTotalStays
  <2> DEFINE o == req[s].ord
  <2>1. /\ At(s, "bill", "numbered") /\ req[s].phase # "idle" /\ ~Pending(req[s])
        /\ Finish(s) /\ UNCHANGED <<order, received, unnamed, merged, loose>>
    BY <1>12 DEF BillInsert, At, Pending
  <2>2. /\ req[s] \in Request /\ o \in Order /\ Found(req[s])
        /\ req[s] # Idle /\ TypeOK /\ bill[o] \in BillRow
    BY <1>b, <2>1, SerialWorks
  <2>m. loose' = loose /\ merged' = merged
    BY <1>12 DEF BillInsert
  <2>3. CASE Insertable(o, req[s].no)
    <3>1. ~HasBill(o) /\ received[o] = 0
      BY <1>b, <2>1, <2>3, SerialWorks DEF Insertable
    <3>2. /\ \A p \in Order : p # o => bill'[p] = bill[p]
          /\ bill'[o].paid = 0
      BY <1>12, <2>2, <2>3 DEF BillInsert, TypeOK, NoBill
    <3>3. order[o].status = "COMPLETED"
      BY <2>1, <2>2 DEF Found, At
    <3>4. unnamed = NoOrder
      BY <1>b, <2>1, SerialWorks DEF At
    <3>5. Answer(s, Idle) /\ req'[s] = Idle
      BY <1>b, <2>1, AnswerValue DEF Finish, SerialInv
    <3>6. Found(req[s])'
      BY <3>5 DEF Found, Idle
    <3> QED
      BY <1>b, <2>1, <2>2, <3>1, <3>2, <3>3, <3>4, <3>5, <3>6, <2>m, SerialWrites DEF Live
  <2>4. CASE ~Insertable(o, req[s].no)
    <3>1. UNCHANGED bill
      BY <1>12, <2>4 DEF BillInsert
    <3> QED
      BY <1>b, <2>1, <3>1, SerialEnds
  <2> QED
    BY <2>3, <2>4
<1>13. ASSUME NEW s \in Session, PayReadBill(s)
      PROVE  SerialInv' /\ SettledTotalStays
  <2>1. PICK o \in Order, amt \in 1..MaxReceived :
          /\ HasBill(o)
          /\ Answer(s, [Idle EXCEPT !.phase = "checked", !.op = "pay", !.ord = o,
             !.grand = bill[o].grand, !.paid = bill[o].paid, !.amt = amt])
    BY <1>13 DEF PayReadBill
  <2> DEFINE r == [Idle EXCEPT !.phase = "checked", !.op = "pay", !.ord = o,
             !.grand = bill[o].grand, !.paid = bill[o].paid, !.amt = amt]
  <2>2. Answer(s, r) /\ req[s].phase = "idle" /\ r.phase # "idle"
    BY <1>13, <2>1 DEF PayReadBill, Serve, Idle
  <2>3. /\ r.op \notin {"reopen", "void", "orderDiscount"}
        /\ r.op = "collect" => r.amt = r.grand
        /\ \A q \in Order : bill[q].paid = received[q]
        => Found(r)
    BY <1>b, <2>1 DEF Found, Idle, HasBill, Live, SerialInv, UnbilledInv
  <2>4. UNCHANGED <<order, bill, received, unnamed, merged, loose>>
    BY <1>13 DEF PayReadBill
  <2> HIDE DEF r
  <2> QED
    BY <2>2, <2>3, <2>4, <1>b, SerialReads
<1>14. ASSUME NEW s \in Session, PayInsert(s)
      PROVE  SerialInv' /\ SettledTotalStays
  <2> DEFINE o == req[s].ord
             r == [req[s] EXCEPT !.phase = "inserted"]
  <2>1. At(s, "pay", "checked") /\ req[s].phase # "idle" /\ ~Pending(req[s])
    BY <1>14 DEF PayInsert, At, Pending
  <2>2. /\ req[s] \in Request /\ o \in Order /\ Found(req[s])
        /\ TypeOK /\ bill[o] \in BillRow
        /\ Live(o) => order[o].status = "COMPLETED"
        /\ ~HasBill(o) => received[o] = 0 /\ bill[o].paid = 0
        /\ ~Pending(req[s]) => bill[o].paid = received[o]
        /\ ~At(s, "pay", "inserted") => unnamed = NoOrder
    BY <1>b, <2>1, SerialWorks
  <2>m. loose' = loose /\ merged' = merged
    BY <1>14 DEF PayInsert
  <2>3. /\ unnamed' = o /\ Answer(s, r) /\ UNCHANGED <<order, bill>>
        /\ received' = [received EXCEPT ![o] = @ + req[s].amt]
    BY <1>14, <2>1, <2>2 DEF PayInsert, At
  <2>4. /\ req'[s] = r /\ r.op = "pay" /\ r.phase = "inserted" /\ r.ord = o
        /\ r.paid = req[s].paid /\ r.amt = req[s].amt
    BY <1>b, <2>1, <2>2, <2>3, AnswerValue DEF SerialInv, At, Request
  <2>5. HasBill(o) /\ req[s].paid = received[o]
    BY <2>1, <2>2 DEF Found, At
  <2>6. /\ \A p \in Order : p # o => received'[p] = received[p]
        /\ received'[o] = req[s].paid + req[s].amt
    BY <2>2, <2>3, <2>5 DEF TypeOK
  <2> HIDE DEF r
  <2>7. Found(req[s])'
    BY <2>3, <2>4, <2>5, <2>6 DEF Found, HasBill
  <2> QED
    BY <1>b, <2>1, <2>2, <2>3, <2>4, <2>5, <2>6, <2>7, <2>m, SerialWrites DEF Live, HasBill, Pending
<1>15. ASSUME NEW s \in Session, PayName(s)
      PROVE  SerialInv' /\ SettledTotalStays
  <2> DEFINE o == req[s].ord
             r == [req[s] EXCEPT !.phase = "named"]
  <2>1. At(s, "pay", "inserted") /\ req[s].phase # "idle"
    BY <1>15 DEF PayName, At
  <2>2. /\ req[s] \in Request /\ o \in Order /\ Found(req[s])
        /\ TypeOK /\ bill[o] \in BillRow
        /\ Live(o) => order[o].status = "COMPLETED"
        /\ ~HasBill(o) => received[o] = 0 /\ bill[o].paid = 0
        /\ ~Pending(req[s]) => bill[o].paid = received[o]
        /\ ~At(s, "pay", "inserted") => unnamed = NoOrder
    BY <1>b, <2>1, SerialWorks
  <2>m. loose' = loose /\ merged' = merged
    BY <1>15 DEF PayName
  <2>3. unnamed' = NoOrder /\ Answer(s, r) /\ UNCHANGED <<order, bill, received>>
    BY <1>15 DEF PayName
  <2>4. /\ req'[s] = r /\ r.op = "pay" /\ r.phase = "named" /\ r.ord = o
        /\ r.paid = req[s].paid /\ r.amt = req[s].amt
    BY <1>b, <2>1, <2>2, <2>3, AnswerValue DEF SerialInv, At, Request
  <2>5. HasBill(o) /\ req[s].paid + req[s].amt = received[o]
    BY <2>1, <2>2 DEF Found, At
  <2> HIDE DEF r
  <2>6. Found(req[s])'
    BY <2>3, <2>4, <2>5 DEF Found, HasBill
  <2> QED
    BY <1>b, <2>1, <2>2, <2>3, <2>4, <2>5, <2>6, <2>m, SerialWrites DEF Live, HasBill, Pending
<1>16. ASSUME NEW s \in Session, PayCredit(s)
      PROVE  SerialInv' /\ SettledTotalStays
  <2> DEFINE o == req[s].ord
  <2>1. At(s, "pay", "named") /\ req[s].phase # "idle"
    BY <1>16 DEF PayCredit, At
  <2>2. /\ req[s] \in Request /\ o \in Order /\ Found(req[s])
        /\ TypeOK /\ bill[o] \in BillRow
        /\ Live(o) => order[o].status = "COMPLETED"
        /\ ~HasBill(o) => received[o] = 0 /\ bill[o].paid = 0
        /\ ~Pending(req[s]) => bill[o].paid = received[o]
        /\ ~At(s, "pay", "inserted") => unnamed = NoOrder
    BY <1>b, <2>1, SerialWorks
  <2>m. loose' = loose /\ merged' = merged
    BY <1>16 DEF PayCredit
  <2>3. HasBill(o) /\ req[s].paid + req[s].amt = received[o]
    BY <2>1, <2>2 DEF Found, At
  <2>4. Finish(s) /\ UNCHANGED <<order, received, unnamed>> /\ unnamed = NoOrder
    BY <1>16, <2>1, <2>2 DEF PayCredit, At
  <2>5. bill' = [bill EXCEPT ![o] = Settle(bill[o], req[s].paid + req[s].amt, req[s].grand)]
    BY <1>16, <2>2 DEF PayCredit, TypeOK
  <2>6. /\ \A p \in Order : p # o => bill'[p] = bill[p]
        /\ bill'[o].paid = req[s].paid + req[s].amt /\ bill'[o].no = bill[o].no
        /\ bill'[o].cancelled = bill[o].cancelled
        /\ bill'[o].sub = bill[o].sub /\ bill'[o].grand = bill[o].grand
    BY <2>2, <2>5 DEF TypeOK, Settle, BillRow
  <2>7. Answer(s, Idle) /\ req'[s] = Idle
    BY <1>b, <2>4, AnswerValue DEF Finish, SerialInv
  <2>8. Found(req[s])'
    BY <2>7 DEF Found, Idle
  <2> QED
    BY <1>b, <2>1, <2>2, <2>3, <2>4, <2>6, <2>7, <2>8, <2>m, SerialWrites DEF Live, HasBill
<1>17. ASSUME NEW s \in Session, SplitReadBill(s)
      PROVE  SerialInv' /\ SettledTotalStays
  <2>1. PICK o \in Order, amt \in 2..MaxReceived :
          /\ HasBill(o)
          /\ Answer(s, [Idle EXCEPT !.phase = "checked", !.op = "split", !.ord = o,
             !.grand = bill[o].grand, !.paid = bill[o].paid, !.amt = amt])
    BY <1>17 DEF SplitReadBill
  <2> DEFINE r == [Idle EXCEPT !.phase = "checked", !.op = "split", !.ord = o,
             !.grand = bill[o].grand, !.paid = bill[o].paid, !.amt = amt]
  <2>2. Answer(s, r) /\ req[s].phase = "idle" /\ r.phase # "idle"
    BY <1>17, <2>1 DEF SplitReadBill, Serve, Idle
  <2>3. /\ r.op \notin {"reopen", "void", "orderDiscount"}
        /\ r.op = "collect" => r.amt = r.grand
        /\ \A q \in Order : bill[q].paid = received[q]
        => Found(r)
    BY <1>b, <2>1 DEF Found, Idle, HasBill, Live, SerialInv, UnbilledInv
  <2>4. UNCHANGED <<order, bill, received, unnamed, merged, loose>>
    BY <1>17 DEF SplitReadBill
  <2> HIDE DEF r
  <2> QED
    BY <2>2, <2>3, <2>4, <1>b, SerialReads
<1>18. ASSUME NEW s \in Session, SplitCommit(s)
      PROVE  SerialInv' /\ SettledTotalStays
  <2> DEFINE o == req[s].ord
  <2>1. At(s, "split", "checked") /\ req[s].phase # "idle" /\ ~Pending(req[s])
    BY <1>18 DEF SplitCommit, At, Pending
  <2>2. /\ req[s] \in Request /\ o \in Order /\ Found(req[s])
        /\ TypeOK /\ bill[o] \in BillRow
        /\ Live(o) => order[o].status = "COMPLETED"
        /\ ~HasBill(o) => received[o] = 0 /\ bill[o].paid = 0
        /\ ~Pending(req[s]) => bill[o].paid = received[o]
        /\ ~At(s, "pay", "inserted") => unnamed = NoOrder
    BY <1>b, <2>1, SerialWorks
  <2>m. loose' = loose /\ merged' = merged
    BY <1>18 DEF SplitCommit
  <2>3. HasBill(o) /\ req[s].paid = received[o]
    BY <2>1, <2>2 DEF Found, At
  <2>4. Finish(s) /\ UNCHANGED <<order, unnamed>> /\ unnamed = NoOrder
    BY <1>18, <2>1, <2>2 DEF SplitCommit, At
  <2>5. bill' = [bill EXCEPT ![o] = Settle(bill[o], req[s].paid + req[s].amt, req[s].grand)]
    BY <1>18, <2>2 DEF SplitCommit, TypeOK
  <2>6. /\ \A p \in Order : p # o => bill'[p] = bill[p]
        /\ bill'[o].paid = req[s].paid + req[s].amt /\ bill'[o].no = bill[o].no
        /\ bill'[o].cancelled = bill[o].cancelled
        /\ bill'[o].sub = bill[o].sub /\ bill'[o].grand = bill[o].grand
    BY <2>2, <2>5 DEF TypeOK, Settle, BillRow
  <2>7. /\ \A p \in Order : p # o => received'[p] = received[p]
        /\ received'[o] = req[s].paid + req[s].amt
    BY <1>18, <2>2, <2>3 DEF SplitCommit, TypeOK
  <2>8. Answer(s, Idle) /\ req'[s] = Idle
    BY <1>b, <2>4, AnswerValue DEF Finish, SerialInv
  <2>9. Found(req[s])'
    BY <2>8 DEF Found, Idle
  <2> QED
    BY <1>b, <2>1, <2>2, <2>3, <2>4, <2>6, <2>7, <2>8, <2>9, <2>m, SerialWrites DEF Live, HasBill
<1>19. ASSUME NEW s \in Session, DiscountReadBill(s)
      PROVE  SerialInv' /\ SettledTotalStays
  <2>1. PICK o \in Order, d \in Discounts :
          /\ Live(o) /\ bill[o].payment # "PAID"
          /\ Answer(s, [Idle EXCEPT !.phase = "checked", !.op = "discount",
             !.ord = o, !.grand = Discounted(bill[o].sub, d) + bill[o].extra])
    BY <1>19 DEF DiscountReadBill
  <2> DEFINE r == [Idle EXCEPT !.phase = "checked", !.op = "discount",
             !.ord = o, !.grand = Discounted(bill[o].sub, d) + bill[o].extra]
  <2>2. Answer(s, r) /\ req[s].phase = "idle" /\ r.phase # "idle"
    BY <1>19, <2>1 DEF DiscountReadBill, Serve, Idle
  <2>3. /\ r.op \notin {"reopen", "void", "orderDiscount"}
        /\ r.op = "collect" => r.amt = r.grand
        /\ \A q \in Order : bill[q].paid = received[q]
        => Found(r)
    BY <1>b, <2>1 DEF Found, Idle, HasBill, Live, SerialInv, UnbilledInv
  <2>4. UNCHANGED <<order, bill, received, unnamed, merged, loose>>
    BY <1>19 DEF DiscountReadBill
  <2> HIDE DEF r
  <2> QED
    BY <2>2, <2>3, <2>4, <1>b, SerialReads
<1>20. ASSUME NEW s \in Session, DiscountWrite(s)
      PROVE  SerialInv' /\ SettledTotalStays
  <2> DEFINE o == req[s].ord
  <2>1. At(s, "discount", "checked") /\ req[s].phase # "idle" /\ ~Pending(req[s])
    BY <1>20 DEF DiscountWrite, At, Pending
  <2>2. /\ req[s] \in Request /\ o \in Order /\ Found(req[s])
        /\ TypeOK /\ bill[o] \in BillRow
        /\ Live(o) => order[o].status = "COMPLETED"
        /\ ~HasBill(o) => received[o] = 0 /\ bill[o].paid = 0
        /\ ~Pending(req[s]) => bill[o].paid = received[o]
        /\ ~At(s, "pay", "inserted") => unnamed = NoOrder
    BY <1>b, <2>1, SerialWorks
  <2>m. loose' = loose /\ merged' = merged
    BY <1>20 DEF DiscountWrite
  <2>3. HasBill(o) /\ bill[o].payment # "PAID"
    BY <2>1, <2>2 DEF Found, At
  <2>4. Finish(s) /\ UNCHANGED <<order, received, unnamed>> /\ unnamed = NoOrder
    BY <1>20, <2>1, <2>2 DEF DiscountWrite, At
  <2>5. /\ \A p \in Order : p # o => bill'[p] = bill[p]
        /\ bill'[o].no = bill[o].no /\ bill'[o].paid = bill[o].paid
        /\ bill'[o].cancelled = bill[o].cancelled
    BY <1>20, <2>1, <2>2, <2>3 DEF DiscountWrite, TypeOK, BillRow
  <2>6. Answer(s, Idle) /\ req'[s] = Idle
    BY <1>b, <2>4, AnswerValue DEF Finish, SerialInv
  <2>7. Found(req[s])'
    BY <2>6 DEF Found, Idle
  <2> QED
    BY <1>b, <2>1, <2>2, <2>3, <2>4, <2>5, <2>6, <2>7, <2>m, SerialWrites DEF Live, HasBill
<1>21. ASSUME NEW s \in Session, CancelBillRead(s)
      PROVE  SerialInv' /\ SettledTotalStays
  <2>1. PICK o \in Order :
          /\ Live(o)
          /\ Answer(s, [Idle EXCEPT !.phase = "checked", !.op = "cancelBill", !.ord = o])
    BY <1>21 DEF CancelBillRead
  <2> DEFINE r == [Idle EXCEPT !.phase = "checked", !.op = "cancelBill", !.ord = o]
  <2>2. Answer(s, r) /\ req[s].phase = "idle" /\ r.phase # "idle"
    BY <1>21, <2>1 DEF CancelBillRead, Serve, Idle
  <2>3. /\ r.op \notin {"reopen", "void", "orderDiscount"}
        /\ r.op = "collect" => r.amt = r.grand
        /\ \A q \in Order : bill[q].paid = received[q]
        => Found(r)
    BY <1>b, <2>1 DEF Found, Idle, HasBill, Live, SerialInv, UnbilledInv
  <2>4. UNCHANGED <<order, bill, received, unnamed, merged, loose>>
    BY <1>21 DEF CancelBillRead
  <2> HIDE DEF r
  <2> QED
    BY <2>2, <2>3, <2>4, <1>b, SerialReads
<1>22. ASSUME NEW s \in Session, CancelBillCommit(s)
      PROVE  SerialInv' /\ SettledTotalStays
  <2> DEFINE o == req[s].ord
  <2>1. At(s, "cancelBill", "checked") /\ req[s].phase # "idle" /\ ~Pending(req[s])
    BY <1>22 DEF CancelBillCommit, At, Pending
  <2>2. /\ req[s] \in Request /\ o \in Order /\ Found(req[s])
        /\ TypeOK /\ bill[o] \in BillRow
        /\ Live(o) => order[o].status = "COMPLETED"
        /\ ~HasBill(o) => received[o] = 0 /\ bill[o].paid = 0
        /\ ~Pending(req[s]) => bill[o].paid = received[o]
        /\ ~At(s, "pay", "inserted") => unnamed = NoOrder
    BY <1>b, <2>1, SerialWorks
  <2>m. loose' = loose /\ merged' = merged
    BY <1>22 DEF CancelBillCommit
  <2>3. HasBill(o)
    BY <2>1, <2>2 DEF Found, At
  <2>4. Finish(s) /\ UNCHANGED <<received, unnamed>> /\ unnamed = NoOrder
    BY <1>22, <2>1, <2>2 DEF CancelBillCommit, At
  <2>5. /\ \A p \in Order : p # o => bill'[p] = bill[p]
        /\ bill'[o].no = bill[o].no /\ bill'[o].paid = bill[o].paid
        /\ bill'[o].cancelled
        /\ bill'[o].sub = bill[o].sub /\ bill'[o].grand = bill[o].grand
        /\ \A p \in Order : p # o => order'[p] = order[p]
    BY <1>22, <2>1, <2>2, <2>3 DEF CancelBillCommit, TypeOK, BillRow
  <2>6. Answer(s, Idle) /\ req'[s] = Idle
    BY <1>b, <2>4, AnswerValue DEF Finish, SerialInv
  <2>7. Found(req[s])'
    BY <2>6 DEF Found, Idle
  <2> QED
    BY <1>b, <2>1, <2>2, <2>3, <2>4, <2>5, <2>6, <2>7, <2>m, SerialWrites DEF Live, HasBill
<1>23. ASSUME NEW s \in Session, StatusRead(s)
      PROVE  SerialInv' /\ SettledTotalStays
  <2>1. PICK op \in DOMAIN NewStatus, o \in Order :
          /\ order[o].status # "CANCELLED" /\ Serve(s, op)
          /\ Answer(s, [Idle EXCEPT !.phase = "checked", !.op = op, !.ord = o])
    BY <1>23 DEF StatusRead
  <2> DEFINE r == [Idle EXCEPT !.phase = "checked", !.op = op, !.ord = o]
  <2>2. Answer(s, r) /\ req[s].phase = "idle" /\ r.phase # "idle"
    BY <1>23, <2>1 DEF StatusRead, Serve, Idle
  <2>3. /\ r.op \notin {"reopen", "void", "orderDiscount"}
        /\ r.op = "collect" => r.amt = r.grand
        /\ \A q \in Order : bill[q].paid = received[q]
        => Found(r)
    BY <1>b, <2>1 DEF NewStatus, Found, Idle, HasBill, Live, SerialInv, UnbilledInv
  <2>4. UNCHANGED <<order, bill, received, unnamed, merged, loose>>
    BY <1>23 DEF StatusRead
  <2> HIDE DEF r
  <2> QED
    BY <2>2, <2>3, <2>4, <1>b, SerialReads
<1>24. ASSUME NEW s \in Session, StatusWrite(s)
      PROVE  SerialInv' /\ SettledTotalStays
  <2> DEFINE o == req[s].ord
  <2>1. /\ req[s].phase = "checked" /\ req[s].op \in DOMAIN NewStatus
        /\ req[s].phase # "idle" /\ ~Pending(req[s])
    BY <1>24 DEF StatusWrite, At, Pending, NewStatus
  <2>2. /\ req[s] \in Request /\ o \in Order /\ Found(req[s])
        /\ TypeOK /\ bill[o] \in BillRow
        /\ Live(o) => order[o].status = "COMPLETED"
        /\ ~HasBill(o) => received[o] = 0 /\ bill[o].paid = 0
        /\ ~Pending(req[s]) => bill[o].paid = received[o]
        /\ ~At(s, "pay", "inserted") => unnamed = NoOrder
    BY <1>b, <2>1, SerialWorks
  <2>3. /\ NewStatus[req[s].op] = "COMPLETED" /\ req[s].op = "complete"
        /\ order[o].status # "CANCELLED"
    BY <2>1, <2>2 DEF Found, At, NewStatus
  <2>m. loose' = loose /\ merged' = merged
    BY <1>24, <2>3 DEF StatusWrite
  <2>4. Finish(s) /\ UNCHANGED <<bill, received, unnamed>> /\ unnamed = NoOrder
    BY <1>24, <2>1, <2>2 DEF StatusWrite, At, NewStatus
  <2>5. /\ \A p \in Order : p # o => order'[p] = order[p]
        /\ order'[o].status = "COMPLETED"
    BY <1>24, <2>1, <2>2, <2>3 DEF StatusWrite, TypeOK, OrderRow
  <2>6. Answer(s, Idle) /\ req'[s] = Idle
    BY <1>b, <2>4, AnswerValue DEF Finish, SerialInv
  <2>7. Found(req[s])'
    BY <2>6 DEF Found, Idle
  <2> QED
    BY <1>b, <2>1, <2>2, <2>3, <2>4, <2>5, <2>6, <2>7, <2>m, SerialWrites DEF Live, HasBill
<1>25. ASSUME NEW s \in Session, CancelOrderRead(s)
      PROVE  SerialInv' /\ SettledTotalStays
  <2>1. PICK o \in Order :
          /\ order[o].status = "OPEN"
          /\ Answer(s, [Idle EXCEPT !.phase = "checked", !.op = "cancelOrder", !.ord = o])
    BY <1>25 DEF CancelOrderRead
  <2> DEFINE r == [Idle EXCEPT !.phase = "checked", !.op = "cancelOrder", !.ord = o]
  <2>2. Answer(s, r) /\ req[s].phase = "idle" /\ r.phase # "idle"
    BY <1>25, <2>1 DEF CancelOrderRead, Serve, Idle
  <2>3. /\ r.op \notin {"reopen", "void", "orderDiscount"}
        /\ r.op = "collect" => r.amt = r.grand
        /\ \A q \in Order : bill[q].paid = received[q]
        => Found(r)
    BY <1>b, <2>1 DEF Found, Idle, HasBill, Live, SerialInv, UnbilledInv
  <2>4. UNCHANGED <<order, bill, received, unnamed, merged, loose>>
    BY <1>25 DEF CancelOrderRead
  <2> HIDE DEF r
  <2> QED
    BY <2>2, <2>3, <2>4, <1>b, SerialReads
<1>26. ASSUME NEW s \in Session, CancelOrderClaim(s)
      PROVE  SerialInv' /\ SettledTotalStays
  <2> DEFINE o == req[s].ord
  <2>1. At(s, "cancelOrder", "checked") /\ req[s].phase # "idle" /\ ~Pending(req[s])
    BY <1>26 DEF CancelOrderClaim, At, Pending
  <2>2. /\ req[s] \in Request /\ o \in Order /\ Found(req[s])
        /\ TypeOK /\ bill[o] \in BillRow
        /\ Live(o) => order[o].status = "COMPLETED"
        /\ ~HasBill(o) => received[o] = 0 /\ bill[o].paid = 0
        /\ ~Pending(req[s]) => bill[o].paid = received[o]
        /\ ~At(s, "pay", "inserted") => unnamed = NoOrder
    BY <1>b, <2>1, SerialWorks
  <2>m. loose' = loose /\ merged' \subseteq merged
    BY <1>26, <2>2, ReleaseType DEF CancelOrderClaim
  <2>3. order[o].status # "OPEN" => order'[o].status = order[o].status
    BY <1>26, <2>2 DEF CancelOrderClaim, TypeOK, OrderRow
  <2>4. Finish(s) /\ UNCHANGED <<bill, received, unnamed>> /\ unnamed = NoOrder
    BY <1>26, <2>1, <2>2 DEF CancelOrderClaim, At
  <2>5. /\ \A p \in Order : p # o => order'[p] = order[p]
        /\ order[o].status = "COMPLETED" => order'[o].status = "COMPLETED"
    BY <1>26, <2>1, <2>2, <2>3 DEF CancelOrderClaim, TypeOK, OrderRow
  <2>6. Answer(s, Idle) /\ req'[s] = Idle
    BY <1>b, <2>4, AnswerValue DEF Finish, SerialInv
  <2>7. Found(req[s])'
    BY <2>6 DEF Found, Idle
  <2> QED
    BY <1>b, <2>1, <2>2, <2>3, <2>4, <2>5, <2>6, <2>7, <2>m, SerialWrites DEF Live, HasBill
<1>27. ASSUME NEW s \in Session, EditRead(s)
      PROVE  SerialInv' /\ SettledTotalStays
  <2>1. PICK o \in Order :
          /\ ~HasBill(o)
          /\ Answer(s, [Idle EXCEPT !.phase = "checked", !.op = "edit", !.ord = o])
    BY <1>27 DEF EditRead
  <2> DEFINE r == [Idle EXCEPT !.phase = "checked", !.op = "edit", !.ord = o]
  <2>2. Answer(s, r) /\ req[s].phase = "idle" /\ r.phase # "idle"
    BY <1>27, <2>1 DEF EditRead, Serve, Idle
  <2>3. /\ r.op \notin {"reopen", "void", "orderDiscount"}
        /\ r.op = "collect" => r.amt = r.grand
        /\ \A q \in Order : bill[q].paid = received[q]
        => Found(r)
    BY <1>b, <2>1 DEF Found, Idle, HasBill, Live, SerialInv, UnbilledInv
  <2>4. UNCHANGED <<order, bill, received, unnamed, merged, loose>>
    BY <1>27 DEF EditRead
  <2> HIDE DEF r
  <2> QED
    BY <2>2, <2>3, <2>4, <1>b, SerialReads
<1>28. ASSUME NEW s \in Session, EditWrite(s)
      PROVE  SerialInv' /\ SettledTotalStays
  <2> DEFINE o == req[s].ord
  <2>1. At(s, "edit", "checked") /\ req[s].phase # "idle" /\ ~Pending(req[s])
    BY <1>28 DEF EditWrite, At, Pending
  <2>2. /\ req[s] \in Request /\ o \in Order /\ Found(req[s])
        /\ TypeOK /\ bill[o] \in BillRow
        /\ Live(o) => order[o].status = "COMPLETED"
        /\ ~HasBill(o) => received[o] = 0 /\ bill[o].paid = 0
        /\ ~Pending(req[s]) => bill[o].paid = received[o]
        /\ ~At(s, "pay", "inserted") => unnamed = NoOrder
    BY <1>b, <2>1, SerialWorks
  <2>m. loose' = loose /\ merged' = merged
    BY <1>28 DEF EditWrite
  <2>3. PICK total \in Totals, d \in Discounts :
          /\ order' = [order EXCEPT ![o].total = total]
          /\ Answer(s, [req[s] EXCEPT !.phase = "ordered", !.sub = total,
                                     !.grand = Discounted(total, d)])
    BY <1>28 DEF EditWrite
  <2> DEFINE r == [req[s] EXCEPT !.phase = "ordered", !.sub = total,
                                 !.grand = Discounted(total, d)]
  <2>4. /\ req'[s] = r /\ r.op = "edit" /\ r.phase = "ordered" /\ r.ord = o
        /\ Answer(s, r) /\ UNCHANGED <<bill, received, unnamed>> /\ unnamed = NoOrder
    BY <1>b, <1>28, <2>1, <2>2, <2>3, AnswerValue DEF EditWrite, SerialInv, At, Request
  <2>5. ~HasBill(o)
    BY <2>1, <2>2 DEF Found, At
  <2>6. /\ \A p \in Order : p # o => order'[p] = order[p]
        /\ order'[o].status = order[o].status
    BY <2>2, <2>3 DEF TypeOK, OrderRow
  <2> HIDE DEF r
  <2>7. Found(req[s])'
    BY <2>4, <2>5 DEF Found, HasBill
  <2> QED
    BY <1>b, <2>1, <2>2, <2>4, <2>5, <2>6, <2>7, <2>m, SerialWrites DEF Live, HasBill
<1>29. ASSUME NEW s \in Session, EditSync(s)
      PROVE  SerialInv' /\ SettledTotalStays
  <2>1. /\ At(s, "edit", "ordered") /\ req[s].phase # "idle" /\ ~Pending(req[s])
        /\ Finish(s) /\ UNCHANGED <<order, received, unnamed, merged, loose>>
    BY <1>29 DEF EditSync, At, Pending
  <2>2. ~HasBill(req[s].ord)
    BY <1>b, <2>1, SerialWorks DEF Found, At
  <2>3. UNCHANGED bill
    BY <1>29, <2>2 DEF EditSync
  <2> QED
    BY <1>b, <2>1, <2>3, SerialEnds
<1>30. ASSUME NEW s \in Session, ReplaceRead(s)
      PROVE  SerialInv' /\ SettledTotalStays
  <2>1. PICK o \in Order :
          /\ order[o].status = "OPEN"
          /\ Answer(s, [Idle EXCEPT !.phase = "checked", !.op = "replace", !.ord = o])
    BY <1>30 DEF ReplaceRead
  <2> DEFINE r == [Idle EXCEPT !.phase = "checked", !.op = "replace", !.ord = o]
  <2>2. Answer(s, r) /\ req[s].phase = "idle" /\ r.phase # "idle"
    BY <1>30, <2>1 DEF ReplaceRead, Serve, Idle
  <2>3. /\ r.op \notin {"reopen", "void", "orderDiscount"}
        /\ r.op = "collect" => r.amt = r.grand
        /\ \A q \in Order : bill[q].paid = received[q]
        => Found(r)
    BY <1>b, <2>1 DEF Found, Idle, HasBill, Live, SerialInv, UnbilledInv
  <2>4. UNCHANGED <<order, bill, received, unnamed, merged, loose>>
    BY <1>30 DEF ReplaceRead
  <2> HIDE DEF r
  <2> QED
    BY <2>2, <2>3, <2>4, <1>b, SerialReads
<1>31. ASSUME NEW s \in Session, ReplaceWrite(s)
      PROVE  SerialInv' /\ SettledTotalStays
  <2> DEFINE o == req[s].ord
  <2>1. At(s, "replace", "checked") /\ req[s].phase # "idle" /\ ~Pending(req[s])
    BY <1>31 DEF ReplaceWrite, At, Pending
  <2>2. /\ req[s] \in Request /\ o \in Order /\ Found(req[s])
        /\ TypeOK /\ bill[o] \in BillRow
        /\ Live(o) => order[o].status = "COMPLETED"
        /\ ~HasBill(o) => received[o] = 0 /\ bill[o].paid = 0
        /\ ~Pending(req[s]) => bill[o].paid = received[o]
        /\ ~At(s, "pay", "inserted") => unnamed = NoOrder
    BY <1>b, <2>1, SerialWorks
  <2>m. loose' = loose /\ merged' = merged
    BY <1>31 DEF ReplaceWrite
  <2>3. TRUE
    BY <2>1, <2>2 DEF Found, At
  <2>4. Finish(s) /\ UNCHANGED <<bill, received, unnamed>> /\ unnamed = NoOrder
    BY <1>31, <2>1, <2>2 DEF ReplaceWrite, At
  <2>5. /\ \A p \in Order : p # o => order'[p] = order[p]
        /\ order'[o].status = order[o].status
    BY <1>31, <2>1, <2>2, <2>3 DEF ReplaceWrite, TypeOK, OrderRow
  <2>6. Answer(s, Idle) /\ req'[s] = Idle
    BY <1>b, <2>4, AnswerValue DEF Finish, SerialInv
  <2>7. Found(req[s])'
    BY <2>6 DEF Found, Idle
  <2> QED
    BY <1>b, <2>1, <2>2, <2>3, <2>4, <2>5, <2>6, <2>7, <2>m, SerialWrites DEF Live, HasBill
<1>32. ASSUME NEW s \in Session, OrderDiscountRead(s)
      PROVE  SerialInv' /\ SettledTotalStays
  <2>1. PICK o \in Order, d \in Discounts :
          /\ order[o].status # "CANCELLED"
          /\ Answer(s, [Idle EXCEPT !.phase = "checked", !.op = "orderDiscount",
             !.ord = o, !.grand = Discounted(order[o].total, d)])
    BY <1>32 DEF OrderDiscountRead
  <2> DEFINE r == [Idle EXCEPT !.phase = "checked", !.op = "orderDiscount",
             !.ord = o, !.grand = Discounted(order[o].total, d)]
  <2>2. Answer(s, r) /\ req[s].phase = "idle" /\ r.phase # "idle"
    BY <1>32, <2>1 DEF OrderDiscountRead, Serve, Idle
  <2>3. /\ r.op \notin {"reopen", "void", "orderDiscount"}
        /\ r.op = "collect" => r.amt = r.grand
        /\ \A q \in Order : bill[q].paid = received[q]
        => Found(r)
    BY <1>b, <2>1 DEF Found, Idle, HasBill, Live, SerialInv, UnbilledInv
  <2>4. UNCHANGED <<order, bill, received, unnamed, merged, loose>>
    BY <1>32 DEF OrderDiscountRead
  <2> HIDE DEF r
  <2> QED
    BY <2>2, <2>3, <2>4, <1>b, SerialReads
<1>33. ASSUME NEW s \in Session, OrderDiscountSync(s)
      PROVE  SerialInv' /\ SettledTotalStays
  <2>1. At(s, "orderDiscount", "checked") /\ req[s].phase # "idle"
    BY <1>33 DEF OrderDiscountSync, At
  <2>2. Found(req[s])
    BY <1>b, <2>1, SerialWorks
  <2> QED
    BY <2>1, <2>2 DEF Found, At
<1>34. ASSUME NEW s \in Session, Fail(s)
      PROVE  SerialInv' /\ SettledTotalStays
  <2>1. /\ req[s].phase # "idle" /\ Finish(s)
        /\ UNCHANGED <<order, bill, received, unnamed, merged, loose>>
    BY <1>34 DEF Fail
  <2>2. ~Pending(req[s])
    BY <1>b, <2>1, AnswerValue DEF Serial, Pending, At, Finish, SerialInv
  <2> QED
    BY <1>b, <2>1, <2>2, SerialEnds
<1>35. ASSUME NEW s \in Session, HoldRead(s)
      PROVE  SerialInv' /\ SettledTotalStays
  <2>1. PICK o \in Order :
          /\ order[o].status = "OPEN"
          /\ Answer(s, [Idle EXCEPT !.phase = "checked", !.op = "hold", !.ord = o])
    BY <1>35 DEF HoldRead
  <2> DEFINE r == [Idle EXCEPT !.phase = "checked", !.op = "hold", !.ord = o]
  <2>2. Answer(s, r) /\ req[s].phase = "idle" /\ r.phase # "idle"
    BY <1>35, <2>1 DEF HoldRead, Serve, Idle
  <2>3. Found(r)
    BY <2>1 DEF Found, Idle
  <2>4. UNCHANGED <<order, bill, received, unnamed, merged, loose>>
    BY <1>35 DEF HoldRead
  <2> HIDE DEF r
  <2> QED
    BY <2>2, <2>3, <2>4, <1>b, SerialReads
<1>36. ASSUME NEW s \in Session, HoldWrite(s)
      PROVE  SerialInv' /\ SettledTotalStays
  <2> DEFINE o == req[s].ord
  <2>1. At(s, "hold", "checked") /\ req[s].phase # "idle" /\ ~Pending(req[s])
    BY <1>36 DEF HoldWrite, At, Pending
  <2>2. /\ req[s] \in Request /\ o \in Order /\ Found(req[s])
        /\ TypeOK /\ bill[o] \in BillRow
        /\ Live(o) => order[o].status = "COMPLETED"
        /\ ~HasBill(o) => received[o] = 0 /\ bill[o].paid = 0
        /\ ~Pending(req[s]) => bill[o].paid = received[o]
        /\ ~At(s, "pay", "inserted") => unnamed = NoOrder
    BY <1>b, <2>1, SerialWorks
  <2>3. order[o].status = "OPEN"
    BY <2>1, <2>2 DEF Found, At
  <2>m. loose' = loose /\ merged' = merged
    BY <1>36, <2>3 DEF HoldWrite, Loosened
  <2>4. Finish(s) /\ UNCHANGED <<bill, received, unnamed>> /\ unnamed = NoOrder
    BY <1>36, <2>1, <2>2 DEF HoldWrite, At
  <2>5. /\ \A p \in Order : p # o => order'[p] = order[p]
        /\ order'[o].status = order[o].status
    BY <1>36, <2>1, <2>2, <2>3 DEF HoldWrite, TypeOK, OrderRow
  <2>6. Answer(s, Idle) /\ req'[s] = Idle
    BY <1>b, <2>4, AnswerValue DEF Finish, SerialInv
  <2>7. Found(req[s])'
    BY <2>6 DEF Found, Idle
  <2> QED
    BY <1>b, <2>1, <2>2, <2>3, <2>4, <2>5, <2>6, <2>7, <2>m, SerialWrites DEF Live, HasBill
<1>37. ASSUME NEW s \in Session, MergeRead(s)
      PROVE  SerialInv' /\ SettledTotalStays
  <2>1. PICK o \in Order, q \in Order :
          /\ order[o].status = "OPEN" /\ ~HasBill(o)
          /\ Answer(s, [Idle EXCEPT !.phase = "ordered", !.op = "merge", !.ord = o,
                                    !.with = {q}])
    BY <1>37 DEF MergeRead
  <2> DEFINE r == [Idle EXCEPT !.phase = "ordered", !.op = "merge", !.ord = o,
                               !.with = {q}]
  <2>2. Answer(s, r) /\ req[s].phase = "idle" /\ r.phase # "idle"
    BY <1>37, <2>1 DEF MergeRead, Serve, Idle
  <2>3. Found(r)
    BY <2>1 DEF Found, Idle
  <2>4. UNCHANGED <<order, bill, received, unnamed, merged, loose>>
    BY <1>37 DEF MergeRead
  <2> HIDE DEF r
  <2> QED
    BY <2>2, <2>3, <2>4, <1>b, SerialReads
<1>38. ASSUME NEW s \in Session, MergeReadTarget(s)
      PROVE  SerialInv' /\ SettledTotalStays
  <2>1. /\ At(s, "merge", "ordered") /\ req[s].phase # "idle" /\ ~Pending(req[s])
        /\ UNCHANGED <<order, bill, received, unnamed, merged, loose>>
    BY <1>38 DEF MergeReadTarget, At, Pending
  <2>2. req[s] \in Request /\ Found(req[s]) /\ req[s] # Idle
    BY <1>b, <2>1, SerialWorks
  <2>3. PICK p : \/ Answer(s, [req[s] EXCEPT !.phase = "checked", !.had = Groups(p) # {}])
                 \/ Finish(s)
    BY <1>38 DEF MergeReadTarget
  <2>4. CASE Finish(s)
    BY <1>b, <2>1, <2>4, SerialEnds
  <2>5. CASE ~Finish(s)
    <3> DEFINE r == [req[s] EXCEPT !.phase = "checked", !.had = Groups(p) # {}]
    <3>1. Answer(s, r)
      BY <2>3, <2>5
    <3>2. Found(r) /\ r.phase # "idle"
      BY <2>1, <2>2 DEF Found, At, Request
    <3> HIDE DEF r
    <3> QED
      BY <1>b, <2>1, <2>2, <3>1, <3>2, SerialQuiet
  <2> QED
    BY <2>4, <2>5
<1>39. ASSUME NEW s \in Session, MergeCommit(s)
      PROVE  SerialInv' /\ SettledTotalStays
  <2> DEFINE o == req[s].ord
  <2>1. At(s, "merge", "checked") /\ req[s].phase # "idle" /\ ~Pending(req[s])
    BY <1>39 DEF MergeCommit, At, Pending
  <2>2. /\ req[s] \in Request /\ o \in Order /\ Found(req[s])
        /\ TypeOK /\ req[s] # Idle /\ unnamed = NoOrder
    BY <1>b, <2>1, SerialWorks DEF At
  <2>3. order[o].status = "OPEN" /\ ~HasBill(o)
    BY <2>1, <2>2 DEF Found, At
  <2>4. PICK p \in req[s].with, total \in Totals :
          /\ order' = [order EXCEPT ![o].status = "CANCELLED", ![p].total = total]
          /\ merged' = merged \/ merged' = merged \cup {<<o, p>>}
    BY <1>39 DEF MergeCommit
  <2>5. /\ \A q \in Order : q # o => order'[q].status = order[q].status
        /\ order'[o].status = "CANCELLED"
    BY <2>2, <2>4 DEF TypeOK, OrderRow, Request
  <2>6. loose' = loose /\ UNCHANGED <<bill, received, unnamed>> /\ Finish(s)
    BY <1>39, <2>3 DEF MergeCommit, Loosened
  <2>7. MergedInv'
    <3>1. MergedInv /\ \A g \in merged : g[1] \in Order
      BY <1>b, <2>2 DEF SerialInv, TypeOK
    <3>2. \A g \in merged : g[1] # o
      BY <2>3, <3>1 DEF MergedInv
    <3>3. \A g \in merged' : g \in merged \/ (g = <<o, p>> /\ g[1] = o)
      BY <2>4
    <3>4. \A g \in merged' : ~HasBill(g[1])' /\ order'[g[1]].status = "CANCELLED"
      BY <2>3, <2>5, <2>6, <3>1, <3>2, <3>3 DEF MergedInv, HasBill
    <3>5. \A g, f \in merged' : g[1] = f[1] => g = f
      BY <3>1, <3>2, <3>3 DEF MergedInv
    <3> QED
      BY <2>6, <3>1, <3>4, <3>5 DEF MergedInv
  <2>8. LiveBillMeansCompleted' /\ UnbilledInv'
    BY <1>b, <2>2, <2>3, <2>5, <2>6 DEF SerialInv, LiveBillMeansCompleted, UnbilledInv, Live, HasBill
  <2> QED
    BY <1>b, <2>1, <2>2, <2>6, <2>7, <2>8, SerialRest
<1>40. ASSUME NEW s \in Session, UnmergeRead(s)
      PROVE  SerialInv' /\ SettledTotalStays
  <2>1. PICK o \in Order, G \in SUBSET Order :
          /\ G \in Groups(o)
          /\ Answer(s, [Idle EXCEPT !.phase = "checked", !.op = "unmerge", !.ord = o,
                                    !.with = G])
    BY <1>40 DEF UnmergeRead, Groups
  <2> DEFINE r == [Idle EXCEPT !.phase = "checked", !.op = "unmerge", !.ord = o,
                               !.with = G]
  <2>2. Answer(s, r) /\ req[s].phase = "idle" /\ r.phase # "idle"
    BY <1>40, <2>1 DEF UnmergeRead, Serve, Idle
  <2>3. Found(r)
    BY <2>1 DEF Found, Idle, Groups
  <2>4. UNCHANGED <<order, bill, received, unnamed, merged, loose>>
    BY <1>40 DEF UnmergeRead
  <2> HIDE DEF r
  <2> QED
    BY <2>2, <2>3, <2>4, <1>b, SerialReads
<1>41. ASSUME NEW s \in Session, UnmergeCommit(s)
      PROVE  SerialInv' /\ SettledTotalStays
  <2> DEFINE o == req[s].ord
  <2>1. At(s, "unmerge", "checked") /\ req[s].phase # "idle" /\ ~Pending(req[s])
    BY <1>41 DEF UnmergeCommit, At, Pending
  <2>2. /\ req[s] \in Request /\ o \in Order /\ Found(req[s])
        /\ TypeOK /\ req[s] # Idle /\ unnamed = NoOrder
    BY <1>b, <2>1, SerialWorks DEF At
  <2>3. /\ \A p \in req[s].with : <<p, o>> \in merged
        /\ MergedInv /\ merged \subseteq Order \X Order
    BY <1>b, <2>1, <2>2 DEF Found, At, SerialInv, TypeOK
  <2>4. \A p \in req[s].with : p \in Order /\ ~HasBill(p) /\ order[p].status = "CANCELLED"
    BY <2>3 DEF MergedInv
  <2>5. /\ \A p \in Order : p \notin req[s].with => order'[p] = order[p]
        /\ merged' = merged \ {<<p, o>> : p \in req[s].with}
    BY <1>41 DEF UnmergeCommit
  <2>6. loose' = loose /\ UNCHANGED <<bill, received, unnamed>> /\ Finish(s)
    BY <1>41, <2>4 DEF UnmergeCommit, Loosened
  <2>7. MergedInv'
    <3>1. \A g \in merged' : g \in merged /\ g[1] \in Order /\ g[1] \notin req[s].with
      BY <2>3, <2>5 DEF MergedInv
    <3> QED
      BY <2>3, <2>5, <2>6, <3>1 DEF MergedInv, HasBill
  <2>8. LiveBillMeansCompleted' /\ UnbilledInv'
    BY <1>b, <2>2, <2>4, <2>5, <2>6 DEF SerialInv, LiveBillMeansCompleted, UnbilledInv, Live, HasBill
  <2> QED
    BY <1>b, <2>1, <2>2, <2>6, <2>7, <2>8, SerialRest
<1> QED
  BY <1>2, <1>3, <1>4, <1>5, <1>6, <1>7, <1>8, <1>9, <1>10, <1>11, <1>12,
      <1>13, <1>14, <1>15, <1>16, <1>17, <1>18, <1>19, <1>20, <1>21, <1>22,
      <1>23, <1>24, <1>25, <1>26, <1>27, <1>28, <1>29, <1>30, <1>31, <1>32,
      <1>33, <1>34, <1>35, <1>36, <1>37, <1>38, <1>39, <1>40, <1>41 DEF Next

LEMMA SerialStart ==
  ASSUME Init
  PROVE  SerialInv
<1>1. BInv
  BY BaseInit
<1>2. \A s \in Session : req[s] = Idle
  BY DEF Init
<1>3. SerialAloneInv /\ FoundInv
  BY <1>2, IdleFound DEF SerialAloneInv, FoundInv
<1>m. MergedInv
  BY DEF MergedInv, Init
<1>4. LiveBillMeansCompleted /\ ExactUpToInv
  BY NothingBilled DEF LiveBillMeansCompleted, Live, ExactUpToInv
<1>5. UnbilledInv
  BY NothingBilled DEF UnbilledInv, Init
<1> QED
  BY <1>1, <1>3, <1>4, <1>5, <1>m DEF SerialInv

LEMMA SerialMixStep ==
  ASSUME mix = "serial" => SerialInv, [MCNext]_<<vars, discountVars, mix>>
  PROVE  /\ (mix = "serial" => SerialInv)'
         /\ [mix = "serial" => SettledTotalStays]_vars
<1>1. CASE MCNext /\ mix = "serial"
  <2>1. Next /\ Serial
    BY <1>1 DEF MCNext, BillStep, DiscountStep
  <2> QED
    BY <1>1, <2>1, SerialStep
<1>2. CASE MCNext /\ mix # "serial"
  BY <1>2 DEF MCNext
<1>3. CASE UNCHANGED <<vars, discountVars, mix>>
  <2>1. UNCHANGED vars /\ UNCHANGED mix
    BY <1>3
  <2>2. (mix = "serial" => SerialInv)'
    BY <2>1 DEF vars, SerialInv, BInv, TypeOK, SessionInv, LiveBillMeansCompleted, Live,
        HasBill, SerialAloneInv, UnbilledInv, MergedInv, At, FoundInv, Found, ExactUpToInv, Pending
  <2> QED
    BY <2>1, <2>2
<1> QED
  BY <1>1, <1>2, <1>3

LEMMA SerialAlways == MCSpec => [](mix = "serial" => SerialInv)
<1>1. MCInit => (mix = "serial" => SerialInv)
  BY SerialStart DEF MCInit
<1>2. (mix = "serial" => SerialInv) /\ [MCNext]_<<vars, discountVars, mix>>
        => (mix = "serial" => SerialInv)'
  BY SerialMixStep
<1> QED
  BY <1>1, <1>2, PTL DEF MCSpec

\* Requests served one after the other, amounts exact: for any orders, totals and
\* discounts, whichever handler but createPayment fails half way, a bill shows
\* exactly what was received for it whenever nobody is at work.
THEOREM SerialBillsAreExactAlways == MCSpec => []SerialBillsAreExact
<1>1. (mix = "serial" => SerialInv) => SerialBillsAreExact
  <2> SUFFICES ASSUME SerialInv, \A s \in Session : req[s].phase = "idle",
                      NEW o \in Order
               PROVE  bill[o].paid = received[o]
    BY DEF SerialBillsAreExact, PaidIsReceived
  <2>1. \A s \in Session : ~Pending(req[s])
    BY DEF Pending
  <2> QED
    BY <2>1 DEF SerialInv, ExactUpToInv
<1> QED
  BY <1>1, SerialAlways, PTL

\* ... and no such request changes the totals of a settled bill: the discount of
\* one is refused, and so are edits of the lines of an order that has one.
THEOREM SerialTotalsAreFinalAlways == MCSpec => SerialTotalsAreFinal
<1>1. (mix = "serial" => SerialInv) /\ [MCNext]_<<vars, discountVars, mix>>
        => [mix = "serial" => SettledTotalStays]_vars
  BY SerialMixStep
<1> QED
  BY <1>1, SerialAlways, PTL DEF MCSpec, SerialTotalsAreFinal

=============================================================================
