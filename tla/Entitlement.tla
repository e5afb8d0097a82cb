------------------------------ MODULE Entitlement ------------------------------
(***************************************************************************)
(* What buying a subscription promises a restaurant: every payment it      *)
(* makes adds one billing cycle, once, to the time it may use the POS,     *)
(* counted from the day its current period runs out, or from today when it *)
(* has run out already (utils/subscription.js and the business rule of     *)
(* services/razorpay.service.js).                                          *)
(***************************************************************************)
EXTENDS Integers

CONSTANTS Restaurants, Payments, Cycle

VARIABLES
  today,
  until,   \* the last day a restaurant has paid for
  used     \* the payments that have been turned into time

vars == <<today, until, used>>

Init == today \in Nat /\ until \in [Restaurants -> Nat] /\ used = {}

Later(a, b) == IF a > b THEN a ELSE b

Buy(r, p) ==
  /\ p \in Payments \ used
  /\ used' = used \cup {p}
  /\ until' = [until EXCEPT ![r] = Later(until[r], today) + Cycle]
  /\ UNCHANGED today

NextDay == today' = today + 1 /\ UNCHANGED <<until, used>>

Next == NextDay \/ \E r \in Restaurants, p \in Payments : Buy(r, p)

Spec == Init /\ [][Next]_vars
=============================================================================
