------------------------------ MODULE Reservation ------------------------------
(***************************************************************************)
(* What services/inventory.service.js promises about one order's stock, in *)
(* its header: the order-level claims prevent a double deduction and a     *)
(* double restore, and a restore adds back exactly what was deducted.      *)
(*                                                                         *)
(* An order reserves once, some non-positive quantity of each item, and    *)
(* releases at most once, which brings its net movement back to zero.      *)
(***************************************************************************)
EXTENDS Integers

CONSTANTS Order, Item

VARIABLES
  claim,  \* how far the order's reservation has come
  net     \* net quantity the order's movements applied to each item's stock

vars == <<claim, net>>

Init ==
  /\ claim = [o \in Order |-> "none"]
  /\ net = [o \in Order |-> [i \in Item |-> 0]]

Reserve(o) ==
  /\ claim[o] = "none"
  /\ claim' = [claim EXCEPT ![o] = "held"]
  /\ net' = [net EXCEPT ![o] = net'[o]]
  /\ \A i \in Item : net'[o][i] <= 0

Release(o) ==
  /\ claim[o] = "held"
  /\ claim' = [claim EXCEPT ![o] = "released"]
  /\ net' = [net EXCEPT ![o] = [i \in Item |-> 0]]

Next == \E o \in Order : Reserve(o) \/ Release(o)

Spec == Init /\ [][Next]_vars
=============================================================================
