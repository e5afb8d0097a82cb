----------------------------- MODULE MCOrderEdits -----------------------------
(* Edits of the lines of an order, in two mixes: edits that race each other and *)
(* a cancel, a delete or a payment, and requests served one after the other.    *)
EXTENDS OrderStock, TLC

CONSTANTS theOrder, scarce, ample, clerkA, clerkB

VARIABLE mix

\* Deductions of the scarce item are clamped.  No request runs out of the other.
Stock == [i \in Tracked |-> IF i = scarce THEN 1 ELSE 20]

Symm == Permutations({clerkA, clerkB})

-----------------------------------------------------------------------------
\* Two edits of orders that hold nothing but the scarce item.
Race == /\ edits' <= 2
        /\ \A s \in Session : /\ req'[s].op \in EditOps \cup
                                   {"none", "create", "cancel", "delete", "status", "pay"}
                              /\ req'[s].want[ample] = 0
        /\ \A o \in Order : \A k \in DOMAIN lines'[o] : lines'[o][k].item = scarce

\* The third edit is of one line.
Serial == /\ \A s, t \in Session : s # t => Idle \in {req'[s], req'[t]}
          /\ edits = 2 /\ edits' = 3 => \A s \in Session : req'[s].op # "replace"

MCInit == Init /\ mix \in {"race", "serial"}

MCNext == /\ UNCHANGED mix
          /\ Next
          /\ mix = "race" => Race
          /\ mix = "serial" => Serial

MCSpec == MCInit /\ [][MCNext]_<<vars, mix>>

-----------------------------------------------------------------------------
\* Requests served one after the other keep the stock exact: every piece is on the
\* shelf or in a movement, an order holds what its lines say, and a cancelled one
\* gives all of it back (inventory.service.js, called from every handler of orders).
SerialIsExact ==
  mix = "serial" => LedgerBalances /\ ReservedMatchesLines /\ CancelledReturnsStock
=============================================================================
