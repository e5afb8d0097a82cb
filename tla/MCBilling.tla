------------------------------ MODULE MCBilling ------------------------------
(* An instance of Billing for TLC; MCDiscounts, MCKitchen and MCFloor hold more. *)
EXTENDS Billing, TLC

CONSTANTS o1, o2, s1, s2, s3

SessionSymm == Permutations({s1, s2, s3})
=============================================================================
