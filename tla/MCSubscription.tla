----------------------------- MODULE MCSubscription -----------------------------
(* Instances of Subscription for TLC. *)
EXTENDS Subscription, TLC

CONSTANTS r1, r2, p1, p2, p3, s1, s2, c1, c2

Symm == Permutations({p1, p2, p3}) \cup Permutations({s1, s2}) \cup Permutations({c1, c2})
=============================================================================
