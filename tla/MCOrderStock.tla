----------------------------- MODULE MCOrderStock -----------------------------
(* Orders whose lines are never edited, for TLC; MCOrderEdits holds the edits. *)
EXTENDS OrderStock, TLC

CONSTANTS o1, o2, a, s1, s2

\* What can race on an order's reservation without editing its lines.
ClaimOps == {"create", "cancel", "delete", "status", "pay"}

\* The part of Next these operations are made of: nothing else is enabled.
ClaimNext == \E s \in Session :
  \/ CreateOrder(s)
  \/ ReadForCancel(s) \/ ReadForDelete(s) \/ ReadForStatus(s) \/ ReadForPay(s)
  \/ BeginCancel(s)   \/ BeginDelete(s)   \/ BeginCancelByStatus(s)
  \/ WriteStatus(s)   \/ ReadStock(s)     \/ WriteStock(s)
  \/ Commit(s)        \/ Abort(s)

ClaimSpec == Init /\ [][ClaimNext]_vars

\* Less than one request: deductions are clamped.
Scarce == [i \in Tracked |-> 1]

\* Orders and sessions are interchangeable.
Symm == Permutations({o1, o2}) \cup Permutations({s1, s2})
=============================================================================
