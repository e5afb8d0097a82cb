------------------------------- MODULE MCService -------------------------------
(* Service of a restaurant in mixes, so that their states add up instead of      *)
(* multiplying.  The floor over a pair of orders and tables: two requests at a   *)
(* time, and every operation one at a time; over three orders and tables, one    *)
(* request at a time, the operations that look after the tables.  One-click      *)
(* payment against itself and what may race with it.  Kitchen tickets against    *)
(* edits of the lines, and against payments, cancellations and status changes.   *)
EXTENDS Floor, Billing, Kitchen, TLC

\* x1, x2, x3 are the orders of Floor and the sessions of Billing; y1 and y2 the
\* sessions of Floor and Kitchen and the orders of Billing: one group of symmetries
\* serves all.
CONSTANTS x1, x2, x3, y1, y2, t1, t2, t3, o1, d1, n1, n2

VARIABLE mix

Symm == Permutations({x1, x2}) \cup Permutations({y1, y2})

\* One-click payment and what may race with it.
CollectOps == {"collect", "cancelOrder", "complete"}

-----------------------------------------------------------------------------
\* Doubt never goes away: once every table is in doubt nothing is left to check.
SomeTableSure == \E t \in Table \ floorDoubt : mix \in {"pair", "each"} => IsTable(t)

CarefulOps == {"none", "create", "cancel", "merge", "split"} \cup
              (IF mix = "pair" THEN {"pay", "move", "delete"} ELSE {})

\* A pair of tables and orders: the third does not exist.
PairInit ==
  /\ orders = [o \in Orders |-> NoRow]
  /\ group = <<>>
  /\ work = [s \in Waiter |-> NoWork]
  /\ floorDoubt = {}
  /\ table = [u \in Table |-> IF u = t3 THEN "NONE" ELSE "AVAILABLE"]

Used == {o \in Orders : Known(o) \/ \E s \in Waiter : work[s].ord = o}

OneAtATime == \A s, t \in Waiter : s # t => work'[s] = NoWork \/ work'[t] = NoWork

FloorStep == /\ mix \in {"pair", "each", "trio"} /\ UNCHANGED <<vars, kitchenVars>>
             /\ FloorNext
             /\ mix \in {"pair", "each"} => Used' \subseteq {x1, x2} /\ Len(group') <= 1
             /\ mix \in {"each", "trio"} => OneAtATime
             /\ mix = "trio" => floorDoubt' = {}
             /\ mix \in {"pair", "trio"} =>
                  /\ \A s \in Waiter : work'[s].op \in CarefulOps
                  /\ \A t \in Table : table'[t] # "RESERVED"
                  /\ \A o \in Orders : Known(o) /\ Known(o)' /\ work = work' =>
                                         orders'[o].status = orders[o].status

CollectStep == mix = "collect" /\ UNCHANGED <<floorVars, kitchenVars>> /\ Next

\* The first edit meets anything, the second has the order to itself.
Editing == /\ edits' = 2 => \A s, t \in Clerk : s # t => NoTask \in {task'[s], task'[t]}
           /\ \A o \in Tab : Exists(o) => tab'[o] = tab[o]
           /\ \A k \in DOMAIN tickets : tickets'[k].status = tickets[k].status
           /\ \A s \in Clerk : task'[s].op \notin {"pay", "cancelTicket", "cancelAll"}

\* One line is enough.
Serving == edits' = edits /\ Len(rows') <= 1

KitchenStep == /\ mix \in {"editing", "serving"} /\ UNCHANGED <<vars, floorVars>>
               /\ KitchenNext
               /\ mix = "editing" => Editing
               /\ mix = "serving" => Serving

-----------------------------------------------------------------------------
MCInit == /\ Init /\ KitchenInit
          /\ \/ mix \in {"trio", "collect", "editing", "serving"} /\ FloorInit
             \/ mix \in {"pair", "each"} /\ PairInit

MCNext == UNCHANGED mix /\ (FloorStep \/ CollectStep \/ KitchenStep)

MCSpec == MCInit /\ [][MCNext]_<<floorVars, kitchenVars, vars, mix>>

-----------------------------------------------------------------------------
\* Floor and kitchen keep their types (schema.prisma).
ServiceTypeOK == FloorTypeOK /\ KitchenTypeOK
=============================================================================
