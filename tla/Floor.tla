-------------------------------- MODULE Floor --------------------------------
(***************************************************************************)
(* Tables, the orders seated at them, and merge groups.                    *)
(*                                                                         *)
(* A table's status is a column that the handlers of                       *)
(* controllers/order.controller.js, payment.controller.js and              *)
(* table.controller.js set as they go; nothing derives it from the orders. *)
(* A handler reads the order, its table and its group, and writes what it  *)
(* read in a transaction: the tables it touches are those of its read.     *)
(***************************************************************************)
EXTENDS Integers, Sequences, FiniteSets

CONSTANTS
  Orders,    \* order ids
  Table,     \* table ids
  Waiter,    \* concurrent HTTP requests
  NullOrder, \* no order
  NoTable,   \* the tableId of an order without one
  FloorOps,  \* the operations clients issue in this instance
  MaxGroups  \* bound on the merge groups ever made

AllFloorOps == {"create", "cancel", "pay", "bill", "move", "delete", "merge", "split",
                "status", "setTable", "dropTable"}

ASSUME FloorNullAssumption  == NullOrder \notin Orders /\ NoTable \notin Table
ASSUME FloorIdAssumption    == Orders \cap (Table \cup {NoTable}) = {}
ASSUME FloorOpsAssumption   == FloorOps \subseteq AllFloorOps
ASSUME FloorBoundAssumption == MaxGroups \in Nat

VARIABLES
  table,     \* RestaurantTable.status
  orders,    \* Order rows: status, isDeleted, tableId, bill, whose lines it has
  group,     \* MergeGroup rows with their MergeGroupTable rows
  work,      \* the request a session is serving and what it read for it
  floorDoubt \* ghost: tables two requests met on, or an operation that does not
             \* look after them (see Meet)

floorVars == <<table, orders, group, work, floorDoubt>>

-----------------------------------------------------------------------------
(* Rows and values *)

\* RESERVED also stands for CLEANING; NONE is a table not yet made, or deleted.
TableStatus == {"NONE", "AVAILABLE", "OCCUPIED", "RESERVED"}

\* OPEN stands for every status but the last two; MERGED is CANCELLED with the
\* reason "Merged into order ...".
OrderStatus == {"NONE", "OPEN", "COMPLETED", "CANCELLED", "MERGED"}

\* has: the orders whose original lines are on this order
SeatedRow == [status : OrderStatus, deleted : BOOLEAN, billed : BOOLEAN,
              at : Table \cup {NoTable}, has : SUBSET Orders]

Member == [table : Table, orig : Orders]

Group == [status : {"ACTIVE", "SPLIT", "COMPLETED"}, primary : Orders,
          members : SUBSET Member]

\* at, to: tables read; other: the target order; has: the lines read of ord, or the
\* orders read of a group; grp: the group read (0: none); todo: tables read of a
\* group, or still to be released; near (ghost): all this request is about
NoWork == [op |-> "none", phase |-> "idle", ord |-> NullOrder, at |-> NoTable,
           to |-> NoTable, other |-> NullOrder, has |-> {}, grp |-> 0,
           todo |-> {}, near |-> {}]

Work == [op : AllFloorOps \cup {"none"},
         phase : {"idle", "checked", "closed", "releasing"},
         ord : Orders \cup {NullOrder}, at : Table \cup {NoTable},
         to : Table \cup {NoTable}, other : Orders \cup {NullOrder},
         has : SUBSET Orders, grp : 0..MaxGroups, todo : SUBSET Table,
         near : SUBSET (Table \cup Orders)]

FloorTypeOK ==
  /\ table \in [Table -> TableStatus]
  /\ orders \in [Orders -> SeatedRow]
  /\ group \in Seq(Group) /\ Len(group) <= MaxGroups
  /\ \A s \in Waiter : work[s] \in Work
  /\ floorDoubt \subseteq Table

NoRow == [status |-> "NONE", deleted |-> FALSE, billed |-> FALSE,
          at |-> NoTable, has |-> {}]

FloorInit ==
  /\ table = [t \in Table |-> "AVAILABLE"]
  /\ orders = [o \in Orders |-> NoRow]
  /\ group = <<>>
  /\ work = [s \in Waiter |-> NoWork]
  /\ floorDoubt = {}

-----------------------------------------------------------------------------
(* Helpers *)

Known(o) == orders[o].status # "NONE"
IsOpen(o) == orders[o].status = "OPEN"
Voided(o) == orders[o].status \in {"CANCELLED", "MERGED"}

\* Mutant: a cancelled order is not taken for closed.
Closed_Completed(o) == orders[o].status = "COMPLETED"

Closed(o) == orders[o].status = "COMPLETED" \/ Voided(o)

IsTable(t) == table[t] # "NONE"

\* Mutant: a table that exists is free.
Free_Any(t) == IsTable(t)

Free(t) == table[t] = "AVAILABLE"

Active(g)      == group[g].status = "ACTIVE"
TablesOf(g)    == {m.table : m \in group[g].members}
OriginalsOf(g) == {m.orig : m \in group[g].members}
LedBy(o)       == {g \in DOMAIN group : Active(g) /\ group[g].primary = o}
GroupsOf(o)    == {g \in DOMAIN group : Active(g) /\ o \in OriginalsOf(g)}

\* Mutant: no group is found.
FirstLedBy_None(o) == 0

\* findFirst of the active groups an order is the primary of.
FirstLedBy(o) == IF LedBy(o) = {} THEN 0
                 ELSE CHOOSE g \in LedBy(o) : \A h \in LedBy(o) : g <= h

\* Ghost: an order, and the tables a request about it may touch.
Near(o) == {o} \cup ({orders[o].at} \ {NoTable}) \cup
           UNION {TablesOf(g) : g \in LedBy(o) \cup GroupsOf(o)}

MayStart(s, op) == work[s].phase = "idle" /\ op \in FloorOps

\* Ghost: a request meets others about a table or an order of its own, and the
\* tables of both are in doubt; so are those the operation does not look after.
Meet(s, near, lost) ==
  LET met == {t \in Waiter \ {s} : work[t].near \cap near # {}}
  IN floorDoubt' = floorDoubt \cup (Table \cap (lost \cup
       IF met = {} THEN {} ELSE near \cup UNION {work[t].near : t \in met}))

Start(s, r, lost) == work' = [work EXCEPT ![s] = r] /\ Meet(s, r.near, lost)

About(op, o) == [NoWork EXCEPT !.op = op, !.phase = "checked", !.ord = o,
                   !.at = orders[o].at, !.has = orders[o].has, !.near = Near(o)]

Done(s) == work' = [work EXCEPT ![s] = NoWork]

\* An UPDATE by id fails, and with it the transaction, if the row is gone.
Found(t) == t # NoTable => IsTable(t)

\* Mutant: a group may list an order without a table.
Listable_Null(t) == Found(t)

\* MergeGroupTable.tableId is NOT NULL.
Listable(t) == t # NoTable /\ Found(t)

\* Set the status of some tables.
Mark(ts, status) ==
  [t \in Table |-> IF t \in ts THEN status ELSE table[t]]

-----------------------------------------------------------------------------
(* Seating an order *)

\* createOrder checks the table before its transaction and occupies it in it.
ReadForCreate(s) ==
  /\ MayStart(s, "create")
  /\ \E o \in Orders, t \in Table \cup {NoTable} :
       /\ ~Known(o)
       /\ \A u \in Waiter : work[u].ord # o
       /\ t # NoTable => Free(t)
       /\ Start(s, [NoWork EXCEPT !.op = "create", !.phase = "checked", !.ord = o,
                      !.at = t, !.near = {o, t} \ {NoTable}], {})
  /\ UNCHANGED <<table, orders, group>>

Create(s) ==
  /\ work[s].op = "create"
  /\ Found(work[s].at)
  /\ orders' = [orders EXCEPT ![work[s].ord] = [NoRow EXCEPT !.status = "OPEN",
                 !.at = work[s].at, !.has = {work[s].ord}]]
  /\ table' = Mark({work[s].at}, "OCCUPIED")
  /\ Done(s)
  /\ UNCHANGED <<group, floorDoubt>>

\* changeTable: only a cancelled order is refused.  It looks neither at the
\* order's other statuses nor at its group.
ReadForMove(s) ==
  /\ MayStart(s, "move")
  /\ \E o \in Orders, t \in Table :
       /\ Known(o) /\ ~Voided(o)
       /\ orders[o].at # NoTable
       /\ Free(t)
       /\ LET r == [About("move", o) EXCEPT !.to = t, !.near = Near(o) \cup {t}]
              plain == IsOpen(o) /\ ~orders[o].deleted
                       /\ LedBy(o) \cup GroupsOf(o) = {}
          IN Start(s, r, IF plain THEN {} ELSE r.near)
  /\ UNCHANGED <<table, orders, group>>

Move(s) ==
  /\ work[s].op = "move"
  /\ Found(work[s].at) /\ Found(work[s].to)
  /\ table' = [Mark({work[s].at}, "AVAILABLE") EXCEPT ![work[s].to] = "OCCUPIED"]
  /\ orders' = [orders EXCEPT ![work[s].ord].at = work[s].to]
  /\ Done(s)
  /\ UNCHANGED <<group, floorDoubt>>

-----------------------------------------------------------------------------
(* Closing an order *)

\* collectPayment refuses deleted and closed orders when it reads them.
ReadForPayAtTable(s) ==
  /\ MayStart(s, "pay")
  /\ \E o \in Orders :
       /\ IsOpen(o) /\ ~orders[o].deleted
       /\ Start(s, About("pay", o), {})
  /\ UNCHANGED <<table, orders, group>>

\* Its transaction completes the order, frees the table it read and releases the
\* group the order leads by now; a part payment only leaves a bill.
PayAtTable(s) ==
  LET o == work[s].ord
      g == FirstLedBy(o)
      ts == {work[s].at} \cup (IF g = 0 THEN {} ELSE TablesOf(g))
  IN
  /\ work[s].op = "pay"
  /\ \/ /\ \A t \in ts : Found(t)
        /\ orders' = [orders EXCEPT ![o].status = "COMPLETED", ![o].billed = TRUE]
        /\ table' = Mark(ts, "AVAILABLE")
        /\ group' = IF g = 0 THEN group
                    ELSE [group EXCEPT ![g].status = "COMPLETED"]
     \/ /\ orders' = [orders EXCEPT ![o].billed = TRUE]
        /\ UNCHANGED <<table, group>>
  /\ Done(s)
  /\ UNCHANGED floorDoubt

\* createBill bills completed orders only: one that is reopened keeps its bill.
Bill(s) ==
  /\ MayStart(s, "bill")
  /\ \E o \in Orders :
       /\ orders[o].status = "COMPLETED" /\ ~orders[o].billed
       /\ orders' = [orders EXCEPT ![o].billed = TRUE]
  /\ UNCHANGED <<table, group, work, floorDoubt>>

\* cancelOrder does not look at isDeleted.
ReadForCancel(s) ==
  /\ MayStart(s, "cancel")
  /\ \E o \in Orders :
       /\ IsOpen(o)
       /\ Start(s, About("cancel", o), IF orders[o].deleted THEN Near(o) ELSE {})
  /\ UNCHANGED <<table, orders, group>>

\* The status is claimed; the table is the one that was read.
Cancel(s) ==
  /\ work[s].op = "cancel" /\ work[s].phase = "checked"
  /\ ~Closed(work[s].ord)
  /\ Found(work[s].at)
  /\ orders' = [orders EXCEPT ![work[s].ord].status = "CANCELLED"]
  /\ table' = Mark({work[s].at}, "AVAILABLE")
  /\ work' = [work EXCEPT ![s].phase = "closed"]
  /\ UNCHANGED <<group, floorDoubt>>

\* After the transaction the group is looked up, its tables freed one by one
\* (errors are swallowed), then the group completed.
FindGroup(s) ==
  LET g == FirstLedBy(work[s].ord) IN
  /\ work[s].phase = "closed"
  /\ IF g = 0 THEN Done(s)
     ELSE work' = [work EXCEPT ![s].phase = "releasing", ![s].grp = g,
                               ![s].todo = TablesOf(g)]
  /\ UNCHANGED <<table, orders, group, floorDoubt>>

ReleaseTable(s) ==
  /\ work[s].phase = "releasing"
  /\ \E t \in work[s].todo :
       /\ table' = IF IsTable(t) THEN Mark({t}, "AVAILABLE") ELSE table
       /\ work' = [work EXCEPT ![s].todo = @ \ {t}]
  /\ UNCHANGED <<orders, group, floorDoubt>>

CompleteGroup(s) ==
  /\ work[s].phase = "releasing" /\ work[s].todo = {}
  /\ group' = [group EXCEPT ![work[s].grp].status = "COMPLETED"]
  /\ Done(s)
  /\ UNCHANGED <<table, orders, floorDoubt>>

\* deleteOrder frees the order's table, whoever sits there by now, and leaves
\* its groups alone.
ReadForDelete(s) ==
  /\ MayStart(s, "delete")
  /\ \E o \in Orders :
       /\ Known(o) /\ ~orders[o].deleted
       /\ Start(s, About("delete", o),
                IF IsOpen(o) /\ LedBy(o) \cup GroupsOf(o) = {} THEN {}
                ELSE Near(o))
  /\ UNCHANGED <<table, orders, group>>

Delete(s) ==
  /\ work[s].op = "delete"
  /\ Found(work[s].at)
  /\ orders' = [orders EXCEPT ![work[s].ord].deleted = TRUE]
  /\ table' = Mark({work[s].at}, "AVAILABLE")
  /\ Done(s)
  /\ UNCHANGED <<group, floorDoubt>>

\* updateOrderStatus never touches a table.
SetStatus(s) ==
  /\ MayStart(s, "status")
  /\ \E o \in Orders, to \in {"OPEN", "COMPLETED", "CANCELLED"} :
       /\ Known(o) /\ ~Voided(o)
       /\ orders[o].status # to
       /\ orders' = [orders EXCEPT ![o].status = to]
       /\ Meet(s, Near(o), Near(o))
  /\ UNCHANGED <<table, group, work>>

-----------------------------------------------------------------------------
(* Merging and splitting *)

\* ord is merged into other; every check is made on rows read before.
ReadForMerge(s) ==
  /\ MayStart(s, "merge")
  /\ \E o, p \in Orders :
       /\ o # p
       /\ Known(o) /\ Known(p)
       /\ ~Closed(o) /\ ~Closed(p)
       /\ ~orders[o].billed /\ ~orders[p].billed
       /\ GroupsOf(o) = {}
       /\ LET r == [About("merge", o) EXCEPT !.to = orders[p].at, !.other = p,
                      !.grp = FirstLedBy(p), !.near = Near(o) \cup Near(p)]
          IN Start(s, r, IF orders[o].deleted \/ orders[p].deleted THEN r.near
                         ELSE {})
  /\ UNCHANGED <<table, orders, group>>

\* Without a table on either side the transaction aborts.
Merge(s) ==
  LET r   == work[s]
      new == r.grp = 0
      src == [table |-> r.at, orig |-> r.ord]
      tgt == [table |-> r.to, orig |-> r.other]
  IN
  /\ r.op = "merge"
  /\ Listable(r.at)
  /\ new => Listable(r.to) /\ Len(group) < MaxGroups
  /\ group' = IF new
       THEN Append(group, [status |-> "ACTIVE", primary |-> r.other,
                           members |-> {src, tgt}])
       ELSE [group EXCEPT ![r.grp].members = @ \cup {src}]
  /\ orders' = [o \in Orders |->
       CASE o = r.ord   -> [orders[o] EXCEPT !.status = "MERGED",
                                             !.has = @ \ r.has]
         [] o = r.other -> [orders[o] EXCEPT !.has = @ \cup r.has]
         [] OTHER       -> [orders[o] EXCEPT !.has = @ \ r.has]]
  /\ Done(s)
  /\ UNCHANGED <<table, floorDoubt>>

ReadForSplit(s) ==
  /\ MayStart(s, "split")
  /\ \E g \in DOMAIN group :
       /\ Active(g)
       /\ Start(s, [NoWork EXCEPT !.op = "split", !.phase = "checked", !.grp = g,
                      !.has = OriginalsOf(g), !.todo = TablesOf(g),
                      !.near = UNION {Near(o) : o \in OriginalsOf(g)}], {})
  /\ UNCHANGED <<table, orders, group>>

\* The sources are reopened at their tables; their lines stay where they are.
\* The members are those that were read.
Split(s) ==
  LET g == work[s].grp
      back == {m \in group[g].members : /\ m.table \in work[s].todo
                                        /\ m.orig \in work[s].has
                                        /\ m.orig # group[g].primary}
      origs == {m.orig : m \in back}
      ts == {m.table : m \in back}
  IN
  /\ work[s].op = "split"
  /\ \A t \in ts : Found(t)
  /\ orders' = [o \in Orders |-> IF o \notin origs THEN orders[o]
                                 ELSE [orders[o] EXCEPT !.status = "OPEN"]]
  /\ table' = Mark(ts, "OCCUPIED")
  /\ group' = [group EXCEPT ![g].status = "SPLIT"]
  /\ Done(s)
  /\ UNCHANGED floorDoubt

-----------------------------------------------------------------------------
(* table.controller.js, and failures *)

\* updateTableStatus sets whatever status it is given.
SetTable(s) ==
  /\ MayStart(s, "setTable")
  /\ \E t \in Table, to \in TableStatus \ {"NONE"} :
       /\ IsTable(t) /\ table[t] # to
       /\ table' = Mark({t}, to)
       /\ Meet(s, {t}, {t})
  /\ UNCHANGED <<orders, group, work>>

\* deleteTable counts the open orders, then deletes.
ReadForDropTable(s) ==
  /\ MayStart(s, "dropTable")
  /\ \E t \in Table :
       /\ IsTable(t)
       /\ \A o \in Orders : orders[o].at = t /\ ~orders[o].deleted
                             => ~Known(o) \/ Closed(o)
       /\ Start(s, [NoWork EXCEPT !.op = "dropTable", !.phase = "checked",
                      !.at = t, !.near = {t}], {})
  /\ UNCHANGED <<table, orders, group>>

\* Orders lose the table (SET NULL), a group that lists it forbids it (RESTRICT).
DropTable(s) ==
  LET t == work[s].at IN
  /\ work[s].op = "dropTable"
  /\ IsTable(t)
  /\ \A g \in DOMAIN group : t \notin TablesOf(g)
  /\ table' = Mark({t}, "NONE")
  /\ orders' = [o \in Orders |-> IF orders[o].at # t THEN orders[o]
                                 ELSE [orders[o] EXCEPT !.at = NoTable]]
  /\ Done(s)
  /\ UNCHANGED <<group, floorDoubt>>

\* A check of the transaction fails, it rolls back, or the process dies.  What
\* cancelOrder has not yet released when it dies stays as it is.
Abandon(s) ==
  /\ work[s].phase # "idle"
  /\ Done(s)
  /\ floorDoubt' = IF work[s].phase = "checked" THEN floorDoubt
                   ELSE floorDoubt \cup (Table \cap work[s].near)
  /\ UNCHANGED <<table, orders, group>>

-----------------------------------------------------------------------------
FloorNext == \E s \in Waiter :
  \/ ReadForCreate(s) \/ Create(s) \/ ReadForMove(s) \/ Move(s)
  \/ ReadForPayAtTable(s) \/ PayAtTable(s) \/ Bill(s) \/ ReadForCancel(s) \/ Cancel(s)
  \/ FindGroup(s) \/ ReleaseTable(s) \/ CompleteGroup(s)
  \/ ReadForDelete(s) \/ Delete(s) \/ SetStatus(s)
  \/ ReadForMerge(s) \/ Merge(s) \/ ReadForSplit(s) \/ Split(s)
  \/ SetTable(s) \/ ReadForDropTable(s) \/ DropTable(s) \/ Abandon(s)

FloorSpec == FloorInit /\ [][FloorNext]_floorVars

-----------------------------------------------------------------------------
(* Properties *)

SittingAt(t) == {o \in Orders : IsOpen(o) /\ ~orders[o].deleted /\ orders[o].at = t}

InGroup(t) == \E g \in DOMAIN group : Active(g) /\ t \in TablesOf(g)

Busy(t) == \E s \in Waiter : t \in work[s].near

\* A table is occupied exactly while an open order sits at it or it belongs to a
\* group that is neither split nor paid: after every sequence of creations,
\* transfers, payments, cancellations, deletions, merges and splits, and whatever
\* happens at the same time at other tables.  In doubt are the tables of two
\* requests that met on a table or an order, and those of the operations that do
\* not look after them: a status set by hand on a table or an order, the transfer,
\* deletion or merge of an order that is closed, deleted or in a group, a death
\* inside a release.
OccupiedIffSeated ==
  \A t \in Table \ floorDoubt :
     IsTable(t) /\ ~Busy(t) =>
       (table[t] = "OCCUPIED" <=> SittingAt(t) # {} \/ InGroup(t))

\* With the same exceptions two open orders never sit at one table.
OneOrderPerTable ==
  \A t \in Table \ floorDoubt : ~Busy(t) => Cardinality(SittingAt(t)) <= 1

\* An order that was merged into another keeps no lines, so that nothing the
\* guests ordered is left on a cancelled order where nobody bills it.
NothingStranded ==
  \A o \in Orders :
     orders[o].status = "MERGED" /\ orders[o].at \in Table \ floorDoubt
       => orders[o].has = {}

\* What tables, orders and groups say of each other: a table is taken exactly while
\* somebody has it, and by one order, and no merged order holds what was ordered.
FloorIsTrue == OccupiedIffSeated /\ OneOrderPerTable /\ NothingStranded
=============================================================================
