---------------------------- MODULE FloorProofs ----------------------------
(***************************************************************************)
(* Theorems of the floor: that tables, orders and merge groups say the     *)
(* same of each other, whatever requests are at work.                      *)
(*                                                                         *)
(* FloorIsTrue is not inductive: it says nothing of a table that a request *)
(* is about, nor of what the request has read and will write.  FloorInv    *)
(* adds that what a request read still holds unless its tables are in      *)
(* doubt (ReadInv), that two requests about the same thing are both in     *)
(* doubt (MeetInv), that what an order of a request can touch is the       *)
(* request's (ReachInv), and how groups, members and tables correspond.    *)
(*                                                                         *)
(* Every commit changes only what is near its request (Touch), so one      *)
(* lemma (CommitStep) keeps the invariant away from it, and what is left   *)
(* for each handler is what it does at its own tables when nobody else is  *)
(* about them (Local).  A request that starts is the subject of StartStep. *)
(***************************************************************************)
EXTENDS Floor, FiniteSetTheorems, WellFoundedInduction, TLAPS

-----------------------------------------------------------------------------
(* The inductive invariant *)

Sure == Table \ floorDoubt

\* All the tables of a request are in doubt.
Doomed(s) == work[s].near \cap Table \subseteq floorDoubt

\* A cancellation that has closed its order but not yet released its group.
Closing(s) == work[s].phase \in {"closed", "releasing"}

Seated(o) == IsOpen(o) /\ ~orders[o].deleted

AboutOrder == {"create", "move", "pay", "cancel", "delete", "merge"}

\* The rows: what is not known is nowhere and in no group, whose members include its
\* primary order.
RowsInv ==
  /\ FloorTypeOK /\ DOMAIN work = Waiter
  /\ \A o \in Orders : ~Known(o) => orders[o].at = NoTable
  /\ \A g \in DOMAIN group :
       group[g].primary \in OriginalsOf(g) /\ \A m \in group[g].members : Known(m.orig)

\* What a request holds are the orders, tables and groups it is about.
Holds(s) ==
  /\ work[s].phase = "idle" <=> work[s].op = "none"
  /\ work[s].phase = "idle" => work[s] = NoWork
  /\ work[s].near \subseteq Table \cup Orders
  /\ Closing(s) => work[s].op = "cancel"
  /\ work[s].op \in AboutOrder =>
       /\ work[s].ord \in Orders \cap work[s].near
       /\ work[s].at \in (Table \cap work[s].near) \cup {NoTable}
       /\ work[s].op # "create" => Known(work[s].ord)
  /\ work[s].op = "create" =>
       /\ ~Known(work[s].ord)
       /\ \A u \in Waiter \ {s} : work[u].ord # work[s].ord
  /\ work[s].op = "move" => work[s].to \in Table \cap work[s].near /\ work[s].at # NoTable
  /\ work[s].op = "merge" =>
       /\ work[s].other \in Orders \cap work[s].near /\ Known(work[s].other)
       /\ work[s].ord # work[s].other
       /\ work[s].to \in (Table \cap work[s].near) \cup {NoTable}
       /\ work[s].grp # 0 =>
            /\ work[s].grp \in DOMAIN group
            /\ group[work[s].grp].primary = work[s].other
  /\ work[s].op = "split" =>
       /\ work[s].grp \in DOMAIN group
       /\ group[work[s].grp].primary \in work[s].near
       /\ work[s].todo \subseteq work[s].near
       /\ work[s].has \subseteq work[s].near
  /\ work[s].op = "dropTable" => work[s].at \in Table /\ work[s].near = {work[s].at}
  /\ work[s].phase = "releasing" =>
       /\ work[s].grp \in DOMAIN group
       /\ group[work[s].grp].primary = work[s].ord
       /\ work[s].todo \subseteq TablesOf(work[s].grp)
       /\ work[s].todo \subseteq work[s].near \cup floorDoubt

HoldsInv == \A s \in Waiter : Holds(s)

\* Who is about the same table or order is in doubt altogether.
MeetInv ==
  \A s, u \in Waiter :
    s # u /\ work[s].near \cap work[u].near # {} => Doomed(s) /\ Doomed(u)

\* An order of a set is at a table of it and leads groups of such tables, but for
\* tables in doubt.
Reach(N) ==
  \A o \in Orders \cap N :
    /\ orders[o].at \in N \cup floorDoubt \cup {NoTable}
    /\ \A g \in LedBy(o) : TablesOf(g) \subseteq N \cup floorDoubt

ReachInv == \A s \in Waiter : Reach(work[s].near)

\* What a request read still holds.
Reads(s) ==
  LET w == work[s]
      o == work[s].ord
  IN
  /\ w.op = "create" /\ w.at \in Sure => table[w.at] = "AVAILABLE"
  /\ w.op \in AboutOrder \ {"create"} => orders[o].at = w.at
  /\ w.op \in {"move", "pay", "delete", "merge"} => Seated(o)
  /\ w.op \in {"move", "delete", "merge"} => GroupsOf(o) = {}
  /\ w.op = "move" /\ w.to \in Sure => table[w.to] = "AVAILABLE"
  /\ w.op = "merge" => /\ Seated(w.other)
                       /\ orders[w.other].at = w.to
                       /\ w.grp = FirstLedBy(w.other)
                       /\ orders[o].has \subseteq w.has
  /\ w.op = "cancel" /\ w.phase = "checked" => Seated(o)
  /\ Closing(s) => orders[o].status = "CANCELLED"
  /\ w.phase = "closed" /\ w.at \in Sure /\ IsTable(w.at) => table[w.at] = "AVAILABLE"
  /\ w.phase = "releasing" =>
       /\ w.grp = FirstLedBy(o) /\ Active(w.grp)
       /\ \A t \in Sure \cap TablesOf(w.grp) :
            IsTable(t) /\ t \notin w.todo => table[t] = "AVAILABLE"
  /\ w.op = "split" => /\ Active(w.grp)
                       /\ TablesOf(w.grp) \subseteq w.todo
                       /\ OriginalsOf(w.grp) \subseteq w.has
  /\ w.op = "dropTable" => SittingAt(w.at) = {}

ReadInv == \A s \in Waiter : ~Doomed(s) => Reads(s)

\* A member of an active group.
MemberOK(g, m) ==
  /\ m.table \in Sure => orders[m.orig].at = m.table
  /\ m.table \notin Sure => orders[m.orig].at \in floorDoubt \cup {NoTable}
  /\ m.orig # group[g].primary /\ m.table \in Sure =>
       \A s \in Waiter : m.orig \in work[s].near => work[s].op = "split" /\ work[s].grp = g

MemberInv ==
  \A g \in DOMAIN group : Active(g) => \A m \in group[g].members : MemberOK(g, m)

\* A member of an active group whose table is not in doubt.
SureMember(g, m) ==
  /\ SittingAt(m.table) \subseteq {m.orig}
  /\ \A h \in DOMAIN group : Active(h) =>
       \A n \in group[h].members : n.table = m.table => h = g /\ n = m
  /\ \A h \in LedBy(group[g].primary) : g <= h
  /\ m.orig # group[g].primary =>
       orders[m.orig].status = "MERGED" /\ ~orders[m.orig].deleted /\ LedBy(m.orig) = {}
  /\ m.orig = group[g].primary =>
       \/ Seated(m.orig)
       \/ \E s \in Waiter : Closing(s) /\ work[s].ord = m.orig

SureMemberInv ==
  \A g \in DOMAIN group : Active(g) =>
    \A m \in group[g].members : m.table \in Sure => SureMember(g, m)

\* A table of a group that is being released.
Released(t) ==
  /\ table[t] = "AVAILABLE"
  /\ \E s \in Waiter, g \in DOMAIN group :
       /\ Closing(s) /\ t \in work[s].near
       /\ Active(g) /\ group[g].primary = work[s].ord /\ t \in TablesOf(g)

TableOK(t) ==
  IsTable(t) =>
    \/ table[t] = "OCCUPIED" <=> SittingAt(t) # {} \/ InGroup(t)
    \/ Released(t)

SeatOK(t) == \A o, p \in SittingAt(t) : o = p

TableInv == \A t \in Sure : TableOK(t) /\ SeatOK(t)

FloorInv ==
  /\ RowsInv /\ HoldsInv /\ MeetInv /\ ReachInv /\ ReadInv
  /\ MemberInv /\ SureMemberInv /\ TableInv /\ NothingStranded

-----------------------------------------------------------------------------

\* What the rows are, one fact for each thing the proofs look at.
LEMMA RowsAre ==
  ASSUME RowsInv
  PROVE  /\ DOMAIN work = Waiter /\ floorDoubt \subseteq Table
         /\ DOMAIN table = Table /\ DOMAIN orders = Orders
         /\ \A t \in Table : table[t] \in TableStatus
         /\ \A o \in Orders : /\ orders[o].at \in Table \cup {NoTable}
                              /\ orders[o].status \in OrderStatus /\ orders[o].has \subseteq Orders
                              /\ ~Known(o) => orders[o].at = NoTable
         /\ group \in Seq(Group) /\ Len(group) \in Nat /\ DOMAIN group = 1..Len(group)
         /\ DOMAIN group \subseteq 0..MaxGroups
         /\ \A g \in DOMAIN group :
              /\ group[g].primary \in OriginalsOf(g) /\ group[g].primary \in Orders
              /\ TablesOf(g) \subseteq Table /\ OriginalsOf(g) \subseteq Orders
              /\ \A m \in group[g].members :
                   /\ m.table \in Table /\ m.orig \in Orders /\ Known(m.orig)
                   /\ m = [table |-> m.table, orig |-> m.orig]
<1>1. /\ DOMAIN work = Waiter /\ floorDoubt \subseteq Table
      /\ DOMAIN table = Table /\ DOMAIN orders = Orders
      /\ \A t \in Table : table[t] \in TableStatus
      /\ group \in Seq(Group)
  BY DEF RowsInv, FloorTypeOK
<1>2. \A o \in Orders : orders[o] \in SeatedRow
  BY DEF RowsInv, FloorTypeOK
<1>3. \A o \in Orders : /\ orders[o].at \in Table \cup {NoTable}
                        /\ orders[o].status \in OrderStatus /\ orders[o].has \subseteq Orders
                        /\ ~Known(o) => orders[o].at = NoTable
  BY <1>2 DEF RowsInv, SeatedRow
<1>4. Len(group) \in Nat /\ DOMAIN group = 1..Len(group) /\ \A g \in DOMAIN group : group[g] \in Group
  BY <1>1
<1>5. ASSUME NEW g \in DOMAIN group, NEW m \in group[g].members
      PROVE  /\ m.table \in Table /\ m.orig \in Orders /\ Known(m.orig)
             /\ m = [table |-> m.table, orig |-> m.orig]
  <2>1. m \in Member
    BY <1>4 DEF Group
  <2>2. QED
    BY <2>1 DEF Member, RowsInv
<1>6. ASSUME NEW g \in DOMAIN group
      PROVE  /\ group[g].primary \in OriginalsOf(g) /\ group[g].primary \in Orders
             /\ TablesOf(g) \subseteq Table /\ OriginalsOf(g) \subseteq Orders
  <2>1. group[g].primary \in OriginalsOf(g)
    BY DEF RowsInv
  <2>2. QED
    BY <1>5, <2>1 DEF TablesOf, OriginalsOf
<1>7. DOMAIN group \subseteq 0..MaxGroups
  BY <1>4, FloorBoundAssumption DEF RowsInv, FloorTypeOK
<1>8. QED
  BY <1>1, <1>3, <1>4, <1>5, <1>6, <1>7

\* The same after a step.
LEMMA RowsWillBe ==
  ASSUME RowsInv'
  PROVE  /\ floorDoubt' \subseteq Table
         /\ \A o \in Orders : orders'[o].at \in Table \cup {NoTable}
         /\ \A g \in DOMAIN group' :
              /\ TablesOf(g)' \subseteq Table
              /\ \A m \in group'[g].members : m.table \in Table /\ m.orig \in Orders
<1>1. /\ floorDoubt' \subseteq Table
      /\ \A o \in Orders : orders'[o] \in SeatedRow
      /\ \A g \in DOMAIN group' : group'[g] \in Group
  BY DEF RowsInv, FloorTypeOK
<1>2. \A o \in Orders : orders'[o].at \in Table \cup {NoTable}
  BY <1>1 DEF SeatedRow
<1>3. \A g \in DOMAIN group' : \A m \in group'[g].members : m.table \in Table /\ m.orig \in Orders
  BY <1>1 DEF Group, Member
<1>4. QED
  BY <1>1, <1>2, <1>3 DEF TablesOf

\* The first group an order leads is one it leads, and none is before it.
LEMMA FirstLed ==
  ASSUME RowsInv, NEW o
  PROVE  /\ LedBy(o) = {} => FirstLedBy(o) = 0
         /\ LedBy(o) # {} => /\ FirstLedBy(o) \in LedBy(o)
                             /\ \A h \in LedBy(o) : FirstLedBy(o) <= h
         /\ \A g \in LedBy(o) : (\A h \in LedBy(o) : g <= h) => FirstLedBy(o) = g
<1>1. LedBy(o) \subseteq Nat
  BY RowsAre DEF LedBy
<1>2. LedBy(o) # {} => \E g \in LedBy(o) : \A h \in LedBy(o) : g <= h
  <2>1. ASSUME LedBy(o) # {} PROVE \E x \in LedBy(o) : \A y \in LedBy(o) : ~ (<<y, x>> \in OpToRel(<, Nat))
    BY <1>1, <2>1, NatLessThanWellFounded, WFMin
  <2>2. \A x, y \in Nat : ~ (<<y, x>> \in OpToRel(<, Nat)) => x <= y
    BY DEF OpToRel
  <2>3. QED
    BY <1>1, <2>1, <2>2
<1>3. QED
  BY <1>1, <1>2 DEF FirstLedBy

-----------------------------------------------------------------------------
(* A step that changes what is near N only *)

\* The rows.
Touch(N) ==
  /\ floorDoubt \subseteq floorDoubt'
  /\ \A t \in Table : t \notin N \cup floorDoubt => table'[t] = table[t]
  /\ \A o \in Orders \ N :
       /\ orders'[o].status = orders[o].status /\ orders'[o].deleted = orders[o].deleted
       /\ orders'[o].has \subseteq orders[o].has
       /\ \/ orders'[o].at = orders[o].at
          \/ /\ orders'[o].at = NoTable /\ orders[o].at \in N
             /\ \A g \in DOMAIN group : orders[o].at \notin TablesOf(g)
  /\ \A o \in Orders \cap N :
       \/ orders'[o].at = orders[o].at
       \/ /\ orders'[o].at \in N \cup {NoTable}
          /\ N \cap Table \subseteq floorDoubt' \/ GroupsOf(o) = {}
  /\ DOMAIN group \subseteq DOMAIN group'
  /\ \A g \in DOMAIN group :
       /\ group'[g].primary = group[g].primary
       /\ group[g].primary \notin N => group'[g] = group[g]
       /\ group[g].members \subseteq group'[g].members
       /\ \A m \in group'[g].members \ group[g].members : m.orig \in N /\ m.table \in N
       /\ Active(g)' => Active(g)
  /\ \A g \in DOMAIN group' \ DOMAIN group :
       /\ group'[g].primary \in N
       /\ \A m \in group'[g].members : m.orig \in N /\ m.table \in N
       /\ \A h \in DOMAIN group : h < g

\* The requests: N is what a request of s is about, or meets and covers all it should.
Serves(s, N) ==
  /\ N \subseteq Table \cup Orders
  /\ work[s].near \subseteq N
  /\ \A u \in Waiter \ {s} : work'[u] = work[u]
  /\ \/ work'[s] = NoWork
     \/ /\ work'[s].near = N /\ work[s].near = N /\ work'[s].ord = work[s].ord
        /\ work'[s].op = "cancel" /\ work[s].op = "cancel"
  /\ \A u \in Waiter \ {s} : work[u].near \cap N # {} => Doomed(u)' /\ N \cap Table \subseteq floorDoubt'
  /\ \A o \in Orders \cap N :
       /\ orders[o].at \in N \cup floorDoubt' \cup {NoTable}
       /\ \A g \in LedBy(o) : TablesOf(g) \subseteq N \cup floorDoubt'
  /\ \A g \in DOMAIN group : Active(g) => \A m \in group[g].members :
       m.orig \in N /\ m.orig # group[g].primary /\ m.table \in Sure' \ N => group[g].primary \in N
  /\ \A o \in Orders : ~Known(o) /\ Known(o)' => work[s].op = "create" /\ o = work[s].ord
  /\ \A o \in Orders : Known(o) => Known(o)'

\* What is left to show of it when not all of N is in doubt.
Local(s, N) ==
  /\ ~Doomed(s)' => Reads(s)'
  /\ \A o \in Orders \cap N :
       orders'[o].status = "MERGED" /\ orders'[o].at \in Sure' => orders'[o].has = {}
  /\ \A t \in Sure' \cap N : TableOK(t)' /\ SeatOK(t)'
  /\ \A g \in DOMAIN group' : Active(g)' => \A m \in group'[g].members :
       /\ m.table \in Sure' \cap N => SureMember(g, m)'
       /\ m \in (IF g \in DOMAIN group THEN group[g].members ELSE {}) \/ MemberOK(g, m)'

Commits(s, N) ==
  /\ Touch(N) /\ Serves(s, N) /\ RowsInv' /\ Holds(s)'
  /\ N \cap Table \subseteq floorDoubt' \/ Local(s, N)

\* Who sits at a table that is neither in N nor in doubt stays, and nobody comes.
LEMMA CommitSitting ==
  ASSUME FloorInv, NEW s \in Waiter, NEW N, Commits(s, N), NEW t \in Sure' \ N
  PROVE  SittingAt(t)' = SittingAt(t)
<1>1. t \in Table /\ t \notin floorDoubt' /\ t # NoTable /\ t \notin N
  BY FloorNullAssumption DEF Sure
<1>2. ASSUME NEW o \in Orders \cap N PROVE orders[o].at # t /\ orders'[o].at # t
  BY <1>1, <1>2 DEF Commits, Touch, Serves
<1>3. ASSUME NEW o \in Orders \ N
      PROVE  /\ orders'[o].status = orders[o].status /\ orders'[o].deleted = orders[o].deleted
             /\ orders[o].at = t <=> orders'[o].at = t
  BY <1>1, <1>3 DEF Commits, Touch
<1>4. QED
  BY <1>2, <1>3 DEF SittingAt, IsOpen

\* The groups that list such a table stay as they are.
LEMMA CommitLists ==
  ASSUME FloorInv, NEW s \in Waiter, NEW N, Commits(s, N), NEW t \in Sure' \ N
  PROVE  /\ \A g \in DOMAIN group' : Active(g)' => \A m \in group'[g].members : m.table = t =>
              /\ g \in DOMAIN group /\ m \in group[g].members /\ Active(g)
              /\ group'[g] = group[g] /\ group[g].primary \notin N
         /\ \A g \in DOMAIN group : Active(g) => \A m \in group[g].members : m.table = t =>
              g \in DOMAIN group' /\ group'[g] = group[g] /\ group[g].primary \notin N
         /\ InGroup(t)' <=> InGroup(t)
<1>1. t \in Table /\ t \notin floorDoubt' /\ t \notin N
  BY DEF Sure
<1>2. ASSUME NEW g \in DOMAIN group, Active(g), NEW m \in group[g].members, m.table = t
      PROVE  group[g].primary \notin N
  <2>1. group[g].primary \in Orders
    BY RowsAre DEF FloorInv, OriginalsOf
  <2>2. g \in LedBy(group[g].primary) /\ t \in TablesOf(g)
    BY <1>2 DEF LedBy, TablesOf
  <2>3. QED
    BY <1>1, <2>1, <2>2 DEF Commits, Serves
<1>3. ASSUME NEW g \in DOMAIN group, Active(g), NEW m \in group[g].members, m.table = t
      PROVE  g \in DOMAIN group' /\ group'[g] = group[g] /\ group[g].primary \notin N
  BY <1>2, <1>3 DEF Commits, Touch
<1>4. ASSUME NEW g \in DOMAIN group', Active(g)', NEW m \in group'[g].members, m.table = t
      PROVE  /\ g \in DOMAIN group /\ m \in group[g].members /\ Active(g)
             /\ group'[g] = group[g] /\ group[g].primary \notin N
  <2>1. g \in DOMAIN group
    BY <1>1, <1>4 DEF Commits, Touch
  <2>2. m \in group[g].members /\ Active(g)
    BY <1>1, <1>4, <2>1 DEF Commits, Touch
  <2>3. QED
    BY <1>3, <1>4, <2>1, <2>2
<1>5. InGroup(t)' <=> InGroup(t)
  BY <1>3, <1>4 DEF InGroup, TablesOf, Active
<1>6. QED
  BY <1>3, <1>4, <1>5

\* An order outside N leads the same groups after the step.
LEMMA CommitLed ==
  ASSUME FloorInv, NEW s \in Waiter, NEW N, Commits(s, N), NEW o, o \notin N
  PROVE  /\ LedBy(o)' = LedBy(o) /\ FirstLedBy(o)' = FirstLedBy(o)
         /\ \A g \in DOMAIN group : group[g].primary = o => group'[g] = group[g]
<1>1. \A g \in DOMAIN group : group[g].primary = o => g \in DOMAIN group' /\ group'[g] = group[g]
  BY DEF Commits, Touch
<1>2. \A g \in DOMAIN group' : group'[g].primary = o => g \in DOMAIN group /\ group[g].primary = o
  BY DEF Commits, Touch
<1>3. LedBy(o)' = LedBy(o)
  BY <1>1, <1>2 DEF LedBy, Active
<1>4. QED
  BY <1>1, <1>3 DEF FirstLedBy

\* Each part of the invariant is kept: the tables,
LEMMA CommitTables ==
  ASSUME FloorInv, NEW s \in Waiter, NEW N, Commits(s, N)
  PROVE  TableInv'
<1> SUFFICES ASSUME NEW t \in Sure' PROVE TableOK(t)' /\ SeatOK(t)'
  BY DEF TableInv
<1>1. CASE t \in N
  BY <1>1 DEF Commits, Local, Sure
<1>2. CASE t \notin N
  <2>1. t \in Sure /\ table'[t] = table[t]
    BY <1>2 DEF Commits, Touch, Sure
  <2>2. SittingAt(t)' = SittingAt(t) /\ (InGroup(t)' <=> InGroup(t))
    BY <1>2, CommitSitting, CommitLists
  <2>3. Released(t) => Released(t)'
    <3>1. SUFFICES ASSUME Released(t)
                   PROVE  \E u \in Waiter, g \in DOMAIN group' :
                            /\ Closing(u)' /\ t \in work'[u].near
                            /\ Active(g)' /\ group'[g].primary = work'[u].ord /\ t \in TablesOf(g)'
      BY <2>1 DEF Released
    <3>2. PICK u \in Waiter, g \in DOMAIN group :
             /\ Closing(u) /\ t \in work[u].near
             /\ Active(g) /\ group[g].primary = work[u].ord /\ t \in TablesOf(g)
      BY <3>1 DEF Released
    <3>3. u # s /\ work'[u] = work[u]
      BY <1>2, <3>2 DEF Commits, Serves
    <3>4. g \in DOMAIN group' /\ group'[g] = group[g]
      BY <1>2, <3>2, CommitLists DEF TablesOf
    <3>5. QED
      BY <3>2, <3>3, <3>4 DEF Closing, Active, TablesOf
  <2>4. TableOK(t) /\ SeatOK(t)
    BY <2>1 DEF FloorInv, TableInv
  <2>5. TableOK(t)'
    BY <2>1, <2>2, <2>3, <2>4 DEF TableOK, IsTable
  <2>6. SeatOK(t)'
    BY <2>2, <2>4 DEF SeatOK
  <2>7. QED
    BY <2>5, <2>6
<1>3. QED
  BY <1>1, <1>2

\* the members of a group whose tables are not in doubt,
LEMMA CommitSureMember ==
  ASSUME FloorInv, NEW s \in Waiter, NEW N, Commits(s, N)
  PROVE  SureMemberInv'
<1> SUFFICES ASSUME NEW g \in DOMAIN group', Active(g)', NEW m \in group'[g].members,
                    m.table \in Sure'
             PROVE  SureMember(g, m)'
  BY DEF SureMemberInv
<1>1. CASE m.table \in N
  BY <1>1 DEF Commits, Local, Sure
<1>2. CASE m.table \notin N
  <2>1. /\ g \in DOMAIN group /\ m \in group[g].members /\ Active(g)
        /\ group'[g] = group[g] /\ group[g].primary \notin N
    BY <1>2, CommitLists
  <2>2. m.table \in Sure
    BY DEF Commits, Touch, Sure
  <2>3. SureMember(g, m)
    BY <2>1, <2>2 DEF FloorInv, SureMemberInv
  <2> DEFINE p == group[g].primary
  <2>4. SittingAt(m.table)' \subseteq {m.orig}
    BY <1>2, <2>3, CommitSitting DEF SureMember
  <2>5. \A h \in DOMAIN group' : Active(h)' =>
          \A n \in group'[h].members : n.table = m.table => h = g /\ n = m
    <3>1. PICK t : t = m.table
      OBVIOUS
    <3>2. \A h \in DOMAIN group' : Active(h)' => \A n \in group'[h].members : n.table = t =>
            h \in DOMAIN group /\ n \in group[h].members /\ Active(h)
      BY <1>2, <3>1, CommitLists
    <3>3. QED
      BY <2>3, <3>1, <3>2 DEF SureMember
  <2>6. \A q : q = group'[g].primary => \A h \in LedBy(q)' : g <= h
    BY <2>1, <2>3, CommitLed DEF SureMember
  <2>7. m.orig \notin N \/ m.orig = p
    BY <1>2, <2>1 DEF Commits, Serves
  <2>8. m.orig \in Orders \ N /\ p = group'[g].primary
    BY <2>1, <2>7, RowsAre DEF FloorInv
  <2>9. m.orig # p => /\ orders'[m.orig].status = "MERGED" /\ ~orders'[m.orig].deleted
                      /\ LedBy(m.orig)' = {}
    BY <2>3, <2>8, CommitLed DEF SureMember, Commits, Touch
  <2>10. m.orig = p => Seated(m.orig)' \/ \E u \in Waiter : Closing(u)' /\ work'[u].ord = m.orig
    <3>1. SUFFICES ASSUME m.orig = p, NEW u \in Waiter, Closing(u), work[u].ord = m.orig
                   PROVE  work'[u] = work[u]
      BY <2>3, <2>8 DEF SureMember, Commits, Touch, Seated, IsOpen, Closing
    <3>2. m.orig \in work[u].near
      BY <3>1 DEF FloorInv, HoldsInv, Holds, AboutOrder
    <3>3. QED
      BY <2>8, <3>2 DEF Commits, Serves
  <2>11. SUFFICES ASSUME NEW q, q = group'[g].primary
                  PROVE  /\ \A h \in LedBy(q)' : g <= h
                         /\ m.orig # q => /\ orders'[m.orig].status = "MERGED"
                                          /\ ~orders'[m.orig].deleted /\ LedBy(m.orig)' = {}
                         /\ m.orig = q => \/ Seated(m.orig)'
                                          \/ \E u \in Waiter : Closing(u)' /\ work'[u].ord = m.orig
    <3>1. PICK q : q = group'[g].primary
      OBVIOUS
    <3>2. QED
      BY <2>4, <2>5, <2>11, <3>1 DEF SureMember
  <2>12. QED
    BY <2>6, <2>8, <2>9, <2>10, <2>11
<1>3. QED
  BY <1>1, <1>2

\* all members,
LEMMA CommitMember ==
  ASSUME FloorInv, NEW s \in Waiter, NEW N, Commits(s, N)
  PROVE  MemberInv'
<1> SUFFICES ASSUME NEW g \in DOMAIN group', Active(g)', NEW m \in group'[g].members
             PROVE  MemberOK(g, m)'
  BY DEF MemberInv
<1>1. /\ m.table \in Table /\ m.orig \in Orders
      /\ orders'[m.orig].at \in Table \cup {NoTable}
      /\ NoTable \notin Table /\ floorDoubt \subseteq floorDoubt'
  BY FloorNullAssumption, RowsWillBe DEF Commits, Touch
<1>2. ASSUME m.orig \in N, N \cap Table \subseteq floorDoubt'
      PROVE  orders'[m.orig].at \in floorDoubt' \cup {NoTable}
  <2>1. orders[m.orig].at \in N \cup floorDoubt' \cup {NoTable}
    BY <1>1, <1>2 DEF Commits, Serves
  <2>2. orders'[m.orig].at = orders[m.orig].at \/ orders'[m.orig].at \in N \cup {NoTable}
    BY <1>1, <1>2 DEF Commits, Touch
  <2>3. QED
    BY <1>1, <1>2, <2>1, <2>2
<1>3. CASE g \in DOMAIN group /\ m \in group[g].members
  <2>1. Active(g) /\ group'[g].primary = group[g].primary
    BY <1>3 DEF Commits, Touch
  <2>2. MemberOK(g, m)
    BY <1>3, <2>1 DEF FloorInv, MemberInv
  <2>3. g \in GroupsOf(m.orig) /\ m.table \in TablesOf(g)
    BY <1>3, <2>1 DEF GroupsOf, OriginalsOf, TablesOf
  <2>4. /\ m.orig \in N => \/ orders'[m.orig].at = orders[m.orig].at
                           \/ N \cap Table \subseteq floorDoubt'
        /\ m.orig \notin N => \/ orders'[m.orig].at = orders[m.orig].at
                              \/ /\ orders'[m.orig].at = NoTable
                                 /\ orders[m.orig].at # m.table
    BY <1>1, <1>3, <2>3 DEF Commits, Touch
  <2>5. m.table \in Sure' => orders'[m.orig].at = m.table
    <3>1. SUFFICES ASSUME m.table \in Sure'
                   PROVE  orders'[m.orig].at = m.table
      OBVIOUS
    <3>2. orders[m.orig].at = m.table
      BY <1>1, <2>2, <3>1 DEF MemberOK, Sure
    <3>3. m.orig \in N /\ N \cap Table \subseteq floorDoubt' => FALSE
      BY <1>1, <3>1, <3>2 DEF Commits, Serves, Sure
    <3>4. QED
      BY <2>4, <3>2, <3>3
  <2>6. m.table \notin Sure' => orders'[m.orig].at \in floorDoubt' \cup {NoTable}
    <3>1. m.table \notin Sure' => orders[m.orig].at \in floorDoubt' \cup {NoTable}
      BY <1>1, <2>2 DEF MemberOK, Sure
    <3>2. QED
      BY <1>2, <2>4, <3>1
  <2>7. m.orig # group'[g].primary /\ m.table \in Sure' =>
          \A u \in Waiter : m.orig \in work'[u].near => work'[u].op = "split" /\ work'[u].grp = g
    <3>1. SUFFICES ASSUME m.orig # group[g].primary, m.table \in Sure',
                          NEW u \in Waiter, m.orig \in work'[u].near
                   PROVE  work'[u].op = "split" /\ work'[u].grp = g
      BY <2>1
    <3>2. \A v \in Waiter : m.orig \in work[v].near => work[v].op = "split" /\ work[v].grp = g
      BY <1>1, <2>2, <3>1 DEF MemberOK, Sure
    <3>3. u # s
      BY <3>1, <3>2 DEF Commits, Serves, NoWork
    <3>4. QED
      BY <3>1, <3>2, <3>3 DEF Commits, Serves
  <2>8. QED
    BY <2>5, <2>6, <2>7 DEF MemberOK
<1>4. CASE ~(g \in DOMAIN group /\ m \in group[g].members)
  <2>1. m.orig \in N /\ m.table \in N
    BY <1>4 DEF Commits, Touch
  <2>2. CASE N \cap Table \subseteq floorDoubt'
    <3>1. m.table \notin Sure' /\ orders'[m.orig].at \in floorDoubt' \cup {NoTable}
      BY <1>1, <1>2, <2>1, <2>2 DEF Sure
    <3>2. QED
      BY <3>1 DEF MemberOK
  <2>3. CASE Local(s, N)
    BY <1>4, <2>3 DEF Local
  <2>4. QED
    BY <2>2, <2>3 DEF Commits
<1>5. QED
  BY <1>3, <1>4

\* what the orders of a request reach,
LEMMA CommitReach ==
  ASSUME FloorInv, NEW s \in Waiter, NEW N, Commits(s, N)
  PROVE  ReachInv'
<1> SUFFICES ASSUME NEW u \in Waiter, NEW M, M = work'[u].near, NEW o \in Orders \cap M
             PROVE  /\ orders'[o].at \in M \cup floorDoubt' \cup {NoTable}
                    /\ \A g \in LedBy(o)' : TablesOf(g)' \subseteq M \cup floorDoubt'
  BY DEF ReachInv, Reach
<1>1. /\ orders'[o].at \in Table \cup {NoTable}
      /\ \A g \in DOMAIN group' : TablesOf(g)' \subseteq Table
      /\ floorDoubt \subseteq floorDoubt'
  BY RowsWillBe DEF Commits, Touch
<1>2. ASSUME o \in N, NEW g \in LedBy(o)'
      PROVE  \/ g \in LedBy(o) /\ TablesOf(g)' \subseteq TablesOf(g) \cup N
             \/ TablesOf(g)' \subseteq N
  BY <1>2 DEF Commits, Touch, LedBy, TablesOf
<1>3. CASE u = s
  <2>1. M = N
    BY <1>3 DEF Commits, Serves, NoWork
  <2>2. /\ orders[o].at \in N \cup floorDoubt' \cup {NoTable}
        /\ \A g \in LedBy(o) : TablesOf(g) \subseteq N \cup floorDoubt'
    BY <2>1 DEF Commits, Serves
  <2>3. orders'[o].at = orders[o].at \/ orders'[o].at \in N \cup {NoTable}
    BY <2>1 DEF Commits, Touch
  <2>4. QED
    BY <1>2, <2>1, <2>2, <2>3
<1>4. CASE u # s
  <2>1. M = work[u].near
    BY <1>4 DEF Commits, Serves
  <2>2. /\ orders[o].at \in M \cup floorDoubt \cup {NoTable}
        /\ \A g \in LedBy(o) : TablesOf(g) \subseteq M \cup floorDoubt
    BY <2>1 DEF FloorInv, ReachInv, Reach
  <2>3. CASE o \in N
    <3>1. N \cap Table \subseteq floorDoubt'
      BY <1>4, <2>1, <2>3 DEF Commits, Serves
    <3>2. orders'[o].at = orders[o].at \/ orders'[o].at \in N \cup {NoTable}
      BY <2>3 DEF Commits, Touch
    <3>3. orders'[o].at \in M \cup floorDoubt' \cup {NoTable}
      BY <1>1, <2>2, <3>1, <3>2
    <3>4. ASSUME NEW g \in LedBy(o)' PROVE TablesOf(g)' \subseteq M \cup floorDoubt'
      <4>1. TablesOf(g)' \subseteq Table
        BY <1>1 DEF LedBy
      <4>2. QED
        BY <1>1, <1>2, <2>2, <2>3, <3>1, <4>1
    <3>5. QED
      BY <3>3, <3>4
  <2>4. CASE o \notin N
    <3>1. orders'[o].at = orders[o].at \/ orders'[o].at = NoTable
      BY <2>4 DEF Commits, Touch
    <3>2. LedBy(o)' = LedBy(o) /\ \A g \in LedBy(o) : TablesOf(g)' = TablesOf(g)
      BY <2>4, CommitLed DEF LedBy, TablesOf
    <3>3. QED
      BY <1>1, <2>2, <3>1, <3>2
  <2>5. QED
    BY <2>3, <2>4
<1>5. QED
  BY <1>3, <1>4

\* the doubt of requests that meet,
LEMMA CommitMeet ==
  ASSUME FloorInv, NEW s \in Waiter, NEW N, Commits(s, N)
  PROVE  MeetInv'
<1> SUFFICES ASSUME NEW u \in Waiter, NEW v \in Waiter, u # v,
                    work'[u].near \cap work'[v].near # {}
             PROVE  Doomed(u)'
  BY DEF MeetInv
<1>1. floorDoubt \subseteq floorDoubt'
  BY DEF Commits, Touch
<1>2. CASE u # s /\ v # s
  <2>1. work'[u] = work[u] /\ work'[v] = work[v]
    BY <1>2 DEF Commits, Serves
  <2>2. QED
    BY <1>1, <2>1 DEF FloorInv, MeetInv, Doomed
<1>3. CASE u = s
  <2>1. work'[s].near = N
    BY <1>3 DEF Commits, Serves, NoWork
  <2>2. v # s /\ work'[v] = work[v]
    BY <1>3 DEF Commits, Serves
  <2>3. QED
    BY <1>3, <2>1, <2>2 DEF Commits, Serves, Doomed
<1>4. CASE v = s
  <2>1. work'[s].near = N
    BY <1>4 DEF Commits, Serves, NoWork
  <2>2. u # s /\ work'[u] = work[u]
    BY <1>4 DEF Commits, Serves
  <2>3. QED
    BY <1>4, <2>1, <2>2 DEF Commits, Serves
<1>5. QED
  BY <1>2, <1>3, <1>4

\* the lines of merged orders,
LEMMA CommitStranded ==
  ASSUME FloorInv, NEW s \in Waiter, NEW N, Commits(s, N)
  PROVE  NothingStranded'
<1> SUFFICES ASSUME NEW o \in Orders, orders'[o].status = "MERGED", orders'[o].at \in Sure'
             PROVE  orders'[o].has = {}
  BY DEF NothingStranded, Sure
<1>1. NoTable \notin Sure' /\ floorDoubt \subseteq floorDoubt' /\ Sure' \subseteq Table
  BY FloorNullAssumption DEF Commits, Touch, Sure
<1>2. CASE o \notin N
  <2>1. orders[o].status = "MERGED" /\ orders[o].at = orders'[o].at /\ orders'[o].has \subseteq orders[o].has
    BY <1>1, <1>2 DEF Commits, Touch
  <2>2. QED
    BY <1>1, <2>1 DEF FloorInv, NothingStranded, Sure
<1>3. CASE o \in N
  <2>1. N \cap Table \subseteq floorDoubt' => FALSE
    <3>1. orders[o].at \in N \cup floorDoubt' \cup {NoTable}
      BY <1>3 DEF Commits, Serves
    <3>2. orders'[o].at = orders[o].at \/ orders'[o].at \in N \cup {NoTable}
      BY <1>3 DEF Commits, Touch
    <3>3. QED
      BY <1>1, <3>1, <3>2 DEF Sure
  <2>2. QED
    BY <1>3, <2>1 DEF Commits, Local
<1>4. QED
  BY <1>2, <1>3

\* what the other requests hold,
LEMMA CommitHolds ==
  ASSUME FloorInv, NEW s \in Waiter, NEW N, Commits(s, N)
  PROVE  HoldsInv'
<1> SUFFICES ASSUME NEW u \in Waiter PROVE Holds(u)'
  BY DEF HoldsInv
<1>1. CASE u = s
  BY <1>1 DEF Commits
<1>2. CASE u # s
  <2>1. work'[u] = work[u] /\ Holds(u)
    BY <1>2 DEF Commits, Serves, FloorInv, HoldsInv
  <2>2. \A o \in Orders : Known(o) => Known(o)'
    BY DEF Commits, Serves
  <2>3. /\ floorDoubt \subseteq floorDoubt' /\ DOMAIN group \subseteq DOMAIN group'
        /\ \A g \in DOMAIN group : group'[g].primary = group[g].primary /\ TablesOf(g) \subseteq TablesOf(g)'
    BY DEF Commits, Touch, TablesOf
  <2>4. work[u].op = "create" =>
          ~Known(work[u].ord)' /\ \A v \in Waiter \ {u} : work'[v].ord # work[u].ord
    <3>1. SUFFICES ASSUME work[u].op = "create"
                   PROVE  ~Known(work[u].ord)' /\ \A v \in Waiter \ {u} : work'[v].ord # work[u].ord
      OBVIOUS
    <3>2. /\ work[u].ord \in Orders /\ ~Known(work[u].ord)
          /\ \A v \in Waiter \ {u} : work[v].ord # work[u].ord
      BY <2>1, <3>1 DEF Holds, AboutOrder
    <3>3. ~Known(work[u].ord)'
      BY <1>2, <3>2 DEF Commits, Serves
    <3>4. ASSUME NEW v \in Waiter \ {u} PROVE work'[v].ord # work[u].ord
      BY <1>2, <3>2, FloorNullAssumption DEF Commits, Serves, NoWork
    <3>5. QED
      BY <3>3, <3>4
  <2>5. QED
    BY <2>1, <2>2, <2>3, <2>4 DEF Holds, Closing
<1>3. QED
  BY <1>1, <1>2

\* and what they read.
LEMMA CommitReads ==
  ASSUME FloorInv, NEW s \in Waiter, NEW N, Commits(s, N),
         NEW u \in Waiter \ {s}, ~Doomed(u)'
  PROVE  Reads(u)'
<1>1. work'[u] = work[u] /\ work[u].near \cap N = {}
  BY DEF Commits, Serves
<1>2. Holds(u) /\ Reads(u) /\ Reach(work[u].near)
  BY <1>1 DEF FloorInv, HoldsInv, ReadInv, ReachInv, Doomed, Commits, Touch
<1>3. PICK w : w = work[u]
  OBVIOUS
<1>4. \A t \in w.near \cap Table : t \in Sure' => t \in Sure /\ table'[t] = table[t]
  BY <1>1, <1>3 DEF Commits, Touch, Sure
<1>5. ASSUME NEW o \in Orders \cap w.near
      PROVE  /\ o \notin N
             /\ orders'[o].status = orders[o].status /\ orders'[o].deleted = orders[o].deleted
             /\ orders'[o].has \subseteq orders[o].has
             /\ orders[o].at \in w.near \cup {NoTable} => orders'[o].at = orders[o].at
  BY <1>1, <1>3 DEF Commits, Touch
<1>6. ASSUME NEW o \in Orders \cap w.near
      PROVE  /\ Seated(o)' <=> Seated(o)
             /\ FirstLedBy(o)' = FirstLedBy(o) /\ LedBy(o)' = LedBy(o)
  BY <1>5, CommitLed DEF Seated, IsOpen
<1>7. ASSUME NEW o \in Orders \cap w.near, GroupsOf(o) = {}
      PROVE  GroupsOf(o)' = {}
  <2>1. ASSUME NEW g \in DOMAIN group', Active(g)', NEW m \in group'[g].members, m.orig = o
        PROVE  FALSE
    <3>1. g \in DOMAIN group /\ m \in group[g].members
      BY <1>5, <2>1 DEF Commits, Touch
    <3>2. Active(g)
      BY <2>1, <3>1 DEF Commits, Touch
    <3>3. QED
      BY <1>7, <2>1, <3>1, <3>2 DEF GroupsOf, OriginalsOf
  <2>2. QED
    BY <2>1 DEF GroupsOf, OriginalsOf
<1>8. ASSUME w.op \in AboutOrder
      PROVE  w.ord \in Orders \cap w.near /\ w.at \in (Table \cap w.near) \cup {NoTable}
  BY <1>2, <1>3, <1>8 DEF Holds
<1>9. w.op = "create" /\ w.at \in Sure' => table'[w.at] = "AVAILABLE"
  BY <1>2, <1>3, <1>4, <1>8, FloorNullAssumption DEF Reads, Sure, AboutOrder
<1>10. w.op \in AboutOrder \ {"create"} => orders'[w.ord].at = w.at
  BY <1>2, <1>3, <1>5, <1>8 DEF Reads
<1>11. /\ w.op \in {"move", "pay", "delete", "merge"} => Seated(w.ord)'
       /\ w.op = "cancel" /\ w.phase = "checked" => Seated(w.ord)'
  BY <1>2, <1>3, <1>5, <1>6, <1>8 DEF Reads, AboutOrder
<1>12. w.op \in {"move", "delete", "merge"} => GroupsOf(w.ord)' = {}
  BY <1>2, <1>3, <1>7, <1>8 DEF Reads, AboutOrder
<1>13. w.op = "move" /\ w.to \in Sure' => table'[w.to] = "AVAILABLE"
  BY <1>2, <1>3, <1>4 DEF Reads, Holds
<1>14. w.op = "merge" => /\ Seated(w.other)'
                         /\ orders'[w.other].at = w.to
                         /\ w.grp = FirstLedBy(w.other)'
                         /\ orders'[w.ord].has \subseteq w.has
  BY <1>2, <1>3, <1>5, <1>6, <1>8 DEF Reads, Holds, AboutOrder
<1>15. w.phase \in {"closed", "releasing"} => w.op = "cancel"
  BY <1>2, <1>3 DEF Holds, Closing
<1>16. w.phase \in {"closed", "releasing"} => orders'[w.ord].status = "CANCELLED"
  BY <1>2, <1>3, <1>5, <1>8, <1>15 DEF Reads, AboutOrder, Closing
<1>17. w.phase = "closed" /\ w.at \in Sure' /\ IsTable(w.at)' => table'[w.at] = "AVAILABLE"
  BY <1>2, <1>3, <1>4, <1>8, <1>15, FloorNullAssumption DEF Reads, AboutOrder, IsTable, Sure
<1>18. ASSUME w.phase = "releasing"
       PROVE  /\ w.grp = FirstLedBy(w.ord)' /\ Active(w.grp)'
              /\ \A t \in Sure' \cap TablesOf(w.grp)' :
                   IsTable(t)' /\ t \notin w.todo => table'[t] = "AVAILABLE"
  <2>1. w.ord \in Orders \cap w.near
    BY <1>8, <1>15, <1>18 DEF AboutOrder
  <2>2. /\ w.grp = FirstLedBy(w.ord) /\ Active(w.grp)
        /\ \A t \in Sure \cap TablesOf(w.grp) :
             IsTable(t) /\ t \notin w.todo => table[t] = "AVAILABLE"
    BY <1>2, <1>3, <1>18 DEF Reads
  <2>3. w.grp \in DOMAIN group /\ group[w.grp].primary = w.ord
    BY <1>2, <1>3, <1>18 DEF Holds
  <2>4. group'[w.grp] = group[w.grp]
    BY <1>5, <2>1, <2>3, CommitLed
  <2>5. TablesOf(w.grp) \subseteq w.near \cup floorDoubt
    BY <1>2, <1>3, <2>1, <2>2, <2>3 DEF Reach, LedBy
  <2>6. \A t \in Sure' \cap TablesOf(w.grp)' :
                   IsTable(t)' /\ t \notin w.todo => table'[t] = "AVAILABLE"
    <3>1. TablesOf(w.grp)' = TablesOf(w.grp)
      BY <2>4 DEF TablesOf
    <3>2. \A t \in Sure' \cap TablesOf(w.grp) : t \in Sure /\ t \in w.near \cap Table
      BY <2>5 DEF Sure, Commits, Touch
    <3>3. QED
      BY <1>4, <2>2, <3>1, <3>2 DEF IsTable
  <2>7. QED
    BY <1>6, <2>1, <2>2, <2>4, <2>6 DEF Active
<1>19. w.op = "split" => /\ Active(w.grp)'
                         /\ TablesOf(w.grp)' \subseteq w.todo
                         /\ OriginalsOf(w.grp)' \subseteq w.has
  <2>1. w.op = "split" => group'[w.grp] = group[w.grp]
    BY <1>1, <1>2, <1>3 DEF Holds, Commits, Touch
  <2>2. QED
    BY <1>2, <1>3, <2>1 DEF Reads, Active, TablesOf, OriginalsOf
<1>20. w.op = "dropTable" => SittingAt(w.at)' = {}
  <2>1. SUFFICES ASSUME w.op = "dropTable", NEW t, t = w.at PROVE SittingAt(t)' = {}
    <3>1. PICK t : t = w.at
      OBVIOUS
    <3>2. QED
      BY <2>1, <3>1
  <2>2. t \in Table /\ w.near = {t} /\ SittingAt(t) = {}
    BY <1>2, <1>3, <2>1 DEF Holds, Reads
  <2>3. t \in Sure' \ N
    BY <1>1, <1>3, <2>2 DEF Doomed, Sure
  <2>4. QED
    BY <2>2, <2>3, CommitSitting
<1>21. SUFFICES ASSUME NEW r, r = work'[u], NEW o, o = r.ord, NEW q, q = r.other, NEW g, g = r.grp,
                       NEW t, t = r.at
                PROVE  Reads(u)'
  <2>1. PICK r : r = work'[u]
    OBVIOUS
  <2>2. PICK o, q, g, t : o = r.ord /\ q = r.other /\ g = r.grp /\ t = r.at
    OBVIOUS
  <2>3. QED
    BY <1>21, <2>1, <2>2
<1>22. r = w
  BY <1>1, <1>3, <1>21
<1>23. QED
  BY <1>3, <1>9, <1>10, <1>11, <1>12, <1>13, <1>14, <1>16, <1>17, <1>18, <1>19, <1>20,
     <1>21, <1>22 DEF Reads, Closing

\* A step that changes what is near N only keeps the invariant.
LEMMA CommitStep ==
  ASSUME FloorInv, NEW s \in Waiter, NEW N, Commits(s, N)
  PROVE  FloorInv'
<1>1. ReadInv'
  <2>1. ~Doomed(s)' => Reads(s)'
    <3>1. N \cap Table \subseteq floorDoubt' => Doomed(s)'
      BY DEF Commits, Serves, Doomed, NoWork
    <3>2. QED
      BY <3>1 DEF Commits, Local
  <2>2. QED
    BY <2>1, CommitReads DEF ReadInv
<1>2. QED
  BY <1>1, CommitHolds, CommitMeet, CommitReach, CommitMember, CommitSureMember,
     CommitTables, CommitStranded DEF FloorInv, Commits

-----------------------------------------------------------------------------
(* Steps in which a request starts *)

\* What a request starts with is r; lost: the tables that its operation does not
\* look after.
Starts(s, r, lost) ==
  /\ work[s].phase = "idle"
  /\ Start(s, r, lost)
  /\ UNCHANGED <<table, orders, group>>

\* Who meets a request, and what it does not look after, is in doubt.
LEMMA MeetIs ==
  ASSUME FloorInv, NEW s \in Waiter, NEW near, NEW lost, Meet(s, near, lost)
  PROVE  /\ floorDoubt \subseteq floorDoubt' /\ floorDoubt' \subseteq Table
         /\ lost \cap Table \subseteq floorDoubt'
         /\ \A u \in Waiter \ {s} : work[u].near \cap near # {} =>
              /\ work[u].near \cap Table \subseteq floorDoubt'
              /\ near \cap Table \subseteq floorDoubt'
<1>1. floorDoubt \subseteq Table
  BY RowsAre DEF FloorInv
<1> DEFINE met == {t \in Waiter \ {s} : work[t].near \cap near # {}}
           both == IF met = {} THEN {} ELSE near \cup UNION {work[t].near : t \in met}
<1>2. floorDoubt' = floorDoubt \cup (Table \cap (lost \cup both))
  BY DEF Meet
<1>3. ASSUME NEW u \in Waiter \ {s}, work[u].near \cap near # {}
      PROVE  work[u].near \subseteq both /\ near \subseteq both
  BY <1>3
<1> HIDE DEF both
<1>4. QED
  BY <1>1, <1>2, <1>3

\* What a request finds when it starts.
LEMMA StartDoubt ==
  ASSUME FloorInv, NEW s \in Waiter, NEW r, NEW lost, Starts(s, r, lost)
  PROVE  /\ work'[s] = r /\ \A u \in Waiter \ {s} : work'[u] = work[u]
         /\ DOMAIN work' = Waiter
         /\ floorDoubt \subseteq floorDoubt' /\ floorDoubt' \subseteq Table
         /\ lost \cap Table \subseteq floorDoubt'
         /\ \A u \in Waiter \ {s} : work[u].near \cap r.near # {} =>
              /\ work[u].near \cap Table \subseteq floorDoubt'
              /\ r.near \cap Table \subseteq floorDoubt'
<1>1. work' = [work EXCEPT ![s] = r] /\ DOMAIN work = Waiter
  BY RowsAre DEF Starts, Start, FloorInv
<1>2. PICK near : near = r.near
  OBVIOUS
<1>3. Meet(s, near, lost)
  BY <1>2 DEF Starts, Start
<1>4. /\ floorDoubt \subseteq floorDoubt' /\ floorDoubt' \subseteq Table
      /\ lost \cap Table \subseteq floorDoubt'
      /\ \A u \in Waiter \ {s} : work[u].near \cap near # {} =>
           /\ work[u].near \cap Table \subseteq floorDoubt'
           /\ near \cap Table \subseteq floorDoubt'
  BY <1>3, MeetIs
<1>5. QED
  BY <1>1, <1>2, <1>4

\* A request that starts with a record that is true keeps the invariant.
LEMMA StartStep ==
  ASSUME FloorInv, NEW s \in Waiter, NEW r, NEW lost, Starts(s, r, lost),
         r \in Work, Holds(s)', Reach(r.near)', ~Doomed(s)' => Reads(s)',
         \A u \in Waiter \ {s} : work[u].op = "create" => r.ord # work[u].ord,
         \A g \in DOMAIN group : Active(g) => \A m \in group[g].members :
           m.orig \in r.near /\ m.orig # group[g].primary /\ m.table \in Sure'
             => r.op = "split" /\ r.grp = g
  PROVE  FloorInv'
<1>1. /\ work'[s] = r /\ \A u \in Waiter \ {s} : work'[u] = work[u]
      /\ DOMAIN work' = Waiter
      /\ floorDoubt \subseteq floorDoubt' /\ floorDoubt' \subseteq Table
  BY StartDoubt
<1>2. table' = table /\ orders' = orders /\ group' = group /\ Sure' \subseteq Sure
  BY <1>1 DEF Starts, Sure
<1>3. \A u \in Waiter : Closing(u) => u # s /\ work'[u] = work[u] /\ Closing(u)'
  BY <1>1 DEF Starts, Closing
<1>4. RowsInv'
  BY <1>1, <1>2 DEF FloorInv, RowsInv, FloorTypeOK, Known, OriginalsOf
<1>5. HoldsInv'
  <2>1. SUFFICES ASSUME NEW u \in Waiter \ {s} PROVE Holds(u)'
    BY DEF HoldsInv
  <2>2. Holds(u) /\ work'[u] = work[u]
    BY <1>1 DEF FloorInv, HoldsInv
  <2>3. work[u].op = "create" => \A v \in Waiter \ {u} : work'[v].ord # work[u].ord
    BY <1>1, <2>2 DEF Holds
  <2>4. QED
    BY <1>1, <1>2, <2>2, <2>3 DEF Holds, Known, TablesOf, Closing
<1>6. MeetInv'
  <2>1. SUFFICES ASSUME NEW u \in Waiter, NEW v \in Waiter, u # v,
                        work'[u].near \cap work'[v].near # {}
                 PROVE  Doomed(u)'
    BY DEF MeetInv
  <2>2. CASE u # s /\ v # s
    BY <1>1, <2>1, <2>2 DEF FloorInv, MeetInv, Doomed
  <2>3. CASE u = s \/ v = s
    BY <1>1, <2>1, <2>3, StartDoubt DEF Doomed
  <2>4. QED
    BY <2>2, <2>3
<1>7. ReachInv'
  <2>1. SUFFICES ASSUME NEW u \in Waiter, NEW M, M = work'[u].near PROVE Reach(M)'
    BY DEF ReachInv, Reach
  <2>2. CASE u = s
    BY <1>1, <2>1, <2>2
  <2>3. CASE u # s
    <3>1. Reach(M)
      BY <1>1, <2>1, <2>3 DEF FloorInv, ReachInv
    <3>2. QED
      BY <1>1, <1>2, <3>1 DEF Reach, LedBy, Active, TablesOf
  <2>4. QED
    BY <2>2, <2>3
<1>8. ReadInv'
  <2>1. SUFFICES ASSUME NEW u \in Waiter \ {s}, ~Doomed(u)' PROVE Reads(u)'
    BY DEF ReadInv
  <2>2. Reads(u) /\ work'[u] = work[u]
    BY <1>1, <2>1 DEF FloorInv, ReadInv, Doomed
  <2>3. QED
    BY <1>2, <2>2, SMTT(30)
    DEF Reads, Seated, IsOpen, GroupsOf, FirstLedBy, LedBy, Active, OriginalsOf, TablesOf,
        Closing, IsTable, SittingAt
<1>9. MemberInv'
  <2>1. SUFFICES ASSUME NEW g \in DOMAIN group, Active(g), NEW m \in group[g].members
                 PROVE  MemberOK(g, m)'
    BY <1>2 DEF MemberInv, Active
  <2>2. MemberOK(g, m) /\ m.table \in Table
    BY <2>1, RowsAre DEF FloorInv, MemberInv
  <2>3. m.table \in Sure' => orders'[m.orig].at = m.table
    BY <1>2, <2>2 DEF MemberOK
  <2>4. m.table \notin Sure' => orders'[m.orig].at \in floorDoubt' \cup {NoTable}
    BY <1>1, <1>2, <2>2 DEF MemberOK, Sure
  <2>5. m.orig # group[g].primary /\ m.table \in Sure' =>
          \A u \in Waiter : m.orig \in work'[u].near => work'[u].op = "split" /\ work'[u].grp = g
    BY <1>1, <1>2, <2>1, <2>2 DEF MemberOK
  <2>6. QED
    BY <1>2, <2>3, <2>4, <2>5 DEF MemberOK
<1>10. SureMemberInv'
  <2>1. SUFFICES ASSUME NEW g \in DOMAIN group, Active(g), NEW m \in group[g].members,
                        m.table \in Sure'
                 PROVE  SureMember(g, m)'
    BY <1>2 DEF SureMemberInv, Active
  <2>2. SureMember(g, m)
    BY <1>2, <2>1 DEF FloorInv, SureMemberInv
  <2>3. QED
    BY <1>2, <1>3, <2>2 DEF SureMember, SittingAt, IsOpen, Active, LedBy, Seated
<1>11. TableInv'
  <2>1. SUFFICES ASSUME NEW t \in Sure' PROVE TableOK(t)' /\ SeatOK(t)'
    BY DEF TableInv
  <2>2. TableOK(t) /\ SeatOK(t)
    BY <1>2 DEF FloorInv, TableInv
  <2>3. Released(t) => Released(t)'
    BY <1>2, <1>3 DEF Released, Active, TablesOf
  <2>4. QED
    BY <1>2, <2>2, <2>3 DEF TableOK, SeatOK, SittingAt, IsOpen, InGroup, Active, TablesOf, IsTable
<1>12. NothingStranded'
  BY <1>1, <1>2 DEF FloorInv, NothingStranded
<1>13. QED
  BY <1>4, <1>5, <1>6, <1>7, <1>8, <1>9, <1>10, <1>11, <1>12 DEF FloorInv

\* An order, and what a request about it may touch.
LEMMA NearIs ==
  ASSUME FloorInv, NEW o \in Orders
  PROVE  /\ Near(o) \subseteq Table \cup Orders /\ Near(o) \cap Orders = {o}
         /\ orders[o].at \in Near(o) \cup {NoTable}
         /\ \A g \in LedBy(o) \cup GroupsOf(o) : TablesOf(g) \subseteq Near(o)
<1>1. \A g \in DOMAIN group : TablesOf(g) \subseteq Table
  BY RowsAre DEF FloorInv, TablesOf
<1>2. orders[o].at \in Table \cup {NoTable}
  BY RowsAre DEF FloorInv
<1>3. UNION {TablesOf(g) : g \in LedBy(o) \cup GroupsOf(o)} \subseteq Table
  BY <1>1 DEF LedBy, GroupsOf
<1>4. QED
  BY <1>2, <1>3, FloorIdAssumption DEF Near

\* The groups an order leads are groups it is in.
LEMMA LedIsListed ==
  ASSUME FloorInv, NEW o
  PROVE  LedBy(o) \subseteq GroupsOf(o)
  BY RowsAre DEF FloorInv, LedBy, GroupsOf

\* A merged order other than the primary at a table that is not in doubt is cancelled.
LEMMA ListedIsMerged ==
  ASSUME FloorInv, NEW g \in DOMAIN group, Active(g), NEW m \in group[g].members,
         m.orig # group[g].primary, m.table \in Sure
  PROVE  orders[m.orig].status = "MERGED"
  BY DEF FloorInv, SureMemberInv, SureMember

\* A request's record is typed field by field.
LEMMA WorkTyped ==
  ASSUME NEW r,
         r = [op |-> r.op, phase |-> "checked", ord |-> r.ord, at |-> r.at, to |-> r.to,
              other |-> r.other, has |-> r.has, grp |-> r.grp, todo |-> r.todo, near |-> r.near],
         r.op \in AllFloorOps, r.ord \in Orders \cup {NullOrder},
         r.at \in Table \cup {NoTable}, r.to \in Table \cup {NoTable},
         r.other \in Orders \cup {NullOrder}, r.has \subseteq Orders, r.grp \in 0..MaxGroups,
         r.todo \subseteq Table, r.near \subseteq Table \cup Orders
  PROVE  r \in Work
  BY DEF Work

\* createOrder reads a table that is free.
LEMMA FreshStep ==
  ASSUME FloorInv, NEW s \in Waiter, ReadForCreate(s)
  PROVE  FloorInv'
<1>1. PICK o \in Orders, t \in Table \cup {NoTable} :
        /\ MayStart(s, "create") /\ ~Known(o)
        /\ \A u \in Waiter : work[u].ord # o
        /\ t # NoTable => Free(t)
        /\ Start(s, [NoWork EXCEPT !.op = "create", !.phase = "checked", !.ord = o,
                      !.at = t, !.near = {o, t} \ {NoTable}], {})
        /\ UNCHANGED <<table, orders, group>>
  BY DEF ReadForCreate
<1>2. PICK r : r = [NoWork EXCEPT !.op = "create", !.phase = "checked", !.ord = o,
                      !.at = t, !.near = {o, t} \ {NoTable}]
  OBVIOUS
<1>3. r.op = "create" /\ r.phase = "checked" /\ r.ord = o /\ r.at = t /\ r.near = {o, t} \ {NoTable}
  BY <1>2 DEF NoWork
<1>4. Starts(s, r, {}) /\ r \in Work
  <2>1. /\ r = [op |-> "create", phase |-> "checked", ord |-> o, at |-> t, to |-> NoTable,
                other |-> NullOrder, has |-> {}, grp |-> 0, todo |-> {}, near |-> r.near]
        /\ r.near \subseteq Table \cup Orders
    BY <1>2 DEF NoWork
  <2>2. r \in Work
    BY <2>1, FloorBoundAssumption, WorkTyped DEF AllFloorOps
  <2>3. QED
    BY <1>1, <1>2, <2>2 DEF Starts, MayStart
<1>5. work'[s] = r /\ \A u \in Waiter \ {s} : work'[u] = work[u]
  BY <1>4, StartDoubt
<1>6. o # NoTable /\ r.near \cap Orders = {o} /\ r.near \subseteq Table \cup Orders
  BY <1>3, FloorIdAssumption
<1>7. Holds(s)'
  BY <1>1, <1>3, <1>5, <1>6 DEF Holds, AboutOrder, Closing, Known
<1>8. Reach(r.near)'
  <2>1. orders[o].at = NoTable /\ LedBy(o) = {}
    BY <1>1, RowsAre DEF FloorInv, LedBy, OriginalsOf
  <2>2. QED
    BY <1>1, <1>6, <2>1 DEF Reach, LedBy, Active
<1>9. Reads(s)'
  BY <1>1, <1>3, <1>5, FloorNullAssumption DEF Reads, AboutOrder, Closing, Free, Sure
<1>10. \A g \in DOMAIN group : \A m \in group[g].members : m.orig \notin r.near
  BY <1>1, <1>6, RowsAre DEF FloorInv
<1>11. QED
  BY <1>1, <1>3, <1>4, <1>7, <1>8, <1>9, <1>10, StartStep

\* The record of a request about one order is typed.
LEMMA AboutTyped ==
  ASSUME FloorInv, NEW o \in Orders, NEW op \in AllFloorOps
  PROVE  About(op, o) \in Work
<1>1. orders[o].at \in Table \cup {NoTable} /\ orders[o].has \subseteq Orders
  BY RowsAre DEF FloorInv
<1>2. PICK r : r = About(op, o)
  OBVIOUS
<1>3. r = [op |-> op, phase |-> "checked", ord |-> o, at |-> orders[o].at, to |-> NoTable,
           other |-> NullOrder, has |-> orders[o].has, grp |-> 0, todo |-> {}, near |-> Near(o)]
  BY <1>2 DEF About, NoWork
<1>4. QED
  BY <1>1, <1>2, <1>3, NearIs, FloorBoundAssumption, WorkTyped

\* What a request about an order o starts with, near the tables N of it and others.
LEMMA AboutStep ==
  ASSUME FloorInv, NEW s \in Waiter, NEW r, NEW lost, Starts(s, r, lost),
         NEW o \in Orders, Known(o), r.ord = o, r.op \in AboutOrder \ {"create"},
         r.phase = "checked", r.at = orders[o].at, Near(o) \subseteq r.near,
         r \in Work, Holds(s)', Reach(r.near)', ~Doomed(s)' => Reads(s)',
         \A g \in DOMAIN group : Active(g) => \A m \in group[g].members :
           m.orig \in r.near /\ m.orig # group[g].primary /\ m.table \in Sure' => FALSE
  PROVE  FloorInv'
<1>1. \A u \in Waiter \ {s} : work[u].op = "create" => r.ord # work[u].ord
  BY DEF FloorInv, HoldsInv, Holds
<1>2. QED
  BY <1>1, StartStep

\* changeTable reads an order and the table it goes to.
LEMMA MoveStarts ==
  ASSUME FloorInv, NEW s \in Waiter, ReadForMove(s)
  PROVE  FloorInv'
<1>1. PICK o \in Orders, t \in Table :
        /\ MayStart(s, "move") /\ Known(o) /\ orders[o].at # NoTable /\ Free(t)
        /\ LET r == [About("move", o) EXCEPT !.to = t, !.near = Near(o) \cup {t}]
               plain == IsOpen(o) /\ ~orders[o].deleted /\ LedBy(o) \cup GroupsOf(o) = {}
           IN Start(s, r, IF plain THEN {} ELSE r.near)
        /\ UNCHANGED <<table, orders, group>>
  BY DEF ReadForMove
<1>2. PICK r : r = [About("move", o) EXCEPT !.to = t, !.near = Near(o) \cup {t}]
  OBVIOUS
<1>3. PICK lost : lost = IF IsOpen(o) /\ ~orders[o].deleted /\ LedBy(o) \cup GroupsOf(o) = {}
                         THEN {} ELSE r.near
  OBVIOUS
<1>4. /\ r.op = "move" /\ r.phase = "checked" /\ r.ord = o /\ r.at = orders[o].at
      /\ r.to = t /\ r.near = Near(o) \cup {t}
  BY <1>2 DEF About, NoWork
<1>5. Starts(s, r, lost)
  BY <1>1, <1>2, <1>3 DEF Starts, MayStart
<1>6. /\ work'[s] = r /\ \A u \in Waiter \ {s} : work'[u] = work[u]
      /\ lost \cap Table \subseteq floorDoubt' /\ floorDoubt' \subseteq Table
  BY <1>5, StartDoubt
<1>7. /\ r.near \cap Orders = {o} /\ r.near \subseteq Table \cup Orders
      /\ orders[o].at \in Table \cap r.near /\ o \in r.near
  BY <1>1, <1>4, NearIs, FloorIdAssumption, RowsAre DEF FloorInv
<1>8. Holds(s)'
  BY <1>1, <1>4, <1>6, <1>7 DEF Holds, AboutOrder, Closing, Known
<1>9. Reach(r.near)'
  BY <1>1, <1>4, <1>7, NearIs DEF Reach, LedBy, Active, TablesOf
<1>10. ASSUME ~(r.near \cap Table \subseteq floorDoubt')
       PROVE  Seated(o) /\ GroupsOf(o) = {}
  BY <1>3, <1>6, <1>10 DEF Seated
<1>11. ~Doomed(s)' => Reads(s)'
  BY <1>1, <1>4, <1>6, <1>10 DEF Doomed, Reads, AboutOrder, Closing, Free, Seated, IsOpen,
     GroupsOf, Active, OriginalsOf
<1>12. ASSUME NEW g \in DOMAIN group, Active(g), NEW m \in group[g].members,
              m.orig \in r.near, m.orig # group[g].primary, m.table \in Sure'
       PROVE  FALSE
  <2>1. m.orig = o /\ m.table \in Table /\ m.table \notin floorDoubt'
    BY <1>7, <1>12, RowsAre DEF FloorInv, Sure
  <2>2. g \in GroupsOf(o) /\ m.table \in TablesOf(g)
    BY <1>12, <2>1 DEF GroupsOf, OriginalsOf, TablesOf
  <2>3. QED
    BY <1>4, <1>10, <2>1, <2>2, NearIs
<1>13. r \in Work
  <2>1. r = [op |-> "move", phase |-> "checked", ord |-> o, at |-> r.at, to |-> t,
             other |-> NullOrder, has |-> orders[o].has, grp |-> 0, todo |-> {}, near |-> r.near]
    BY <1>2 DEF About, NoWork
  <2>2. orders[o].has \subseteq Orders
    BY RowsAre DEF FloorInv
  <2>3. QED
    BY <1>4, <1>7, <2>1, <2>2, FloorBoundAssumption, WorkTyped DEF AllFloorOps
<1>14. QED
  BY <1>1, <1>4, <1>5, <1>8, <1>9, <1>11, <1>12, <1>13, AboutStep DEF AboutOrder

\* The requests about one order and its tables.
LEMMA OneOrderStarts ==
  ASSUME FloorInv, NEW s \in Waiter, NEW op \in {"pay", "cancel", "delete"}, NEW o \in Orders,
         NEW lost, Known(o), Starts(s, About(op, o), lost),
         lost = {} => Seated(o),
         op # "delete" => IsOpen(o),
         op = "delete" /\ lost = {} => GroupsOf(o) = {},
         lost # {} => lost = Near(o)
  PROVE  FloorInv'
<1>1. PICK r : r = About(op, o)
  OBVIOUS
<1>2. /\ r.op = op /\ r.phase = "checked" /\ r.ord = o /\ r.at = orders[o].at /\ r.near = Near(o)
  BY <1>1 DEF About, NoWork
<1>3. Starts(s, r, lost)
  BY <1>1
<1>4. /\ work'[s] = r /\ \A u \in Waiter \ {s} : work'[u] = work[u]
      /\ lost \cap Table \subseteq floorDoubt' /\ floorDoubt' \subseteq Table
      /\ floorDoubt \subseteq floorDoubt' /\ orders' = orders /\ group' = group /\ table' = table
  BY <1>3, StartDoubt DEF Starts
<1>5. /\ r.near \cap Orders = {o} /\ r.near \subseteq Table \cup Orders
      /\ orders[o].at \in (Table \cap r.near) \cup {NoTable} /\ o \in r.near
  BY <1>2, NearIs, RowsAre DEF FloorInv
<1>6. Holds(s)'
  BY <1>2, <1>4, <1>5 DEF Holds, AboutOrder, Closing, Known
<1>7. Reach(r.near)'
  BY <1>2, <1>4, <1>5, NearIs DEF Reach, LedBy, Active, TablesOf
<1>8. ASSUME ~(r.near \cap Table \subseteq floorDoubt')
       PROVE  lost = {}
  BY <1>2, <1>4, <1>8
<1>9. ~Doomed(s)' => Reads(s)'
  BY <1>2, <1>4, <1>8 DEF Doomed, Reads, AboutOrder, Closing, Seated, IsOpen,
     GroupsOf, Active, OriginalsOf
<1>10. ASSUME NEW g \in DOMAIN group, Active(g), NEW m \in group[g].members,
              m.orig \in r.near, m.orig # group[g].primary, m.table \in Sure'
       PROVE  FALSE
  <2>1. m.orig = o /\ m.table \in Table /\ m.table \notin floorDoubt' /\ m.table \in Sure
    BY <1>4, <1>5, <1>10, RowsAre DEF FloorInv, Sure
  <2>2. g \in GroupsOf(o) /\ m.table \in TablesOf(g)
    BY <1>10, <2>1 DEF GroupsOf, OriginalsOf, TablesOf
  <2>3. op = "delete"
    BY <1>10, <2>1, ListedIsMerged DEF IsOpen
  <2>4. QED
    BY <1>2, <1>8, <2>1, <2>2, <2>3, NearIs
<1>11. r \in Work
  BY <1>1, AboutTyped DEF AllFloorOps
<1>12. QED
  BY <1>2, <1>3, <1>6, <1>7, <1>9, <1>10, <1>11, AboutStep DEF AboutOrder

\* collectPayment reads an order,
LEMMA PayStarts ==
  ASSUME FloorInv, NEW s \in Waiter, ReadForPayAtTable(s)
  PROVE  FloorInv'
<1>1. PICK o \in Orders : IsOpen(o) /\ ~orders[o].deleted /\ Starts(s, About("pay", o), {})
  BY DEF ReadForPayAtTable, Starts, MayStart
<1>2. QED
  BY <1>1, OneOrderStarts DEF Seated, IsOpen, Known

\* cancelOrder does,
LEMMA CancelStarts ==
  ASSUME FloorInv, NEW s \in Waiter, ReadForCancel(s)
  PROVE  FloorInv'
<1>1. PICK o \in Orders : /\ IsOpen(o)
                          /\ Starts(s, About("cancel", o), IF orders[o].deleted THEN Near(o) ELSE {})
  BY DEF ReadForCancel, Starts, MayStart
<1>2. PICK lost : lost = IF orders[o].deleted THEN Near(o) ELSE {}
  OBVIOUS
<1>3. Near(o) # {}
  BY NearIs
<1>4. QED
  BY <1>1, <1>2, <1>3, OneOrderStarts DEF Seated, IsOpen, Known

\* and deleteOrder.
LEMMA DeleteStarts ==
  ASSUME FloorInv, NEW s \in Waiter, ReadForDelete(s)
  PROVE  FloorInv'
<1>1. PICK o \in Orders :
        /\ Known(o) /\ ~orders[o].deleted
        /\ Starts(s, About("delete", o),
                  IF IsOpen(o) /\ LedBy(o) \cup GroupsOf(o) = {} THEN {} ELSE Near(o))
  BY DEF ReadForDelete, Starts, MayStart
<1>2. PICK lost : lost = IF IsOpen(o) /\ LedBy(o) \cup GroupsOf(o) = {} THEN {} ELSE Near(o)
  OBVIOUS
<1>3. Near(o) # {}
  BY NearIs
<1>4. QED
  BY <1>1, <1>2, <1>3, OneOrderStarts DEF Seated

\* mergeOrders reads two orders and the group of the second.
LEMMA MergeStarts ==
  ASSUME FloorInv, NEW s \in Waiter, ReadForMerge(s)
  PROVE  FloorInv'
<1>1. PICK o \in Orders, p \in Orders :
        /\ MayStart(s, "merge") /\ o # p
        /\ Known(o) /\ Known(p) /\ ~Closed(o) /\ ~Closed(p) /\ GroupsOf(o) = {}
        /\ LET r == [About("merge", o) EXCEPT !.to = orders[p].at, !.other = p,
                      !.grp = FirstLedBy(p), !.near = Near(o) \cup Near(p)]
           IN Start(s, r, IF orders[o].deleted \/ orders[p].deleted THEN r.near ELSE {})
        /\ UNCHANGED <<table, orders, group>>
  BY DEF ReadForMerge
<1>2. PICK r : r = [About("merge", o) EXCEPT !.to = orders[p].at, !.other = p,
                      !.grp = FirstLedBy(p), !.near = Near(o) \cup Near(p)]
  OBVIOUS
<1>3. PICK lost : lost = IF orders[o].deleted \/ orders[p].deleted THEN r.near ELSE {}
  OBVIOUS
<1>4. /\ r.op = "merge" /\ r.phase = "checked" /\ r.ord = o /\ r.at = orders[o].at
      /\ r.to = orders[p].at /\ r.other = p /\ r.grp = FirstLedBy(p)
      /\ r.has = orders[o].has /\ r.near = Near(o) \cup Near(p)
  BY <1>2 DEF About, NoWork
<1>5. Starts(s, r, lost)
  BY <1>1, <1>2, <1>3 DEF Starts, MayStart
<1>6. /\ work'[s] = r /\ \A u \in Waiter \ {s} : work'[u] = work[u]
      /\ lost \cap Table \subseteq floorDoubt' /\ floorDoubt' \subseteq Table
      /\ floorDoubt \subseteq floorDoubt' /\ orders' = orders /\ group' = group /\ table' = table
  BY <1>5, StartDoubt DEF Starts
<1>7. /\ r.near \cap Orders = {o, p} /\ r.near \subseteq Table \cup Orders
      /\ orders[o].at \in (Table \cap r.near) \cup {NoTable} /\ o \in r.near
      /\ orders[p].at \in (Table \cap r.near) \cup {NoTable} /\ p \in r.near
  BY <1>4, NearIs, RowsAre DEF FloorInv
<1>8. IsOpen(o) /\ IsOpen(p)
  BY <1>1, RowsAre DEF FloorInv, OrderStatus, Known, Closed, Voided, IsOpen
<1>9. r.grp # 0 => r.grp \in DOMAIN group /\ group[r.grp].primary = p
  BY <1>4, FirstLed DEF FloorInv, LedBy
<1>10. Holds(s)'
  BY <1>1, <1>4, <1>6, <1>7, <1>9 DEF Holds, AboutOrder, Closing, Known
<1>11. Reach(r.near)'
  BY <1>1, <1>4, <1>6, <1>7, NearIs DEF Reach, LedBy, Active, TablesOf
<1>12. ASSUME ~(r.near \cap Table \subseteq floorDoubt')
       PROVE  Seated(o) /\ Seated(p)
  BY <1>3, <1>6, <1>8, <1>12 DEF Seated
<1>13. FirstLedBy(p)' = FirstLedBy(p)
  BY <1>6 DEF FirstLedBy, LedBy, Active
<1>14. ~Doomed(s)' => Reads(s)'
  <2>1. SUFFICES ASSUME ~Doomed(s)', NEW q, q = r.other PROVE Reads(s)'
    <3>1. PICK q : q = r.other
      OBVIOUS
    <3>2. QED
      BY <2>1, <3>1
  <2>2. Seated(o)' /\ Seated(p)' /\ GroupsOf(o)' = {}
    BY <1>1, <1>6, <1>12, <2>1 DEF Doomed, Seated, IsOpen, GroupsOf, Active, OriginalsOf
  <2>3. QED
    BY <1>4, <1>6, <1>13, <2>1, <2>2 DEF Reads, AboutOrder, Closing
<1>15. ASSUME NEW g \in DOMAIN group, Active(g), NEW m \in group[g].members,
              m.orig \in r.near, m.orig # group[g].primary, m.table \in Sure'
       PROVE  FALSE
  <2>1. m.orig \in {o, p} /\ m.table \in Sure
    BY <1>6, <1>7, <1>15, RowsAre DEF FloorInv, Sure
  <2>2. QED
    BY <1>8, <1>15, <2>1, ListedIsMerged DEF IsOpen
<1>16. r \in Work
  <2>1. FirstLedBy(p) \in 0..MaxGroups
    BY <1>4, <1>9, RowsAre, FloorBoundAssumption DEF FloorInv
  <2>2. r = [op |-> "merge", phase |-> "checked", ord |-> o, at |-> r.at, to |-> r.to,
             other |-> p, has |-> orders[o].has, grp |-> r.grp, todo |-> {}, near |-> r.near]
    BY <1>2 DEF About, NoWork
  <2>3. orders[o].has \subseteq Orders
    BY RowsAre DEF FloorInv
  <2>4. QED
    BY <1>4, <1>7, <2>1, <2>2, <2>3, WorkTyped DEF AllFloorOps
<1>17. QED
  BY <1>1, <1>4, <1>5, <1>10, <1>11, <1>14, <1>15, <1>16, AboutStep DEF AboutOrder

\* splitOrders reads a group, its tables and its orders.
LEMMA SplitStarts ==
  ASSUME FloorInv, NEW s \in Waiter, ReadForSplit(s)
  PROVE  FloorInv'
<1>1. PICK g \in DOMAIN group :
        /\ MayStart(s, "split") /\ Active(g)
        /\ Start(s, [NoWork EXCEPT !.op = "split", !.phase = "checked", !.grp = g,
                      !.has = OriginalsOf(g), !.todo = TablesOf(g),
                      !.near = UNION {Near(o) : o \in OriginalsOf(g)}], {})
        /\ UNCHANGED <<table, orders, group>>
  BY DEF ReadForSplit
<1>2. PICK r : r = [NoWork EXCEPT !.op = "split", !.phase = "checked", !.grp = g,
                      !.has = OriginalsOf(g), !.todo = TablesOf(g),
                      !.near = UNION {Near(o) : o \in OriginalsOf(g)}]
  OBVIOUS
<1>3. /\ r.op = "split" /\ r.phase = "checked" /\ r.grp = g /\ r.ord = NullOrder
      /\ r.has = OriginalsOf(g) /\ r.todo = TablesOf(g)
      /\ r.near = UNION {Near(o) : o \in OriginalsOf(g)}
  BY <1>2 DEF NoWork
<1>4. Starts(s, r, {})
  BY <1>1, <1>2 DEF Starts, MayStart
<1>5. /\ work'[s] = r /\ \A u \in Waiter \ {s} : work'[u] = work[u]
      /\ floorDoubt \subseteq floorDoubt' /\ orders' = orders /\ group' = group
  BY <1>4, StartDoubt DEF Starts
<1>6. OriginalsOf(g) \subseteq Orders /\ group[g].primary \in OriginalsOf(g)
  BY RowsAre DEF FloorInv, OriginalsOf
<1>7. /\ r.near \cap Orders = OriginalsOf(g) /\ r.near \subseteq Table \cup Orders
      /\ \A o \in OriginalsOf(g) : Near(o) \subseteq r.near
  BY <1>3, <1>6, NearIs
<1>8. TablesOf(g) \subseteq r.near
  <2>1. g \in GroupsOf(group[g].primary)
    BY <1>1, <1>6 DEF GroupsOf
  <2>2. QED
    BY <1>6, <1>7, <2>1, NearIs
<1>9. Holds(s)'
  BY <1>1, <1>3, <1>5, <1>6, <1>7, <1>8 DEF Holds, AboutOrder, Closing
<1>10. Reach(r.near)'
  <2>1. ASSUME NEW o \in Orders \cap r.near
        PROVE  /\ orders[o].at \in r.near \cup {NoTable}
               /\ \A h \in LedBy(o) : TablesOf(h) \subseteq r.near
    BY <1>6, <1>7, NearIs
  <2>2. QED
    BY <1>5, <2>1 DEF Reach, LedBy, Active, TablesOf
<1>11. Reads(s)'
  BY <1>1, <1>3, <1>5 DEF Reads, AboutOrder, Closing, Active, TablesOf, OriginalsOf
<1>12. ASSUME NEW h \in DOMAIN group, Active(h), NEW m \in group[h].members,
              m.orig \in r.near, m.orig # group[h].primary, m.table \in Sure'
       PROVE  h = g
  <2>1. m.table \in Sure /\ m.table \in Table /\ m.orig \in OriginalsOf(g)
    BY <1>5, <1>7, <1>12, RowsAre DEF FloorInv, Sure
  <2>2. PICK n \in group[g].members : n.orig = m.orig
    BY <2>1 DEF OriginalsOf
  <2>3. orders[m.orig].at = m.table
    BY <1>12, <2>1 DEF FloorInv, MemberInv, MemberOK
  <2>4. n.table = m.table
    BY <1>1, <2>1, <2>2, <2>3, FloorNullAssumption DEF FloorInv, MemberInv, MemberOK, Sure
  <2>5. QED
    BY <1>1, <1>12, <2>1, <2>4 DEF FloorInv, SureMemberInv, SureMember
<1>13. \A u \in Waiter \ {s} : work[u].op = "create" => r.ord # work[u].ord
  BY <1>3, FloorNullAssumption DEF FloorInv, HoldsInv, Holds, AboutOrder
<1>14. r \in Work
  <2>1. g \in 0..MaxGroups /\ TablesOf(g) \subseteq Table /\ OriginalsOf(g) \subseteq Orders
    BY RowsAre DEF FloorInv
  <2>2. QED
    BY <1>2, <1>3, <1>7, <2>1 DEF Work, NoWork, AllFloorOps
<1>15. QED
  BY <1>3, <1>4, <1>9, <1>10, <1>11, <1>12, <1>13, <1>14, StartStep

\* deleteTable reads a table at which no order is open.
LEMMA DropStarts ==
  ASSUME FloorInv, NEW s \in Waiter, ReadForDropTable(s)
  PROVE  FloorInv'
<1>1. PICK t \in Table :
        /\ MayStart(s, "dropTable")
        /\ \A o \in Orders : orders[o].at = t /\ ~orders[o].deleted => ~Known(o) \/ Closed(o)
        /\ Start(s, [NoWork EXCEPT !.op = "dropTable", !.phase = "checked",
                      !.at = t, !.near = {t}], {})
        /\ UNCHANGED <<table, orders, group>>
  BY DEF ReadForDropTable
<1>2. PICK r : r = [NoWork EXCEPT !.op = "dropTable", !.phase = "checked", !.at = t, !.near = {t}]
  OBVIOUS
<1>3. /\ r.op = "dropTable" /\ r.phase = "checked" /\ r.at = t /\ r.near = {t} /\ r.ord = NullOrder
  BY <1>2 DEF NoWork
<1>4. Starts(s, r, {})
  BY <1>1, <1>2 DEF Starts, MayStart
<1>5. work'[s] = r /\ \A u \in Waiter \ {s} : work'[u] = work[u]
  BY <1>4, StartDoubt DEF Starts
<1>6. r.near \cap Orders = {}
  BY <1>3, FloorIdAssumption
<1>7. Holds(s)'
  BY <1>3, <1>5 DEF Holds, AboutOrder, Closing
<1>8. Reach(r.near)'
  BY <1>6 DEF Reach
<1>9. SittingAt(t)' = {}
  BY <1>1 DEF SittingAt, IsOpen, Known, Closed, Voided
<1>10. Reads(s)'
  <2>1. SUFFICES ASSUME NEW q, q = r.at PROVE Reads(s)'
    <3>1. PICK q : q = r.at
      OBVIOUS
    <3>2. QED
      BY <2>1, <3>1
  <2>2. QED
    BY <1>3, <1>5, <1>9, <2>1 DEF Reads, AboutOrder, Closing
<1>11. \A g \in DOMAIN group : \A m \in group[g].members : m.orig \notin r.near
  BY <1>6, RowsAre DEF FloorInv
<1>12. \A u \in Waiter \ {s} : work[u].op = "create" => r.ord # work[u].ord
  BY <1>3, FloorNullAssumption DEF FloorInv, HoldsInv, Holds, AboutOrder
<1>13. r \in Work
  <2>1. r = [op |-> "dropTable", phase |-> "checked", ord |-> NullOrder, at |-> t, to |-> NoTable,
             other |-> NullOrder, has |-> {}, grp |-> 0, todo |-> {}, near |-> {t}]
    BY <1>2 DEF NoWork
  <2>2. QED
    BY <2>1, FloorBoundAssumption, WorkTyped DEF AllFloorOps
<1>14. QED
  BY <1>3, <1>4, <1>7, <1>8, <1>10, <1>11, <1>12, <1>13, StartStep

-----------------------------------------------------------------------------
(* Steps in which a request commits *)

\* No group grows.
Shrinks ==
  /\ group' \in Seq(Group) /\ Len(group') = Len(group)
  /\ \A g \in DOMAIN group : /\ group'[g].members = group[g].members
                             /\ group'[g].primary = group[g].primary
                             /\ Active(g)' => Active(g)

\* A change of a group's status that ends it is such a step.
LEMMA ShrinksIf ==
  ASSUME FloorInv, \/ group' = group
                   \/ \E g \in DOMAIN group, status \in {"SPLIT", "COMPLETED"} :
                        group' = [group EXCEPT ![g].status = status]
  PROVE  Shrinks /\ DOMAIN group' = DOMAIN group
<1>1. group \in Seq(Group) /\ Len(group) \in Nat /\ DOMAIN group = 1..Len(group)
  BY RowsAre DEF FloorInv
<1>2. ASSUME NEW g \in DOMAIN group, NEW status \in {"SPLIT", "COMPLETED"},
             group' = [group EXCEPT ![g].status = status]
      PROVE  Shrinks /\ DOMAIN group' = DOMAIN group
  <2>1. group[g] \in Group
    BY <1>1
  <2>2. /\ [group[g] EXCEPT !.status = status] \in Group
        /\ [group[g] EXCEPT !.status = status].status = status
        /\ [group[g] EXCEPT !.status = status].members = group[g].members
        /\ [group[g] EXCEPT !.status = status].primary = group[g].primary
    BY <1>2, <2>1 DEF Group
  <2>3. PICK x \in Group : /\ x = [group[g] EXCEPT !.status = status]
                           /\ x.status = status /\ x.members = group[g].members
                           /\ x.primary = group[g].primary
    BY <2>2
  <2>4. group' = [group EXCEPT ![g] = x]
    BY <1>2, <2>3
  <2>5. group' \in Seq(Group) /\ Len(group') = Len(group) /\ DOMAIN group' = DOMAIN group
    BY <1>1, <2>4
  <2>6. \A h \in DOMAIN group : group'[h] = IF h = g THEN x ELSE group[h]
    BY <1>1, <2>4
  <2>7. QED
    BY <1>2, <2>3, <2>5, <2>6 DEF Shrinks, Active
<1>3. QED
  BY <1>1, <1>2 DEF Shrinks, Active

\* The rows stay what they are.
LEMMA RowsKept ==
  ASSUME FloorInv, table' \in [Table -> TableStatus], orders' \in [Orders -> SeatedRow], Shrinks,
         DOMAIN work' = Waiter, \A s \in Waiter : work'[s] \in Work, floorDoubt' \subseteq Table,
         \A o \in Orders : (Known(o) => Known(o)') /\ (~Known(o)' => orders'[o].at = NoTable)
  PROVE  RowsInv'
<1>1. DOMAIN group' = DOMAIN group /\ Len(group') <= MaxGroups
  BY DEF Shrinks, FloorInv, RowsInv, FloorTypeOK
<1>2. \A g \in DOMAIN group' : /\ group'[g].primary \in OriginalsOf(g)'
                               /\ \A m \in group'[g].members : Known(m.orig)'
  BY <1>1, RowsAre DEF Shrinks, FloorInv, OriginalsOf
<1>3. QED
  BY <1>1, <1>2 DEF RowsInv, FloorTypeOK, Shrinks

\* A request that is done holds nothing.
LEMMA DoneIs ==
  ASSUME FloorInv, NEW s \in Waiter, Done(s)
  PROVE  /\ DOMAIN work' = Waiter /\ work'[s] = NoWork /\ Holds(s)' /\ Doomed(s)'
         /\ \A u \in Waiter \ {s} : work'[u] = work[u]
         /\ \A u \in Waiter : work'[u] \in Work
<1>1. DOMAIN work = Waiter /\ \A u \in Waiter : work[u] \in Work
  BY DEF FloorInv, RowsInv, FloorTypeOK
<1>2. work'[s] = NoWork /\ DOMAIN work' = Waiter /\ \A u \in Waiter \ {s} : work'[u] = work[u]
  BY <1>1 DEF Done
<1>3. NoWork \in Work
  BY FloorBoundAssumption DEF NoWork, Work
<1>4. Holds(s)' /\ Doomed(s)'
  BY <1>2 DEF Holds, Doomed, NoWork, AboutOrder, Closing
<1>5. QED
  BY <1>1, <1>2, <1>3, <1>4

\* A request of s commits what is near it.
LEMMA OwnStep ==
  ASSUME FloorInv, NEW s \in Waiter, NEW N, N = work[s].near,
         Touch(N), RowsInv', Holds(s)',
         \A u \in Waiter \ {s} : work'[u] = work[u],
         \/ work'[s] = NoWork
         \/ /\ work'[s].near = N /\ work'[s].ord = work[s].ord
            /\ work'[s].op = "cancel" /\ work[s].op = "cancel",
         \A o \in Orders : /\ ~Known(o) /\ Known(o)' => work[s].op = "create" /\ o = work[s].ord
                           /\ Known(o) => Known(o)',
         N \cap Table \subseteq floorDoubt' \/ Local(s, N)
  PROVE  FloorInv'
<1>1. floorDoubt \subseteq floorDoubt'
  BY DEF Touch
<1>2. Holds(s) /\ Reach(N)
  BY DEF FloorInv, HoldsInv, ReachInv
<1>3. N \subseteq Table \cup Orders
  BY <1>2 DEF Holds
<1>4. \A u \in Waiter \ {s} : work[u].near \cap N # {} =>
        Doomed(u)' /\ N \cap Table \subseteq floorDoubt'
  BY <1>1 DEF FloorInv, MeetInv, Doomed
<1>5. \A o \in Orders \cap N :
       /\ orders[o].at \in N \cup floorDoubt' \cup {NoTable}
       /\ \A g \in LedBy(o) : TablesOf(g) \subseteq N \cup floorDoubt'
  BY <1>1, <1>2 DEF Reach
<1>6. \A g \in DOMAIN group : Active(g) => \A m \in group[g].members :
       m.orig \in N /\ m.orig # group[g].primary /\ m.table \in Sure' \ N => group[g].primary \in N
  <2>1. Sure' \subseteq Sure
    BY <1>1 DEF Sure
  <2>2. QED
    BY <1>2, <2>1 DEF FloorInv, MemberInv, MemberOK, Holds
<1>7. Serves(s, N)
  BY <1>3, <1>4, <1>5, <1>6 DEF Serves
<1>8. QED
  BY <1>7, CommitStep DEF Commits

\* What is left to show of a step that changes no member.
LEMMA ShrinkLocal ==
  ASSUME FloorInv, NEW s \in Waiter, NEW N, Shrinks, floorDoubt \subseteq floorDoubt',
         ~Doomed(s)' => Reads(s)',
         \A o \in Orders \cap N : orders'[o].status = "MERGED" =>
           /\ orders[o].status = "MERGED"
           /\ orders'[o].at = orders[o].at /\ orders'[o].has = orders[o].has,
         \A t \in Sure' \cap N : TableOK(t)' /\ SeatOK(t)',
         \A g \in DOMAIN group : Active(g)' => \A m \in group[g].members :
           m.table \in Sure' \cap N =>
             /\ SittingAt(m.table)' \subseteq {m.orig}
             /\ m.orig # group[g].primary =>
                  orders'[m.orig].status = "MERGED" /\ ~orders'[m.orig].deleted
             /\ m.orig = group[g].primary =>
                  \/ Seated(m.orig)'
                  \/ \E u \in Waiter : Closing(u)' /\ work'[u].ord = m.orig
  PROVE  Local(s, N)
<1>1. DOMAIN group' = DOMAIN group /\ Sure' \subseteq Sure
  BY RowsAre DEF Shrinks, Sure, FloorInv
<1>2. \A o : LedBy(o)' \subseteq LedBy(o)
  BY <1>1 DEF LedBy, Shrinks
<1>3. ASSUME NEW g \in DOMAIN group, Active(g)', NEW m \in group[g].members, m.table \in Sure' \cap N
      PROVE  SureMember(g, m)'
  <2>1. SureMember(g, m)
    BY <1>1, <1>3 DEF FloorInv, SureMemberInv, Shrinks
  <2>2. PICK q : q = group[g].primary /\ q = group'[g].primary
    BY DEF Shrinks
  <2>3. \A h \in LedBy(q)' : g <= h
    BY <1>2, <2>1, <2>2 DEF SureMember
  <2>4. m.orig # q => LedBy(m.orig)' = {}
    BY <1>2, <2>1, <2>2 DEF SureMember
  <2>5. \A h \in DOMAIN group' : Active(h)' =>
          \A n \in group'[h].members : n.table = m.table => h = g /\ n = m
    BY <1>1, <2>1 DEF SureMember, Shrinks
  <2>6. SUFFICES ASSUME NEW r, r = group'[g].primary,
                        \A h \in LedBy(r)' : g <= h
                 PROVE  SureMember(g, m)'
    BY <2>2, <2>3
  <2>7. r = q
    BY <2>2, <2>6
  <2>8. QED
    BY <1>3, <2>2, <2>4, <2>5, <2>6, <2>7 DEF SureMember
<1>4. \A o \in Orders \cap N :
       orders'[o].status = "MERGED" /\ orders'[o].at \in Sure' => orders'[o].has = {}
  BY <1>1 DEF FloorInv, NothingStranded, Sure
<1>5. QED
  BY <1>1, <1>3, <1>4 DEF Local, Shrinks

\* What a request that is not in doubt altogether knows.
LEMMA Undisturbed ==
  ASSUME FloorInv, NEW s \in Waiter, NEW N, N = work[s].near, ~(N \cap Table \subseteq floorDoubt)
  PROVE  /\ Reads(s)
         /\ \A u \in Waiter \ {s} : work[u].near \cap N = {}
         /\ \A o \in Orders \cap N, u \in Waiter : Closing(u) /\ work[u].ord = o => u = s
         /\ \A t \in Sure \cap N : Released(t) =>
              Closing(s) /\ \E g \in LedBy(work[s].ord) : t \in TablesOf(g)
<1>1. \A u \in Waiter \ {s} : work[u].near \cap N = {}
  BY DEF FloorInv, MeetInv, Doomed
<1>2. Reads(s)
  BY DEF FloorInv, ReadInv, Doomed
<1>3. \A o \in Orders \cap N, u \in Waiter : Closing(u) /\ work[u].ord = o => u = s
  BY <1>1 DEF FloorInv, HoldsInv, Holds, AboutOrder
<1>4. \A t \in Sure \cap N : Released(t) =>
        Closing(s) /\ \E g \in LedBy(work[s].ord) : t \in TablesOf(g)
  BY <1>1 DEF Released, LedBy
<1>5. QED
  BY <1>1, <1>2, <1>3, <1>4

\* A table that is not in doubt and free seats nobody.
LEMMA FreeTable ==
  ASSUME FloorInv, NEW t \in Sure, table[t] = "AVAILABLE", ~Released(t)
  PROVE  SittingAt(t) = {} /\ ~InGroup(t)
  BY DEF FloorInv, TableInv, TableOK, IsTable

\* Who sits at a table that is not in doubt sits there alone, and a group that lists the
\* table lists it for the order, which leads the group.
LEMMA SeatedAlone ==
  ASSUME FloorInv, NEW o \in Orders, Seated(o), NEW t \in Sure, orders[o].at = t
  PROVE  /\ SittingAt(t) = {o}
         /\ \A g \in DOMAIN group : Active(g) => \A m \in group[g].members : m.table = t =>
              m.orig = o /\ group[g].primary = o /\ g = FirstLedBy(o)
<1>1. o \in SittingAt(t) /\ SittingAt(t) = {o}
  BY DEF SittingAt, Seated, FloorInv, TableInv, SeatOK
<1>2. ASSUME NEW g \in DOMAIN group, Active(g), NEW m \in group[g].members, m.table = t
      PROVE  m.orig = o /\ group[g].primary = o /\ g = FirstLedBy(o)
  <2>1. SureMember(g, m)
    BY <1>2 DEF FloorInv, SureMemberInv
  <2>2. m.orig = o
    BY <1>1, <1>2, <2>1 DEF SureMember
  <2>3. group[g].primary = o
    BY <2>1, <2>2 DEF SureMember, Seated, IsOpen
  <2>4. g \in LedBy(o) /\ \A h \in LedBy(o) : g <= h
    BY <1>2, <2>1, <2>3 DEF SureMember, LedBy
  <2>5. QED
    BY <2>2, <2>3, <2>4, FirstLed DEF FloorInv
<1>3. QED
  BY <1>1, <1>2

\* Setting one order.
LEMMA OrderSet ==
  ASSUME FloorInv, NEW o \in Orders, NEW x \in SeatedRow, orders' = [orders EXCEPT ![o] = x]
  PROVE  /\ orders' \in [Orders -> SeatedRow] /\ orders'[o] = x
         /\ \A q \in Orders \ {o} : orders'[q] = orders[q]
<1>1. orders \in [Orders -> SeatedRow]
  BY DEF FloorInv, RowsInv, FloorTypeOK
<1>2. QED
  BY <1>1

\* Marking tables.
LEMMA MarkIs ==
  ASSUME FloorInv, NEW ts, NEW status \in TableStatus, table' = Mark(ts, status)
  PROVE  /\ table' \in [Table -> TableStatus]
         /\ \A t \in Table : table'[t] = IF t \in ts THEN status ELSE table[t]
  BY RowsAre DEF FloorInv, Mark

\* What such a step touches.
LEMMA ShrinkTouch ==
  ASSUME FloorInv, NEW N, Shrinks, floorDoubt \subseteq floorDoubt',
         \A t \in Table : t \notin N \cup floorDoubt => table'[t] = table[t],
         \A o \in Orders \ N : orders'[o] = orders[o],
         \A o \in Orders \cap N :
           \/ orders'[o].at = orders[o].at
           \/ /\ orders'[o].at \in N \cup {NoTable}
              /\ N \cap Table \subseteq floorDoubt' \/ GroupsOf(o) = {},
         \A g \in DOMAIN group : group[g].primary \notin N => group'[g] = group[g]
  PROVE  Touch(N)
<1>1. DOMAIN group' = DOMAIN group
  BY RowsAre DEF Shrinks, FloorInv
<1>2. \A g \in DOMAIN group :
       /\ group'[g].primary = group[g].primary
       /\ group[g].primary \notin N => group'[g] = group[g]
       /\ group[g].members \subseteq group'[g].members
       /\ \A m \in group'[g].members \ group[g].members : m.orig \in N /\ m.table \in N
       /\ Active(g)' => Active(g)
  BY DEF Shrinks
<1>3. \A o \in Orders \ N :
       /\ orders'[o].status = orders[o].status /\ orders'[o].deleted = orders[o].deleted
       /\ orders'[o].has \subseteq orders[o].has /\ orders'[o].at = orders[o].at
  OBVIOUS
<1> QED
  BY <1>1, <1>2, <1>3 DEF Touch

\* createOrder commits: the table it seats the order at was free and still is.
LEMMA CreateStep ==
  ASSUME FloorInv, NEW s \in Waiter, Create(s)
  PROVE  FloorInv'
<1>1. PICK N, o, t : N = work[s].near /\ o = work[s].ord /\ t = work[s].at
  OBVIOUS
<1>2. /\ work[s].op = "create" /\ o \in Orders \cap N /\ t \in (Table \cap N) \cup {NoTable}
      /\ ~Known(o) /\ N \subseteq Table \cup Orders /\ ~Closing(s)
  BY <1>1 DEF Create, FloorInv, HoldsInv, Holds, AboutOrder
<1>3. PICK x \in SeatedRow : x = [NoRow EXCEPT !.status = "OPEN", !.at = t, !.has = {o}]
  BY <1>2 DEF NoRow, SeatedRow, OrderStatus
<1>4. x.status = "OPEN" /\ x.at = t /\ ~x.deleted
  BY <1>3 DEF NoRow
<1>5. orders' = [orders EXCEPT ![o] = x] /\ table' = Mark({t}, "OCCUPIED")
  BY <1>1, <1>3 DEF Create
<1>6. /\ orders' \in [Orders -> SeatedRow] /\ orders'[o] = x
      /\ \A q \in Orders \ {o} : orders'[q] = orders[q]
  BY <1>2, <1>5, OrderSet
<1>7. /\ table' \in [Table -> TableStatus]
      /\ \A q \in Table : table'[q] = IF q = t THEN "OCCUPIED" ELSE table[q]
  BY <1>5, MarkIs DEF TableStatus
<1>8. group' = group /\ floorDoubt' = floorDoubt /\ Done(s)
  BY DEF Create
<1>9. Shrinks
  BY <1>8, ShrinksIf
<1>10. RowsInv'
  <2>1. Known(o)' /\ \A q \in Orders \ {o} : (Known(q) <=> Known(q)') /\ orders'[q] = orders[q]
    BY <1>4, <1>6 DEF Known
  <2>2. QED
    BY <1>6, <1>7, <1>8, <1>9, <2>1, DoneIs, RowsKept, RowsAre DEF FloorInv
<1>11. GroupsOf(o) = {} /\ orders[o].at = NoTable
  BY <1>2, RowsAre DEF FloorInv, GroupsOf, OriginalsOf
<1>12. Touch(N)
  BY <1>2, <1>4, <1>6, <1>7, <1>8, <1>9, <1>11, ShrinkTouch, FloorNullAssumption
<1>13. ASSUME ~(N \cap Table \subseteq floorDoubt)
       PROVE  Local(s, N)
  <2>1. /\ Reads(s) /\ \A q \in Sure \cap N : ~Released(q)
        /\ \A q \in Orders \cap N, u \in Waiter : Closing(u) /\ work[u].ord = q => u = s
    BY <1>1, <1>2, <1>13, Undisturbed
  <2>2. t \in Sure => SittingAt(t) = {} /\ ~InGroup(t)
    BY <1>1, <1>2, <2>1, FreeTable, FloorNullAssumption DEF Reads, Sure
  <2>3. \A q \in Table : SittingAt(q)' = IF q = t THEN SittingAt(q) \cup {o} ELSE SittingAt(q)
    BY <1>2, <1>4, <1>6 DEF SittingAt, IsOpen, Known
  <2>4. \A q : InGroup(q)' <=> InGroup(q)
    BY <1>8 DEF InGroup, Active, TablesOf
  <2>5. ASSUME NEW q \in Sure' \cap N PROVE TableOK(q)' /\ SeatOK(q)'
    <3>1. q \in Sure /\ q \in Table /\ TableOK(q) /\ SeatOK(q) /\ ~Released(q)
      BY <1>8, <2>1, <2>5 DEF FloorInv, TableInv, Sure
    <3>2. CASE q = t
      BY <1>7, <2>2, <2>3, <3>1, <3>2 DEF TableOK, SeatOK
    <3>3. CASE q # t
      BY <1>7, <2>3, <2>4, <3>1, <3>3 DEF TableOK, SeatOK, IsTable
    <3>4. QED
      BY <3>2, <3>3
  <2>6. ASSUME NEW g \in DOMAIN group, Active(g), NEW m \in group[g].members, m.table \in Sure' \cap N
        PROVE  /\ SittingAt(m.table)' \subseteq {m.orig}
               /\ m.orig # group[g].primary =>
                    orders'[m.orig].status = "MERGED" /\ ~orders'[m.orig].deleted
               /\ m.orig = group[g].primary =>
                    Seated(m.orig)' \/ \E u \in Waiter : Closing(u)' /\ work'[u].ord = m.orig
    <3>1. SureMember(g, m) /\ m.table \in Sure /\ m.table \in Table
      BY <1>8, <2>6 DEF FloorInv, SureMemberInv, Sure
    <3>2. m.table # t /\ m.orig \in Orders \ {o}
      BY <1>2, <2>2, <2>6, <3>1, RowsAre DEF InGroup, TablesOf, FloorInv
    <3>3. SittingAt(m.table)' = SittingAt(m.table)
      BY <2>3, <3>1, <3>2
    <3>4. \A u \in Waiter : Closing(u) => Closing(u)' /\ work'[u] = work[u]
      BY <1>2, <1>8, DoneIs DEF Closing
    <3>5. QED
      BY <1>6, <3>1, <3>2, <3>3, <3>4 DEF SureMember, Seated, IsOpen
  <2>7. \A q \in Orders \cap N : orders'[q].status = "MERGED" => orders'[q] = orders[q]
    BY <1>4, <1>6
  <2>8. QED
    BY <1>8, <1>9, <2>5, <2>6, <2>7, DoneIs, ShrinkLocal DEF Active
<1>14. \A q \in Orders : /\ ~Known(q) /\ Known(q)' => q = o
                         /\ Known(q) => Known(q)'
  BY <1>4, <1>6 DEF Known
<1>15. QED
  BY <1>1, <1>2, <1>8, <1>10, <1>12, <1>13, <1>14, DoneIs, OwnStep

\* A table whose status, guests and groups stay as they were is right as it was.
LEMMA SameTable ==
  ASSUME FloorInv, NEW t \in Sure, ~Released(t), table'[t] = table[t],
         SittingAt(t)' = SittingAt(t), InGroup(t)' <=> InGroup(t)
  PROVE  TableOK(t)' /\ SeatOK(t)'
<1>1. TableOK(t) /\ SeatOK(t)
  BY DEF FloorInv, TableInv
<1>2. TableOK(t)'
  BY <1>1 DEF TableOK, IsTable
<1>3. SeatOK(t)'
  BY <1>1 DEF SeatOK
<1>4. QED
  BY <1>2, <1>3

\* A member of a group whose order and table a commit leaves alone.
LEMMA SameMember ==
  ASSUME FloorInv, NEW s \in Waiter, \A u \in Waiter \ {s} : work'[u] = work[u],
         NEW g \in DOMAIN group, Active(g), NEW m \in group[g].members, m.table \in Sure,
         SittingAt(m.table)' \subseteq SittingAt(m.table),
         orders'[m.orig].status = orders[m.orig].status,
         orders'[m.orig].deleted = orders[m.orig].deleted,
         Closing(s) => work[s].ord # m.orig
  PROVE  /\ SittingAt(m.table)' \subseteq {m.orig}
         /\ m.orig # group[g].primary =>
              orders'[m.orig].status = "MERGED" /\ ~orders'[m.orig].deleted
         /\ m.orig = group[g].primary =>
              Seated(m.orig)' \/ \E u \in Waiter : Closing(u)' /\ work'[u].ord = m.orig
<1>1. SureMember(g, m)
  BY DEF FloorInv, SureMemberInv
<1>2. \A u \in Waiter : Closing(u) /\ work[u].ord = m.orig => Closing(u)' /\ work'[u].ord = m.orig
  BY DEF Closing
<1>3. QED
  BY <1>1, <1>2 DEF SureMember, Seated, IsOpen

\* changeTable commits: the table left behind is free, for nobody else sat there.
LEMMA MoveStep ==
  ASSUME FloorInv, NEW s \in Waiter, Move(s)
  PROVE  FloorInv'
<1>1. PICK N, o, t, to : /\ N = work[s].near /\ o = work[s].ord /\ t = work[s].at
                         /\ to = work[s].to
  OBVIOUS
<1>2. /\ work[s].op = "move" /\ o \in Orders \cap N /\ t \in Table \cap N /\ to \in Table \cap N
      /\ Known(o) /\ N \subseteq Table \cup Orders /\ ~Closing(s)
  BY <1>1 DEF Move, FloorInv, HoldsInv, Holds, AboutOrder
<1>3. orders[o] \in SeatedRow
  BY <1>2 DEF FloorInv, RowsInv, FloorTypeOK
<1>4. PICK x : x = [orders[o] EXCEPT !.at = to]
  OBVIOUS
<1>5. /\ x \in SeatedRow /\ x.status = orders[o].status /\ x.at = to /\ x.deleted = orders[o].deleted
      /\ x.has = orders[o].has
  BY <1>2, <1>3, <1>4 DEF SeatedRow
<1>6. /\ orders' \in [Orders -> SeatedRow] /\ orders'[o] = x
      /\ \A q \in Orders \ {o} : orders'[q] = orders[q]
  <2>1. orders' = [orders EXCEPT ![o] = x]
    BY <1>1, <1>4 DEF Move
  <2>2. QED
    BY <1>2, <1>5, <2>1, OrderSet
<1>7. /\ table' \in [Table -> TableStatus]
      /\ \A q \in Table : table'[q] = IF q = to THEN "OCCUPIED"
                                      ELSE IF q = t THEN "AVAILABLE" ELSE table[q]
  <2>1. table' = [Mark({t}, "AVAILABLE") EXCEPT ![to] = "OCCUPIED"]
    BY <1>1 DEF Move
  <2>2. PICK f : f = Mark({t}, "AVAILABLE")
    OBVIOUS
  <2>3. f \in [Table -> TableStatus] /\ \A q \in Table : f[q] = IF q = t THEN "AVAILABLE" ELSE table[q]
    BY <2>2, RowsAre DEF FloorInv, Mark, TableStatus
  <2>4. QED
    BY <1>2, <2>1, <2>2, <2>3 DEF TableStatus
<1>8. group' = group /\ floorDoubt' = floorDoubt /\ Done(s)
  BY DEF Move
<1>9. Shrinks
  BY <1>8, ShrinksIf
<1>10. \A q \in Orders : Known(q) <=> Known(q)'
  BY <1>5, <1>6 DEF Known
<1>11. RowsInv'
  BY <1>2, <1>6, <1>7, <1>8, <1>9, <1>10, DoneIs, RowsKept, RowsAre DEF FloorInv
<1>12. ~(N \cap Table \subseteq floorDoubt) => GroupsOf(o) = {}
  BY <1>1, <1>2, Undisturbed DEF Reads
<1>13. Touch(N)
  BY <1>2, <1>5, <1>6, <1>7, <1>8, <1>9, <1>12, ShrinkTouch
<1>14. ASSUME ~(N \cap Table \subseteq floorDoubt)
       PROVE  Local(s, N)
  <2>1. /\ Reads(s) /\ \A q \in Sure \cap N : ~Released(q)
    BY <1>1, <1>2, <1>14, Undisturbed
  <2>2. /\ Seated(o) /\ orders[o].at = t /\ GroupsOf(o) = {}
        /\ to \in Sure => table[to] = "AVAILABLE"
    BY <1>1, <1>2, <2>1 DEF Reads, AboutOrder
  <2>3. to \in Sure => SittingAt(to) = {} /\ ~InGroup(to) /\ to # t
    <3>1. to \in Sure => SittingAt(to) = {} /\ ~InGroup(to)
      BY <1>2, <2>1, <2>2, FreeTable
    <3>2. o \in SittingAt(t)
      BY <1>2, <2>2 DEF SittingAt, Seated
    <3>3. QED
      BY <3>1, <3>2
  <2>4. t \in Sure => SittingAt(t) = {o} /\ ~InGroup(t)
    BY <1>2, <2>2, SeatedAlone DEF InGroup, GroupsOf, TablesOf, OriginalsOf
  <2>5. \A q \in Table : SittingAt(q)' = IF q = to THEN SittingAt(q) \cup {o}
                                         ELSE SittingAt(q) \ {o}
    BY <1>2, <1>5, <1>6, <2>2 DEF SittingAt, IsOpen, Seated
  <2>6. \A q \in Table : q # t => o \notin SittingAt(q)
    BY <2>2 DEF SittingAt
  <2>7. \A q : InGroup(q)' <=> InGroup(q)
    BY <1>8 DEF InGroup, Active, TablesOf
  <2>8. ASSUME NEW q \in Sure' \cap N PROVE TableOK(q)' /\ SeatOK(q)'
    <3>1. q \in Sure /\ q \in Table /\ ~Released(q)
      BY <1>8, <2>1, <2>8 DEF Sure
    <3>2. CASE q = to
      BY <1>7, <2>3, <2>5, <3>1, <3>2 DEF TableOK, SeatOK
    <3>3. CASE q = t /\ t # to
      <4>1. table'[q] = "AVAILABLE" /\ SittingAt(q)' = {} /\ ~InGroup(q)'
        BY <1>7, <2>4, <2>5, <2>7, <3>1, <3>3
      <4>2. QED
        BY <4>1 DEF TableOK, SeatOK
    <3>4. CASE q # t /\ q # to
      BY <1>7, <2>5, <2>6, <2>7, <3>1, <3>4, SameTable
    <3>5. QED
      BY <3>2, <3>3, <3>4
  <2>9. ASSUME NEW g \in DOMAIN group, Active(g), NEW m \in group[g].members, m.table \in Sure' \cap N
        PROVE  /\ SittingAt(m.table)' \subseteq {m.orig}
               /\ m.orig # group[g].primary =>
                    orders'[m.orig].status = "MERGED" /\ ~orders'[m.orig].deleted
               /\ m.orig = group[g].primary =>
                    Seated(m.orig)' \/ \E u \in Waiter : Closing(u)' /\ work'[u].ord = m.orig
    <3>1. m.table \in Sure /\ m.table \in Table /\ m.orig \in Orders
      BY <1>8, <2>9, RowsAre DEF Sure, FloorInv
    <3>2. m.table # to /\ m.orig # o
      BY <2>2, <2>3, <2>9, <3>1 DEF InGroup, TablesOf, GroupsOf, OriginalsOf
    <3>3. SittingAt(m.table)' \subseteq SittingAt(m.table)
      BY <2>5, <3>1, <3>2
    <3>4. orders'[m.orig] = orders[m.orig]
      BY <1>6, <3>1, <3>2
    <3>5. QED
      BY <1>2, <1>8, <2>9, <3>1, <3>3, <3>4, DoneIs, SameMember
  <2>10. \A q \in Orders \cap N : orders'[q].status = "MERGED" => orders'[q] = orders[q]
    BY <1>5, <1>6, <2>2 DEF Seated, IsOpen
  <2>11. QED
    BY <1>8, <1>9, <2>8, <2>9, <2>10, DoneIs, ShrinkLocal DEF Active
<1>15. QED
  BY <1>1, <1>8, <1>10, <1>11, <1>13, <1>14, DoneIs, OwnStep

\* deleteOrder commits: the table it frees is the order's own.
LEMMA DeleteStep ==
  ASSUME FloorInv, NEW s \in Waiter, Delete(s)
  PROVE  FloorInv'
<1>1. PICK N, o, t : N = work[s].near /\ o = work[s].ord /\ t = work[s].at
  OBVIOUS
<1>2. /\ work[s].op = "delete" /\ o \in Orders \cap N /\ t \in (Table \cap N) \cup {NoTable}
      /\ Known(o) /\ N \subseteq Table \cup Orders /\ ~Closing(s)
  BY <1>1 DEF Delete, FloorInv, HoldsInv, Holds, AboutOrder
<1>3. orders[o] \in SeatedRow
  BY <1>2 DEF FloorInv, RowsInv, FloorTypeOK
<1>4. PICK x : x = [orders[o] EXCEPT !.deleted = TRUE]
  OBVIOUS
<1>5. /\ x \in SeatedRow /\ x.status = orders[o].status /\ x.at = orders[o].at /\ x.deleted
      /\ x.has = orders[o].has
  BY <1>2, <1>3, <1>4 DEF SeatedRow
<1>6. /\ orders' \in [Orders -> SeatedRow] /\ orders'[o] = x
      /\ \A q \in Orders \ {o} : orders'[q] = orders[q]
  <2>1. orders' = [orders EXCEPT ![o] = x]
    BY <1>1, <1>4 DEF Delete
  <2>2. QED
    BY <1>2, <1>5, <2>1, OrderSet
<1>7. /\ table' \in [Table -> TableStatus]
      /\ \A q \in Table : table'[q] = IF q = t THEN "AVAILABLE" ELSE table[q]
  <2>1. table' = Mark({t}, "AVAILABLE")
    BY <1>1 DEF Delete
  <2>2. QED
    BY <2>1, MarkIs DEF TableStatus
<1>8. group' = group /\ floorDoubt' = floorDoubt /\ Done(s)
  BY DEF Delete
<1>9. Shrinks
  BY <1>8, ShrinksIf
<1>10. \A q \in Orders : (Known(q) <=> Known(q)') /\ orders'[q].at = orders[q].at
  BY <1>5, <1>6 DEF Known
<1>11. RowsInv'
  BY <1>6, <1>7, <1>8, <1>9, <1>10, DoneIs, RowsKept, RowsAre DEF FloorInv
<1>12. Touch(N)
  BY <1>2, <1>6, <1>7, <1>8, <1>9, <1>10, ShrinkTouch, FloorNullAssumption
<1>13. ASSUME ~(N \cap Table \subseteq floorDoubt)
       PROVE  Local(s, N)
  <2>1. /\ Reads(s) /\ \A q \in Sure \cap N : ~Released(q)
    BY <1>1, <1>2, <1>13, Undisturbed
  <2>2. Seated(o) /\ orders[o].at = t /\ GroupsOf(o) = {}
    BY <1>1, <1>2, <2>1 DEF Reads, AboutOrder
  <2>3. t \in Sure => SittingAt(t) = {o} /\ ~InGroup(t)
    BY <1>2, <2>2, SeatedAlone DEF InGroup, GroupsOf, TablesOf, OriginalsOf
  <2>4. \A q \in Table : SittingAt(q)' = SittingAt(q) \ {o}
    BY <1>2, <1>5, <1>6 DEF SittingAt, IsOpen
  <2>5. \A q \in Table : q # t => o \notin SittingAt(q)
    BY <2>2 DEF SittingAt
  <2>6. \A q : InGroup(q)' <=> InGroup(q)
    BY <1>8 DEF InGroup, Active, TablesOf
  <2>7. ASSUME NEW q \in Sure' \cap N PROVE TableOK(q)' /\ SeatOK(q)'
    <3>1. q \in Sure /\ q \in Table /\ ~Released(q)
      BY <1>8, <2>1, <2>7 DEF Sure
    <3>2. CASE q = t
      <4>1. table'[q] = "AVAILABLE" /\ SittingAt(q)' = {} /\ ~InGroup(q)'
        BY <1>7, <2>3, <2>4, <2>6, <3>1, <3>2
      <4>2. QED
        BY <4>1 DEF TableOK, SeatOK
    <3>3. CASE q # t
      BY <1>7, <2>4, <2>5, <2>6, <3>1, <3>3, SameTable
    <3>4. QED
      BY <3>2, <3>3
  <2>8. ASSUME NEW g \in DOMAIN group, Active(g), NEW m \in group[g].members, m.table \in Sure' \cap N
        PROVE  /\ SittingAt(m.table)' \subseteq {m.orig}
               /\ m.orig # group[g].primary =>
                    orders'[m.orig].status = "MERGED" /\ ~orders'[m.orig].deleted
               /\ m.orig = group[g].primary =>
                    Seated(m.orig)' \/ \E u \in Waiter : Closing(u)' /\ work'[u].ord = m.orig
    <3>1. m.table \in Sure /\ m.table \in Table /\ m.orig \in Orders
      BY <1>8, <2>8, RowsAre DEF Sure, FloorInv
    <3>2. m.orig # o
      BY <2>2, <2>8 DEF GroupsOf, OriginalsOf
    <3>3. SittingAt(m.table)' \subseteq SittingAt(m.table)
      BY <2>4, <3>1
    <3>4. orders'[m.orig] = orders[m.orig]
      BY <1>6, <3>1, <3>2
    <3>5. QED
      BY <1>2, <1>8, <2>8, <3>1, <3>3, <3>4, DoneIs, SameMember
  <2>9. \A q \in Orders \cap N : orders'[q].status = "MERGED" => orders'[q] = orders[q]
    BY <1>5, <1>6, <2>2 DEF Seated, IsOpen
  <2>10. QED
    BY <1>8, <1>9, <2>7, <2>8, <2>9, DoneIs, ShrinkLocal DEF Active
<1>14. QED
  BY <1>1, <1>8, <1>10, <1>11, <1>12, <1>13, DoneIs, OwnStep

\* A group that is released: nobody sits at a table of it once its primary is closed.
LEMMA GroupSeats ==
  ASSUME FloorInv, NEW g \in DOMAIN group, Active(g), NEW t \in Sure \cap TablesOf(g)
  PROVE  /\ SittingAt(t) \subseteq {group[g].primary}
         /\ \A h \in DOMAIN group : Active(h) /\ t \in TablesOf(h) => h = g
         /\ g = FirstLedBy(group[g].primary)
<1>1. PICK m \in group[g].members : m.table = t
  BY DEF TablesOf
<1>2. SureMember(g, m)
  BY <1>1 DEF FloorInv, SureMemberInv
<1>3. SittingAt(t) \subseteq {group[g].primary}
  BY <1>1, <1>2 DEF SureMember, SittingAt, IsOpen
<1>4. \A h \in DOMAIN group : Active(h) /\ t \in TablesOf(h) => h = g
  BY <1>1, <1>2 DEF SureMember, TablesOf
<1>5. PICK p : p = group[g].primary
  OBVIOUS
<1>6. g \in LedBy(p) /\ \A h \in LedBy(p) : g <= h
  BY <1>2, <1>5 DEF SureMember, LedBy
<1>7. g = FirstLedBy(p)
  BY <1>6, FirstLed DEF FloorInv
<1>8. QED
  BY <1>3, <1>4, <1>5, <1>7

\* collectPayment commits: the tables of the group are free, for nobody sits there.
LEMMA PayStep ==
  ASSUME FloorInv, NEW s \in Waiter, PayAtTable(s)
  PROVE  FloorInv'
<1>1. PICK N, o, t, g : /\ N = work[s].near /\ o = work[s].ord /\ t = work[s].at
                        /\ g = FirstLedBy(o)
  OBVIOUS
<1>2. /\ work[s].op = "pay" /\ o \in Orders \cap N /\ t \in (Table \cap N) \cup {NoTable}
      /\ Known(o) /\ N \subseteq Table \cup Orders /\ ~Closing(s)
  BY <1>1 DEF PayAtTable, FloorInv, HoldsInv, Holds, AboutOrder
<1>3. orders[o] \in SeatedRow
  BY <1>2 DEF FloorInv, RowsInv, FloorTypeOK
<1>5. floorDoubt' = floorDoubt /\ Done(s)
  BY DEF PayAtTable
<1>6. g # 0 => g \in LedBy(o) /\ g \in DOMAIN group /\ Active(g) /\ group[g].primary = o
  BY <1>1, FirstLed DEF FloorInv, LedBy
<1>7. CASE /\ orders' = [orders EXCEPT ![o].billed = TRUE]
           /\ UNCHANGED <<table, group>>
  <2>1. PICK x : x = [orders[o] EXCEPT !.billed = TRUE]
    OBVIOUS
  <2>2. /\ x \in SeatedRow /\ x.status = orders[o].status /\ x.at = orders[o].at
        /\ x.deleted = orders[o].deleted /\ x.has = orders[o].has
    BY <1>3, <2>1 DEF SeatedRow
  <2>3. orders' = [orders EXCEPT ![o] = x]
    BY <1>7, <2>1
  <2>4. /\ orders' \in [Orders -> SeatedRow]
        /\ \A q \in Orders : /\ orders'[q].status = orders[q].status /\ orders'[q].at = orders[q].at
                             /\ orders'[q].deleted = orders[q].deleted /\ orders'[q].has = orders[q].has
        /\ \A q \in Orders \ {o} : orders'[q] = orders[q]
    BY <1>2, <2>2, <2>3, OrderSet
  <2>5. Shrinks
    BY <1>7, ShrinksIf
  <2>6. \A q \in Orders : Known(q) <=> Known(q)'
    BY <2>4 DEF Known
  <2>7. RowsInv'
    <3>1. table' \in [Table -> TableStatus]
      BY <1>7 DEF FloorInv, RowsInv, FloorTypeOK
    <3>2. QED
      BY <1>5, <2>4, <2>5, <2>6, <3>1, DoneIs, RowsKept, RowsAre DEF FloorInv
  <2>8. Touch(N)
    BY <1>2, <1>5, <1>7, <2>4, <2>5, ShrinkTouch
  <2>9. ASSUME ~(N \cap Table \subseteq floorDoubt)
        PROVE  Local(s, N)
    <3>1. \A q \in Table : SittingAt(q)' = SittingAt(q)
      BY <2>4 DEF SittingAt, IsOpen
    <3>2. \A q : InGroup(q)' <=> InGroup(q)
      BY <1>7 DEF InGroup, Active, TablesOf
    <3>3. \A q \in Sure' \cap N : TableOK(q)' /\ SeatOK(q)'
      <4>1. \A q \in Sure' \cap N : q \in Sure /\ q \in Table /\ ~Released(q)
        BY <1>1, <1>2, <1>5, <2>9, Undisturbed DEF Sure
      <4>2. QED
        BY <1>7, <3>1, <3>2, <4>1, SameTable
    <3>4. ASSUME NEW h \in DOMAIN group, Active(h), NEW m \in group[h].members, m.table \in Sure' \cap N
          PROVE  /\ SittingAt(m.table)' \subseteq {m.orig}
                 /\ m.orig # group[h].primary =>
                      orders'[m.orig].status = "MERGED" /\ ~orders'[m.orig].deleted
                 /\ m.orig = group[h].primary =>
                      Seated(m.orig)' \/ \E u \in Waiter : Closing(u)' /\ work'[u].ord = m.orig
      <4>1. m.table \in Sure /\ m.table \in Table /\ m.orig \in Orders
        BY <1>5, <3>4, RowsAre DEF Sure, FloorInv
      <4>2. SittingAt(m.table)' = SittingAt(m.table)
        BY <3>1, <4>1
      <4>3. /\ orders'[m.orig].status = orders[m.orig].status
            /\ orders'[m.orig].deleted = orders[m.orig].deleted
        BY <2>4, <4>1
      <4>4. \A u \in Waiter \ {s} : work'[u] = work[u]
        BY <1>5, DoneIs
      <4>5. QED
        BY <1>2, <3>4, <4>1, <4>2, <4>3, <4>4, SameMember
    <3>5. \A q \in Orders \cap N : orders'[q].status = "MERGED" =>
            /\ orders[q].status = "MERGED"
            /\ orders'[q].at = orders[q].at /\ orders'[q].has = orders[q].has
      BY <2>4
    <3>6. \A h : Active(h)' <=> Active(h)
      BY <1>7 DEF Active
    <3>7. QED
      BY <1>5, <2>5, <3>3, <3>4, <3>5, <3>6, DoneIs, ShrinkLocal
  <2>10. QED
    BY <1>1, <1>5, <2>6, <2>7, <2>8, <2>9, DoneIs, OwnStep
<1>8. CASE LET ts == {t} \cup (IF g = 0 THEN {} ELSE TablesOf(g)) IN
           /\ orders' = [orders EXCEPT ![o].status = "COMPLETED", ![o].billed = TRUE]
           /\ table' = Mark(ts, "AVAILABLE")
           /\ group' = IF g = 0 THEN group ELSE [group EXCEPT ![g].status = "COMPLETED"]
  <2>1. PICK x : x = [orders[o] EXCEPT !.status = "COMPLETED", !.billed = TRUE]
    OBVIOUS
  <2>2. /\ x \in SeatedRow /\ x.status = "COMPLETED" /\ x.at = orders[o].at
        /\ x.deleted = orders[o].deleted /\ x.has = orders[o].has
    BY <1>3, <2>1 DEF SeatedRow, OrderStatus
  <2>3. orders' = [orders EXCEPT ![o] = x]
    BY <1>2, <1>8, <2>1, RowsAre DEF FloorInv
  <2>4. /\ orders' \in [Orders -> SeatedRow] /\ orders'[o] = x
        /\ \A q \in Orders \ {o} : orders'[q] = orders[q]
    BY <1>2, <2>2, <2>3, OrderSet
  <2>5. PICK ts : ts = {t} \cup (IF g = 0 THEN {} ELSE TablesOf(g))
    OBVIOUS
  <2>6. /\ table' \in [Table -> TableStatus]
        /\ \A q \in Table : table'[q] = IF q \in ts THEN "AVAILABLE" ELSE table[q]
    <3>1. table' = Mark(ts, "AVAILABLE")
      BY <1>8, <2>5
    <3>2. QED
      BY <3>1, MarkIs DEF TableStatus
  <2>7. Shrinks /\ DOMAIN group' = DOMAIN group
    BY <1>6, <1>8, ShrinksIf
  <2>8. \A h \in DOMAIN group : /\ h # g => group'[h] = group[h]
                                /\ h = g => ~Active(h)'
    <3>1. CASE g = 0
      BY <1>8, <3>1, RowsAre DEF FloorInv
    <3>2. CASE g # 0
      <4>1. group' = [group EXCEPT ![g].status = "COMPLETED"] /\ group[g] \in Group
        BY <1>6, <1>8, <3>2, RowsAre DEF FloorInv
      <4>2. [group[g] EXCEPT !.status = "COMPLETED"].status = "COMPLETED"
        BY <4>1 DEF Group
      <4>3. /\ \A h \in DOMAIN group : h # g => group'[h] = group[h]
            /\ group'[g] = [group[g] EXCEPT !.status = "COMPLETED"]
        BY <1>6, <3>2, <4>1, RowsAre DEF FloorInv
      <4>4. QED
        BY <4>2, <4>3 DEF Active
    <3>3. QED
      BY <3>1, <3>2
  <2>9. \A q \in Orders : Known(q) => Known(q)'
    BY <2>2, <2>4 DEF Known
  <2>10. \A q \in Orders : ~Known(q)' => ~Known(q) /\ orders'[q].at = NoTable
    <3>1. \A q \in Orders : orders'[q].at = orders[q].at
      BY <2>2, <2>4
    <3>2. QED
      BY <2>9, <3>1, RowsAre DEF FloorInv
  <2>11. RowsInv'
    BY <1>5, <2>4, <2>6, <2>7, <2>9, <2>10, DoneIs, RowsKept, RowsAre DEF FloorInv
  <2>12. Touch(N)
    <3>1. g # 0 => TablesOf(g) \subseteq N \cup floorDoubt
      BY <1>1, <1>2, <1>6 DEF FloorInv, ReachInv, Reach
    <3>2. \A q \in Table : q \notin N \cup floorDoubt => table'[q] = table[q]
      BY <1>2, <2>5, <2>6, <3>1, FloorNullAssumption
    <3>3. \A h \in DOMAIN group : group[h].primary \notin N => group'[h] = group[h]
      BY <1>2, <1>6, <2>8, RowsAre DEF FloorInv
    <3>4. QED
      BY <1>2, <1>5, <2>2, <2>4, <2>7, <3>2, <3>3, ShrinkTouch
  <2>13. ASSUME ~(N \cap Table \subseteq floorDoubt)
         PROVE  Local(s, N)
    <3>1. Reads(s) /\ \A q \in Sure \cap N : ~Released(q)
      BY <1>1, <1>2, <2>13, Undisturbed
    <3>2. Seated(o) /\ orders[o].at = t
      BY <1>1, <1>2, <3>1 DEF Reads, AboutOrder
    <3>3. \A q \in Table : SittingAt(q)' = SittingAt(q) \ {o}
      BY <1>2, <2>2, <2>4 DEF SittingAt, IsOpen
    <3>4. \A q \in Table : q # t => o \notin SittingAt(q)
      BY <3>2 DEF SittingAt
    <3>5. \A h \in DOMAIN group : Active(h)' <=> Active(h) /\ h # g
      BY <2>7, <2>8 DEF Active, Shrinks
    <3>6. \A h \in DOMAIN group : TablesOf(h)' = TablesOf(h)
      BY <2>7 DEF Shrinks, TablesOf
    <3>7. ASSUME NEW q \in Sure' \cap N PROVE TableOK(q)' /\ SeatOK(q)'
      <4>1. q \in Sure /\ q \in Table /\ ~Released(q)
        BY <1>5, <3>1, <3>7 DEF Sure
      <4>2. CASE g # 0 /\ q \in TablesOf(g)
        <5>1. SittingAt(q)' = {}
          BY <1>6, <3>3, <4>1, <4>2, GroupSeats
        <5>2. ~InGroup(q)'
          BY <1>6, <2>7, <3>5, <3>6, <4>1, <4>2, GroupSeats DEF InGroup
        <5>3. table'[q] = "AVAILABLE"
          BY <2>5, <2>6, <4>1, <4>2
        <5>4. QED
          BY <5>1, <5>2, <5>3 DEF TableOK, SeatOK
      <4>3. CASE q = t
        <5>1. SittingAt(q)' = {}
          BY <1>2, <3>2, <3>3, <4>1, <4>3, SeatedAlone
        <5>2. ~InGroup(q)'
          BY <1>1, <1>2, <2>7, <3>2, <3>5, <3>6, <4>1, <4>3, SeatedAlone DEF InGroup, TablesOf
        <5>3. table'[q] = "AVAILABLE"
          BY <2>5, <2>6, <4>1, <4>3
        <5>4. QED
          BY <5>1, <5>2, <5>3 DEF TableOK, SeatOK
      <4>4. CASE q # t /\ (g = 0 \/ q \notin TablesOf(g))
        <5>1. table'[q] = table[q] /\ SittingAt(q)' = SittingAt(q)
          BY <2>5, <2>6, <3>3, <3>4, <4>1, <4>4
        <5>2. InGroup(q)' <=> InGroup(q)
          BY <2>7, <3>5, <3>6, <4>4, RowsAre DEF InGroup, FloorInv
        <5>3. QED
          BY <4>1, <5>1, <5>2, SameTable
      <4>5. QED
        BY <4>2, <4>3, <4>4
    <3>8. ASSUME NEW h \in DOMAIN group, Active(h)', NEW m \in group[h].members, m.table \in Sure' \cap N
          PROVE  /\ SittingAt(m.table)' \subseteq {m.orig}
                 /\ m.orig # group[h].primary =>
                      orders'[m.orig].status = "MERGED" /\ ~orders'[m.orig].deleted
                 /\ m.orig = group[h].primary =>
                      Seated(m.orig)' \/ \E u \in Waiter : Closing(u)' /\ work'[u].ord = m.orig
      <4>1. /\ m.table \in Sure /\ m.table \in Table /\ m.orig \in Orders /\ Active(h) /\ h # g
            /\ m.table \in TablesOf(h)
        BY <1>5, <3>5, <3>8, RowsAre DEF Sure, FloorInv, TablesOf
      <4>2. m.orig # o
        <5>1. m.orig # group[h].primary => orders[m.orig].status = "MERGED"
          BY <3>8, <4>1, ListedIsMerged
        <5>2. m.orig = group[h].primary => h = FirstLedBy(m.orig)
          BY <4>1, GroupSeats
        <5>3. QED
          BY <1>1, <3>2, <4>1, <5>1, <5>2 DEF Seated, IsOpen
      <4>3. SittingAt(m.table)' \subseteq SittingAt(m.table) /\ orders'[m.orig] = orders[m.orig]
        BY <2>4, <3>3, <4>1, <4>2
      <4>4. QED
        BY <1>2, <1>5, <3>8, <4>1, <4>3, DoneIs, SameMember
    <3>9. \A q \in Orders \cap N : orders'[q].status = "MERGED" => orders'[q] = orders[q]
      BY <2>2, <2>4
    <3>10. QED
      BY <1>5, <2>7, <3>7, <3>8, <3>9, DoneIs, ShrinkLocal
  <2>14. \A q \in Orders : /\ ~Known(q) /\ Known(q)' => FALSE
                           /\ Known(q) => Known(q)'
    BY <1>2, <2>4, <2>9 DEF Known
  <2>15. QED
    BY <1>1, <1>5, <2>11, <2>12, <2>13, <2>14, DoneIs, OwnStep
<1>9. QED
  BY <1>1, <1>7, <1>8 DEF PayAtTable

\* cancelOrder commits: from now on its group is being released.
LEMMA CancelStep ==
  ASSUME FloorInv, NEW s \in Waiter, Cancel(s)
  PROVE  FloorInv'
<1>1. PICK N, o, t : N = work[s].near /\ o = work[s].ord /\ t = work[s].at
  OBVIOUS
<1>2. /\ work[s].op = "cancel" /\ work[s].phase = "checked"
      /\ o \in Orders \cap N /\ t \in (Table \cap N) \cup {NoTable}
      /\ Known(o) /\ N \subseteq Table \cup Orders /\ ~Closing(s)
  BY <1>1 DEF Cancel, FloorInv, HoldsInv, Holds, AboutOrder, Closing
<1>3. orders[o] \in SeatedRow /\ work[s] \in Work /\ DOMAIN work = Waiter
  BY <1>2 DEF FloorInv, RowsInv, FloorTypeOK
<1>4. PICK x : x = [orders[o] EXCEPT !.status = "CANCELLED"]
  OBVIOUS
<1>5. /\ x \in SeatedRow /\ x.status = "CANCELLED" /\ x.at = orders[o].at
      /\ x.deleted = orders[o].deleted /\ x.has = orders[o].has
  BY <1>3, <1>4 DEF SeatedRow, OrderStatus
<1>6. /\ orders' \in [Orders -> SeatedRow] /\ orders'[o] = x
      /\ \A q \in Orders \ {o} : orders'[q] = orders[q]
  <2>1. orders' = [orders EXCEPT ![o] = x]
    BY <1>1, <1>4 DEF Cancel
  <2>2. QED
    BY <1>2, <1>5, <2>1, OrderSet
<1>7. /\ table' \in [Table -> TableStatus]
      /\ \A q \in Table : table'[q] = IF q = t THEN "AVAILABLE" ELSE table[q]
      /\ t \in Table => IsTable(t)
  <2>1. table' = Mark({t}, "AVAILABLE") /\ Found(t)
    BY <1>1 DEF Cancel
  <2>2. QED
    BY <2>1, MarkIs, FloorNullAssumption DEF TableStatus, Found
<1>8. group' = group /\ floorDoubt' = floorDoubt /\ work' = [work EXCEPT ![s].phase = "closed"]
  BY DEF Cancel
<1>9. PICK r : r = [work[s] EXCEPT !.phase = "closed"]
  OBVIOUS
<1>10. /\ r \in Work /\ r.phase = "closed" /\ r.op = "cancel" /\ r.ord = o /\ r.at = t /\ r.near = N
  BY <1>1, <1>2, <1>3, <1>9 DEF Work
<1>11. /\ work'[s] = r /\ DOMAIN work' = Waiter
       /\ \A u \in Waiter \ {s} : work'[u] = work[u]
       /\ \A u \in Waiter : work'[u] \in Work
  <2>1. \A u \in Waiter : work[u] \in Work
    BY DEF FloorInv, RowsInv, FloorTypeOK
  <2>2. QED
    BY <1>3, <1>8, <1>9, <1>10, <2>1
<1>12. Shrinks
  BY <1>8, ShrinksIf
<1>13. \A q \in Orders : (Known(q) <=> Known(q)') /\ orders'[q].at = orders[q].at
  BY <1>2, <1>5, <1>6 DEF Known
<1>14. RowsInv'
  BY <1>6, <1>7, <1>8, <1>11, <1>12, <1>13, RowsKept, RowsAre DEF FloorInv
<1>15. Holds(s)'
  BY <1>2, <1>10, <1>11, <1>13 DEF Holds, AboutOrder, Closing
<1>16. Touch(N)
  BY <1>2, <1>6, <1>7, <1>8, <1>12, <1>13, ShrinkTouch, FloorNullAssumption
<1>17. ASSUME ~(N \cap Table \subseteq floorDoubt)
       PROVE  Local(s, N)
  <2>1. Reads(s) /\ \A q \in Sure \cap N : ~Released(q)
    BY <1>1, <1>2, <1>17, Undisturbed
  <2>2. Seated(o) /\ orders[o].at = t
    BY <1>1, <1>2, <2>1 DEF Reads, AboutOrder
  <2>3. Reads(s)'
    BY <1>5, <1>6, <1>7, <1>10, <1>11, <1>13, <1>2, <2>2 DEF Reads, AboutOrder, Closing, Sure
  <2>4. \A q \in Table : SittingAt(q)' = SittingAt(q) \ {o}
    BY <1>2, <1>5, <1>6 DEF SittingAt, IsOpen
  <2>5. \A q \in Table : q # t => o \notin SittingAt(q)
    BY <2>2 DEF SittingAt
  <2>6. \A q : InGroup(q)' <=> InGroup(q)
    BY <1>8 DEF InGroup, Active, TablesOf
  <2>7. Closing(s)' /\ work'[s].ord = o /\ work'[s].near = N
    BY <1>10, <1>11 DEF Closing
  <2>8. ASSUME NEW q \in Sure' \cap N PROVE TableOK(q)' /\ SeatOK(q)'
    <3>1. q \in Sure /\ q \in Table /\ ~Released(q)
      BY <1>8, <2>1, <2>8 DEF Sure
    <3>2. CASE q = t
      <4>1. table'[q] = "AVAILABLE" /\ SittingAt(q)' = {}
        BY <1>2, <1>7, <2>2, <2>4, <3>1, <3>2, SeatedAlone
      <4>2. InGroup(q)' => Released(q)'
        <5>1. SUFFICES ASSUME InGroup(q) PROVE Released(q)'
          BY <2>6
        <5>2. PICK h \in DOMAIN group : Active(h) /\ q \in TablesOf(h)
          BY <5>1 DEF InGroup
        <5>3. group[h].primary = o
          BY <1>2, <2>2, <3>1, <3>2, <5>2, SeatedAlone DEF TablesOf
        <5>4. h \in DOMAIN group' /\ Active(h)' /\ group'[h].primary = o /\ q \in TablesOf(h)'
          BY <1>8, <5>2, <5>3 DEF Active, TablesOf
        <5>5. QED
          BY <2>7, <2>8, <4>1, <5>4 DEF Released
      <4>3. QED
        BY <4>1, <4>2 DEF TableOK, SeatOK
    <3>3. CASE q # t
      BY <1>7, <2>4, <2>5, <2>6, <3>1, <3>3, SameTable
    <3>4. QED
      BY <3>2, <3>3
  <2>9. ASSUME NEW g \in DOMAIN group, Active(g), NEW m \in group[g].members, m.table \in Sure' \cap N
        PROVE  /\ SittingAt(m.table)' \subseteq {m.orig}
               /\ m.orig # group[g].primary =>
                    orders'[m.orig].status = "MERGED" /\ ~orders'[m.orig].deleted
               /\ m.orig = group[g].primary =>
                    Seated(m.orig)' \/ \E u \in Waiter : Closing(u)' /\ work'[u].ord = m.orig
    <3>1. m.table \in Sure /\ m.table \in Table /\ m.orig \in Orders
      BY <1>8, <2>9, RowsAre DEF Sure, FloorInv
    <3>2. SittingAt(m.table)' \subseteq SittingAt(m.table)
      BY <2>4, <3>1
    <3>3. CASE m.orig # o
      <4>1. orders'[m.orig] = orders[m.orig]
        BY <1>6, <3>1, <3>3
      <4>2. QED
        BY <1>2, <1>11, <2>9, <3>1, <3>2, <4>1, SameMember
    <3>4. CASE m.orig = o
      <4>1. SittingAt(m.table) \subseteq {m.orig} /\ m.orig = group[g].primary
        BY <2>2, <2>9, <3>1, <3>4, ListedIsMerged DEF FloorInv, SureMemberInv, SureMember, Seated, IsOpen
      <4>2. QED
        BY <2>7, <3>2, <3>4, <4>1
    <3>5. QED
      BY <3>3, <3>4
  <2>10. \A q \in Orders \cap N : orders'[q].status = "MERGED" => orders'[q] = orders[q]
    BY <1>5, <1>6
  <2>11. \A h : Active(h)' <=> Active(h)
    BY <1>8 DEF Active
  <2>12. QED
    BY <1>8, <1>12, <2>3, <2>8, <2>9, <2>10, <2>11, ShrinkLocal
<1>18. QED
  BY <1>1, <1>2, <1>8, <1>10, <1>11, <1>13, <1>14, <1>15, <1>16, <1>17, OwnStep

\* What a request that releases knows.
LEMMA ReleaserHolds ==
  ASSUME FloorInv, NEW s \in Waiter, Closing(s)
  PROVE  /\ work[s].op = "cancel" /\ work[s].ord \in Orders \cap work[s].near
         /\ work[s].at \in (Table \cap work[s].near) \cup {NoTable}
         /\ Known(work[s].ord) /\ work[s].near \subseteq Table \cup Orders
         /\ work[s] \in Work /\ DOMAIN work = Waiter
         /\ work[s].phase = "releasing" =>
              /\ work[s].grp \in DOMAIN group
              /\ group[work[s].grp].primary = work[s].ord
              /\ work[s].todo \subseteq TablesOf(work[s].grp)
              /\ work[s].todo \subseteq work[s].near \cup floorDoubt
  BY DEF FloorInv, HoldsInv, Holds, AboutOrder, RowsInv, FloorTypeOK

\* What is left to show of a step of a release that is not all in doubt.
ReleaseOK(s) ==
  /\ ~Doomed(s)' => Reads(s)'
  /\ \A t \in Sure \cap work[s].near : TableOK(t)'
  /\ ~Closing(s)' =>
       \A g \in DOMAIN group : Active(g)' /\ group[g].primary = work[s].ord
                                 => TablesOf(g) \cap Sure = {}

\* A step of a release that changes no order.
LEMMA ReleaseStep ==
  ASSUME FloorInv, NEW s \in Waiter, Closing(s), NEW N, N = work[s].near,
         orders' = orders, floorDoubt' = floorDoubt, Shrinks,
         table' \in [Table -> TableStatus],
         \A t \in Table : t \notin N \cup floorDoubt => table'[t] = table[t],
         \A g \in DOMAIN group : group[g].primary # work[s].ord => group'[g] = group[g],
         DOMAIN work' = Waiter, work'[s] \in Work, Holds(s)',
         \A u \in Waiter \ {s} : work'[u] = work[u],
         \/ work'[s] = NoWork
         \/ work'[s].near = N /\ work'[s].ord = work[s].ord /\ work'[s].op = "cancel",
         ~(N \cap Table \subseteq floorDoubt) => ReleaseOK(s),
         Closing(s)' => work'[s].ord = work[s].ord
  PROVE  FloorInv'
<1>1. /\ work[s].op = "cancel" /\ work[s].ord \in Orders \cap N /\ Sure' = Sure
      /\ \A q : SittingAt(q)' = SittingAt(q)
  BY ReleaserHolds DEF Sure, SittingAt, IsOpen
<1>2. RowsInv'
  <2>1. orders' \in [Orders -> SeatedRow] /\ floorDoubt' \subseteq Table
        /\ \A u \in Waiter : work'[u] \in Work
    BY DEF FloorInv, RowsInv, FloorTypeOK
  <2>2. \A q \in Orders : (Known(q) <=> Known(q)') /\ (~Known(q)' => orders'[q].at = NoTable)
    BY RowsAre DEF FloorInv, Known
  <2>3. QED
    BY <2>1, <2>2, RowsKept
<1>3. Touch(N)
  BY <1>1, ShrinkTouch
<1>4. ASSUME ~(N \cap Table \subseteq floorDoubt)
      PROVE  Local(s, N)
  <2>1. \A t \in Sure \cap N : SeatOK(t)'
    BY <1>1 DEF FloorInv, TableInv, SeatOK
  <2>2. ASSUME NEW g \in DOMAIN group, Active(g)', NEW m \in group[g].members, m.table \in Sure' \cap N
        PROVE  /\ SittingAt(m.table)' \subseteq {m.orig}
               /\ m.orig # group[g].primary =>
                    orders'[m.orig].status = "MERGED" /\ ~orders'[m.orig].deleted
               /\ m.orig = group[g].primary =>
                    Seated(m.orig)' \/ \E u \in Waiter : Closing(u)' /\ work'[u].ord = m.orig
    <3>1. m.table \in Sure /\ Active(g) /\ SureMember(g, m) /\ m.table \in TablesOf(g)
      BY <1>1, <2>2 DEF FloorInv, SureMemberInv, Shrinks, TablesOf
    <3>2. \A u \in Waiter \ {s} : Closing(u) => Closing(u)' /\ work'[u].ord = work[u].ord
      BY DEF Closing
    <3>3. m.orig = group[g].primary =>
            Seated(m.orig)' \/ \E u \in Waiter : Closing(u)' /\ work'[u].ord = m.orig
      BY <1>4, <2>2, <3>1, <3>2 DEF SureMember, Seated, IsOpen, ReleaseOK
    <3>4. QED
      BY <1>1, <3>1, <3>3 DEF SureMember
  <2>3. QED
    BY <1>1, <1>4, <2>1, <2>2, ShrinkLocal DEF ReleaseOK
<1>5. \A q \in Orders : Known(q) <=> Known(q)'
  BY DEF Known
<1>6. QED
  BY <1>1, <1>2, <1>3, <1>4, <1>5, OwnStep

\* The last step of a release.
LEMMA ReleaseEnds ==
  ASSUME FloorInv, NEW s \in Waiter, Closing(s), Done(s), NEW N, N = work[s].near,
         orders' = orders, floorDoubt' = floorDoubt, table' = table, Shrinks,
         \A g \in DOMAIN group : group[g].primary # work[s].ord => group'[g] = group[g],
         ~(N \cap Table \subseteq floorDoubt) => ReleaseOK(s)
  PROVE  FloorInv'
<1>1. /\ DOMAIN work' = Waiter /\ work'[s] = NoWork /\ Holds(s)' /\ Doomed(s)'
      /\ \A u \in Waiter \ {s} : work'[u] = work[u]
      /\ work'[s] \in Work
  BY DoneIs
<1>2. ~Closing(s)'
  BY <1>1 DEF Closing, NoWork
<1>3. table' \in [Table -> TableStatus]
  BY DEF FloorInv, RowsInv, FloorTypeOK
<1>4. \A t \in Table : t \notin N \cup floorDoubt => table'[t] = table[t]
  OBVIOUS
<1>5. QED
  BY <1>1, <1>2, <1>3, <1>4, ReleaseStep

\* It looks up its group: without one its table is free already.
LEMMA FindStep ==
  ASSUME FloorInv, NEW s \in Waiter, FindGroup(s)
  PROVE  FloorInv'
<1>1. PICK N, o, g : N = work[s].near /\ o = work[s].ord /\ g = FirstLedBy(o)
  OBVIOUS
<1>2. /\ work[s].phase = "closed" /\ Closing(s)
      /\ table' = table /\ orders' = orders /\ group' = group /\ floorDoubt' = floorDoubt
  BY DEF FindGroup, Closing
<1>3. /\ work[s].op = "cancel" /\ o \in Orders \cap N /\ N \subseteq Table \cup Orders
      /\ work[s].at \in (Table \cap N) \cup {NoTable} /\ Known(o)
      /\ work[s] \in Work /\ DOMAIN work = Waiter
  BY <1>1, <1>2, ReleaserHolds
<1>4. Shrinks
  BY <1>2, ShrinksIf
<1>5. table' \in [Table -> TableStatus]
  BY <1>2 DEF FloorInv, RowsInv, FloorTypeOK
<1>6. \A q : InGroup(q)' <=> InGroup(q)
  BY <1>2 DEF InGroup, Active, TablesOf
<1>7. \A q : SittingAt(q)' = SittingAt(q)
  BY <1>2 DEF SittingAt, IsOpen
<1>8. CASE g = 0
  <2>1. Done(s)
    BY <1>1, <1>8 DEF FindGroup
  <2>2. LedBy(o) = {}
    <3>1. LedBy(o) # {} => g \in LedBy(o)
      BY <1>1, FirstLed DEF FloorInv
    <3>2. 0 \notin DOMAIN group
      BY RowsAre DEF FloorInv
    <3>3. QED
      BY <1>8, <3>1, <3>2 DEF LedBy
  <2>3. ~(N \cap Table \subseteq floorDoubt) => \A q \in Sure \cap N : TableOK(q)'
    <3>1. ~(N \cap Table \subseteq floorDoubt) => \A q \in Sure \cap N : ~Released(q)
      BY <1>1, <2>2, Undisturbed
    <3>2. QED
      BY <1>2, <1>6, <1>7, <3>1, SameTable
  <2>4. \A h \in DOMAIN group : ~(Active(h) /\ group[h].primary = o)
    BY <2>2 DEF LedBy
  <2>5. ~Closing(s)'
    BY <2>1, DoneIs DEF Closing, NoWork
  <2>6. \A h : Active(h)' <=> Active(h)
    BY <1>2 DEF Active
  <2>7. Doomed(s)'
    BY <2>1, DoneIs
  <2>8. ~(N \cap Table \subseteq floorDoubt) => ReleaseOK(s)
    BY <1>1, <2>3, <2>4, <2>6, <2>7 DEF ReleaseOK
  <2>9. QED
    BY <1>1, <1>2, <1>4, <2>1, <2>8, ReleaseEnds
<1>9. CASE g # 0
  <2>1. g \in LedBy(o) /\ g \in DOMAIN group /\ Active(g) /\ group[g].primary = o
    BY <1>1, <1>9, FirstLed DEF FloorInv, LedBy
  <2>2. PICK r : r = [work[s] EXCEPT !.phase = "releasing", !.grp = g, !.todo = TablesOf(g)]
    OBVIOUS
  <2>3. work' = [work EXCEPT ![s].phase = "releasing", ![s].grp = g, ![s].todo = TablesOf(g)]
    BY <1>1, <1>9 DEF FindGroup
  <2>4. /\ r \in Work /\ r.phase = "releasing" /\ r.op = "cancel" /\ r.ord = o /\ r.near = N
        /\ r.at = work[s].at /\ r.grp = g /\ r.todo = TablesOf(g)
    BY <1>1, <1>3, <2>1, <2>2, RowsAre DEF Work, FloorInv
  <2>5. work'[s] = r /\ DOMAIN work' = Waiter /\ \A u \in Waiter \ {s} : work'[u] = work[u]
    BY <1>3, <2>2, <2>3
  <2>6. TablesOf(g) \subseteq N \cup floorDoubt
    BY <1>1, <1>3, <2>1 DEF FloorInv, ReachInv, Reach
  <2>7. Holds(s)'
    BY <1>2, <1>3, <2>1, <2>4, <2>5, <2>6 DEF Holds, AboutOrder, Closing, Known, TablesOf
  <2>8. Closing(s)'
    BY <2>4, <2>5 DEF Closing
  <2>9. ASSUME ~(N \cap Table \subseteq floorDoubt)
        PROVE  ReleaseOK(s)
    <3>1. Reads(s)
      BY <1>1, <2>9, Undisturbed
    <3>2. FirstLedBy(o)' = g /\ Active(g)' /\ TablesOf(g)' = TablesOf(g)
      BY <1>1, <1>2, <2>1 DEF FirstLedBy, LedBy, Active, TablesOf
    <3>3. Reads(s)'
      <4>1. orders'[o].at = r.at /\ orders'[o].status = "CANCELLED"
        BY <1>1, <1>2, <1>3, <2>4, <3>1 DEF Reads, AboutOrder, Closing
      <4>2. SUFFICES ASSUME NEW h, h = r.grp, NEW q, q = r.ord PROVE Reads(s)'
        <5>1. PICK h, q : h = r.grp /\ q = r.ord
          OBVIOUS
        <5>2. QED
          BY <4>2, <5>1
      <4>3. h = g /\ q = o
        BY <2>4, <4>2
      <4>4. QED
        BY <2>4, <2>5, <3>2, <4>1, <4>3 DEF Reads, AboutOrder, Closing
    <3>4. ASSUME NEW q \in Sure \cap N PROVE TableOK(q)'
      <4>1. TableOK(q)
        BY <3>4 DEF FloorInv, TableInv
      <4>2. Released(q) => Released(q)'
        BY <1>1, <1>2, <2>4, <2>5, <2>8 DEF Released, Closing, Active, TablesOf
      <4>3. QED
        BY <1>2, <1>6, <1>7, <4>1, <4>2 DEF TableOK, IsTable
    <3>5. QED
      BY <1>1, <2>8, <3>3, <3>4 DEF ReleaseOK
  <2>10. QED
    BY <1>1, <1>2, <1>4, <1>5, <2>4, <2>5, <2>7, <2>8, <2>9, ReleaseStep
<1>10. QED
  BY <1>8, <1>9

\* It frees a table of the group,
LEMMA FreeStep ==
  ASSUME FloorInv, NEW s \in Waiter, ReleaseTable(s)
  PROVE  FloorInv'
<1>1. PICK N, o, g, t : /\ N = work[s].near /\ o = work[s].ord /\ g = work[s].grp
                        /\ t \in work[s].todo
                        /\ table' = IF IsTable(t) THEN Mark({t}, "AVAILABLE") ELSE table
                        /\ work' = [work EXCEPT ![s].todo = @ \ {t}]
  BY DEF ReleaseTable
<1>2. /\ work[s].phase = "releasing" /\ Closing(s)
      /\ orders' = orders /\ group' = group /\ floorDoubt' = floorDoubt
  BY DEF ReleaseTable, Closing
<1>3. /\ work[s].op = "cancel" /\ o \in Orders \cap N /\ N \subseteq Table \cup Orders
      /\ work[s].at \in (Table \cap N) \cup {NoTable} /\ Known(o)
      /\ work[s] \in Work /\ DOMAIN work = Waiter
      /\ g \in DOMAIN group /\ group[g].primary = o
      /\ work[s].todo \subseteq TablesOf(g) /\ work[s].todo \subseteq N \cup floorDoubt
  BY <1>1, <1>2, ReleaserHolds
<1>4. Shrinks
  BY <1>2, ShrinksIf
<1>5. t \in Table
  BY <1>1, <1>3, RowsAre DEF FloorInv
<1>6. /\ table' \in [Table -> TableStatus]
      /\ \A q \in Table : table'[q] = IF q = t /\ IsTable(t) THEN "AVAILABLE" ELSE table[q]
  <2>1. table \in [Table -> TableStatus]
    BY DEF FloorInv, RowsInv, FloorTypeOK
  <2>2. QED
    BY <1>1, <2>1, MarkIs, SMTT(30) DEF TableStatus
<1>7. \A q : (InGroup(q)' <=> InGroup(q)) /\ SittingAt(q)' = SittingAt(q)
  BY <1>2 DEF InGroup, Active, TablesOf, SittingAt, IsOpen
<1>8. PICK r : r = [work[s] EXCEPT !.todo = work[s].todo \ {t}]
  OBVIOUS
<1>9. /\ r \in Work /\ r.phase = "releasing" /\ r.op = "cancel" /\ r.ord = o /\ r.near = N
      /\ r.at = work[s].at /\ r.grp = g /\ r.todo = work[s].todo \ {t}
  BY <1>1, <1>2, <1>3, <1>8 DEF Work
<1>10. work'[s] = r /\ DOMAIN work' = Waiter /\ \A u \in Waiter \ {s} : work'[u] = work[u]
  BY <1>1, <1>3, <1>8
<1>11. Closing(s)'
  BY <1>9, <1>10 DEF Closing
<1>12. Holds(s)'
  BY <1>2, <1>3, <1>9, <1>10 DEF Holds, AboutOrder, Closing, Known, TablesOf
<1>13. ASSUME ~(N \cap Table \subseteq floorDoubt)
       PROVE  ReleaseOK(s)
  <2>1. Reads(s)
    BY <1>1, <1>13, Undisturbed
  <2>2. /\ orders[o].at = r.at /\ orders[o].status = "CANCELLED"
        /\ g = FirstLedBy(o) /\ Active(g)
        /\ \A q \in Sure \cap TablesOf(g) : IsTable(q) /\ q \notin work[s].todo => table[q] = "AVAILABLE"
    BY <1>1, <1>2, <1>3, <1>9, <2>1 DEF Reads, AboutOrder
  <2>3. Active(g)' /\ FirstLedBy(o)' = g /\ TablesOf(g)' = TablesOf(g) /\ Sure' = Sure
    BY <1>2, <2>2 DEF FirstLedBy, LedBy, Active, TablesOf, Sure
  <2>4. \A q \in Sure \cap TablesOf(g) : IsTable(q)' /\ q \notin r.todo => table'[q] = "AVAILABLE"
    BY <1>6, <1>9, <2>2 DEF IsTable, Sure
  <2>5. Reads(s)'
    <3>1. SUFFICES ASSUME NEW h, h = r.grp, NEW q, q = r.ord PROVE Reads(s)'
      <4>1. PICK h, q : h = r.grp /\ q = r.ord
        OBVIOUS
      <4>2. QED
        BY <3>1, <4>1
    <3>2. h = g /\ q = o
      BY <1>9, <3>1
    <3>3. QED
      BY <1>2, <1>9, <1>10, <2>2, <2>3, <2>4, <3>2 DEF Reads, AboutOrder, Closing
  <2>6. ASSUME NEW q \in Sure \cap N PROVE TableOK(q)'
    <3>1. TableOK(q) /\ q \in Table
      BY <2>6 DEF FloorInv, TableInv, Sure
    <3>2. CASE q = t /\ IsTable(t)
      <4>1. table'[q] = "AVAILABLE"
        BY <1>6, <3>1, <3>2
      <4>2. Released(q)'
        BY <1>1, <1>2, <1>3, <1>9, <1>10, <1>11, <2>2, <2>3, <2>6, <3>2, <4>1 DEF Released, Closing
      <4>3. QED
        BY <4>2 DEF TableOK
    <3>3. CASE ~(q = t /\ IsTable(t))
      <4>1. table'[q] = table[q]
        BY <1>6, <3>1, <3>3
      <4>2. Released(q) => Released(q)'
        BY <1>1, <1>2, <1>9, <1>10, <1>11, <4>1 DEF Released, Closing, Active, TablesOf
      <4>3. QED
        BY <1>7, <3>1, <4>1, <4>2 DEF TableOK, IsTable
    <3>4. QED
      BY <3>2, <3>3
  <2>7. QED
    BY <1>1, <1>11, <2>5, <2>6 DEF ReleaseOK
<1>14. \A q \in Table : q \notin N \cup floorDoubt => table'[q] = table[q]
  BY <1>1, <1>3, <1>6
<1>15. QED
  BY <1>1, <1>2, <1>4, <1>6, <1>9, <1>10, <1>11, <1>12, <1>13, <1>14, ReleaseStep

\* and completes the group when all of them are free.
LEMMA CompleteStep ==
  ASSUME FloorInv, NEW s \in Waiter, CompleteGroup(s)
  PROVE  FloorInv'
<1>1. PICK N, o, g : N = work[s].near /\ o = work[s].ord /\ g = work[s].grp
  OBVIOUS
<1>2. /\ work[s].phase = "releasing" /\ Closing(s) /\ work[s].todo = {}
      /\ table' = table /\ orders' = orders /\ floorDoubt' = floorDoubt /\ Done(s)
      /\ group' = [group EXCEPT ![g].status = "COMPLETED"]
  BY <1>1 DEF CompleteGroup, Closing
<1>3. o \in Orders \cap N /\ g \in DOMAIN group /\ group[g].primary = o
  BY <1>1, <1>2, ReleaserHolds
<1>4. Shrinks /\ DOMAIN group' = DOMAIN group
  BY <1>2, <1>3, ShrinksIf
<1>5. table' \in [Table -> TableStatus]
  BY <1>2 DEF FloorInv, RowsInv, FloorTypeOK
<1>6. \A h \in DOMAIN group : /\ h # g => group'[h] = group[h]
                              /\ h = g => ~Active(h)'
  <2>1. group[g] \in Group
    BY <1>3, RowsAre DEF FloorInv
  <2>2. [group[g] EXCEPT !.status = "COMPLETED"].status = "COMPLETED"
    BY <2>1 DEF Group
  <2>3. /\ \A h \in DOMAIN group : h # g => group'[h] = group[h]
        /\ group'[g] = [group[g] EXCEPT !.status = "COMPLETED"]
    BY <1>2, <1>3, RowsAre DEF FloorInv
  <2>4. QED
    BY <2>2, <2>3 DEF Active
<1>7. \A q : SittingAt(q)' = SittingAt(q)
  BY <1>2 DEF SittingAt, IsOpen
<1>8. \A h \in DOMAIN group : (Active(h)' <=> Active(h) /\ h # g) /\ TablesOf(h)' = TablesOf(h)
  BY <1>4, <1>6 DEF Active, Shrinks, TablesOf
<1>9. ~Closing(s)'
  BY <1>2, DoneIs DEF Closing, NoWork
<1>10. ASSUME ~(N \cap Table \subseteq floorDoubt)
       PROVE  /\ \A q \in Sure \cap N : TableOK(q)'
              /\ \A h \in DOMAIN group : Active(h)' /\ group[h].primary = o => TablesOf(h) \cap Sure = {}
  <2>1. /\ Reads(s)
        /\ \A q \in Sure \cap N : Released(q) => \E h \in LedBy(o) : q \in TablesOf(h)
    BY <1>1, <1>10, Undisturbed
  <2>2. /\ g = FirstLedBy(o) /\ Active(g) /\ orders[o].status = "CANCELLED"
        /\ \A q \in Sure \cap TablesOf(g) : IsTable(q) => table[q] = "AVAILABLE"
    BY <1>1, <1>2, <2>1 DEF Reads, Closing
  <2>3. ASSUME NEW h \in DOMAIN group, Active(h)', group[h].primary = o PROVE TablesOf(h) \cap Sure = {}
    <3>1. Active(h) /\ h # g
      BY <1>8, <2>3
    <3>2. QED
      BY <2>2, <2>3, <3>1, GroupSeats
  <2>4. ASSUME NEW q \in Sure \cap N PROVE TableOK(q)'
    <3>1. CASE q \in TablesOf(g)
      <4>1. SittingAt(q)' = {}
        BY <1>3, <1>7, <2>2, <2>4, <3>1, GroupSeats DEF SittingAt, IsOpen
      <4>2. ~InGroup(q)'
        BY <1>3, <1>4, <1>8, <2>2, <2>4, <3>1, GroupSeats DEF InGroup
      <4>3. IsTable(q)' => table'[q] = "AVAILABLE"
        BY <1>2, <2>2, <2>4, <3>1 DEF IsTable
      <4>4. QED
        BY <4>1, <4>2, <4>3 DEF TableOK
    <3>2. CASE q \notin TablesOf(g)
      <4>1. ~Released(q)
        <5>1. SUFFICES ASSUME NEW h \in LedBy(o), q \in TablesOf(h) PROVE FALSE
          BY <2>1, <2>4
        <5>2. h \in DOMAIN group /\ Active(h) /\ group[h].primary = o /\ h # g
          BY <3>2, <5>1 DEF LedBy
        <5>3. QED
          BY <1>8, <2>3, <2>4, <5>1, <5>2
      <4>2. InGroup(q)' <=> InGroup(q)
        BY <1>4, <1>8, <3>2 DEF InGroup
      <4>3. QED
        BY <1>2, <1>7, <2>4, <4>1, <4>2, SameTable
    <3>3. QED
      BY <3>1, <3>2
  <2>5. QED
    BY <2>3, <2>4
<1>11. Doomed(s)'
  BY <1>2, DoneIs
<1>12. ~(N \cap Table \subseteq floorDoubt) => ReleaseOK(s)
  BY <1>1, <1>10, <1>11 DEF ReleaseOK
<1>13. QED
  BY <1>1, <1>2, <1>3, <1>4, <1>6, <1>12, ReleaseEnds

\* A request that dies leaves what it was about in doubt if it had begun to write.
LEMMA AbandonStep ==
  ASSUME FloorInv, NEW s \in Waiter, Abandon(s)
  PROVE  FloorInv'
<1>1. PICK N : N = work[s].near
  OBVIOUS
<1>2. /\ work[s].phase # "idle" /\ Done(s)
      /\ table' = table /\ orders' = orders /\ group' = group
      /\ floorDoubt' = IF work[s].phase = "checked" THEN floorDoubt ELSE floorDoubt \cup (Table \cap N)
  BY <1>1 DEF Abandon
<1>3. floorDoubt \subseteq floorDoubt' /\ floorDoubt' \subseteq Table
  BY <1>2, RowsAre DEF FloorInv
<1>4. Shrinks
  BY <1>2, ShrinksIf
<1>5. \A q \in Orders : (Known(q) <=> Known(q)') /\ (~Known(q)' => orders'[q].at = NoTable)
  BY <1>2, RowsAre DEF FloorInv, Known
<1>6. table' \in [Table -> TableStatus] /\ orders' \in [Orders -> SeatedRow]
  BY <1>2 DEF FloorInv, RowsInv, FloorTypeOK
<1>7. RowsInv'
  BY <1>2, <1>3, <1>4, <1>5, <1>6, DoneIs, RowsKept
<1>8. Touch(N)
  BY <1>2, <1>3, <1>4, ShrinkTouch
<1>9. ASSUME ~(N \cap Table \subseteq floorDoubt')
      PROVE  Local(s, N)
  <2>1. work[s].phase = "checked" /\ floorDoubt' = floorDoubt /\ ~Closing(s)
    BY <1>2, <1>9 DEF Closing
  <2>2. \A q : (InGroup(q)' <=> InGroup(q)) /\ SittingAt(q)' = SittingAt(q)
    BY <1>2 DEF InGroup, Active, TablesOf, SittingAt, IsOpen
  <2>3. \A q \in Sure' \cap N : TableOK(q)' /\ SeatOK(q)'
    <3>1. \A q \in Sure' \cap N : q \in Sure /\ ~Released(q)
      BY <1>1, <1>9, <2>1, Undisturbed DEF Sure
    <3>2. QED
      BY <1>2, <2>2, <3>1, SameTable
  <2>4. ASSUME NEW g \in DOMAIN group, Active(g), NEW m \in group[g].members, m.table \in Sure' \cap N
        PROVE  /\ SittingAt(m.table)' \subseteq {m.orig}
               /\ m.orig # group[g].primary =>
                    orders'[m.orig].status = "MERGED" /\ ~orders'[m.orig].deleted
               /\ m.orig = group[g].primary =>
                    Seated(m.orig)' \/ \E u \in Waiter : Closing(u)' /\ work'[u].ord = m.orig
    <3>1. m.table \in Sure /\ SittingAt(m.table)' \subseteq SittingAt(m.table)
      BY <2>1, <2>2, <2>4 DEF Sure
    <3>2. QED
      BY <1>2, <2>1, <2>4, <3>1, DoneIs, SameMember
  <2>5. \A h : Active(h)' <=> Active(h)
    BY <1>2 DEF Active
  <2>6. QED
    BY <1>2, <1>3, <1>4, <2>3, <2>4, <2>5, DoneIs, ShrinkLocal
<1>10. QED
  BY <1>1, <1>2, <1>5, <1>7, <1>8, <1>9, DoneIs, OwnStep

\* splitOrders commits: each order of the group sits alone at its own table again.
LEMMA SplitStep ==
  ASSUME FloorInv, NEW s \in Waiter, Split(s)
  PROVE  FloorInv'
<1>1. PICK N, g, p : N = work[s].near /\ g = work[s].grp /\ p = group[work[s].grp].primary
  OBVIOUS
<1>2. /\ work[s].op = "split" /\ g \in DOMAIN group /\ p = group[g].primary /\ p \in Orders \cap N
      /\ work[s].todo \subseteq N /\ work[s].has \subseteq N /\ N \subseteq Table \cup Orders
      /\ ~Closing(s)
  BY <1>1, RowsAre DEF Split, FloorInv, HoldsInv, Holds, Closing
<1>3. PICK back : back = {m \in group[g].members : /\ m.table \in work[s].todo
                                                   /\ m.orig \in work[s].has
                                                   /\ m.orig # p}
  OBVIOUS
<1>4. PICK origs, ts : origs = {m.orig : m \in back} /\ ts = {m.table : m \in back}
  OBVIOUS
<1>5. /\ orders' = [o \in Orders |-> IF o \notin origs THEN orders[o]
                                     ELSE [orders[o] EXCEPT !.status = "OPEN"]]
      /\ table' = Mark(ts, "OCCUPIED")
      /\ group' = [group EXCEPT ![g].status = "SPLIT"]
      /\ floorDoubt' = floorDoubt /\ Done(s)
  BY <1>1, <1>2, <1>3, <1>4 DEF Split
<1>6. /\ \A m \in back : /\ m \in group[g].members /\ m.orig \in Orders /\ m.table \in Table
                         /\ Known(m.orig) /\ m.orig # p
      /\ origs \subseteq N \cap Orders /\ ts \subseteq N \cap Table
  BY <1>2, <1>3, <1>4, RowsAre DEF FloorInv
<1>7. /\ orders' \in [Orders -> SeatedRow]
      /\ \A q \in Orders : /\ q \notin origs => orders'[q] = orders[q]
                           /\ q \in origs => orders'[q].status = "OPEN"
                           /\ orders'[q].deleted = orders[q].deleted
                           /\ orders'[q].at = orders[q].at /\ orders'[q].has = orders[q].has
  <2>1. ASSUME NEW q \in Orders
        PROVE  /\ [orders[q] EXCEPT !.status = "OPEN"] \in SeatedRow
               /\ [orders[q] EXCEPT !.status = "OPEN"].status = "OPEN"
               /\ [orders[q] EXCEPT !.status = "OPEN"].deleted = orders[q].deleted
               /\ [orders[q] EXCEPT !.status = "OPEN"].at = orders[q].at
               /\ [orders[q] EXCEPT !.status = "OPEN"].has = orders[q].has
    <3>1. orders[q] \in SeatedRow
      BY DEF FloorInv, RowsInv, FloorTypeOK
    <3>2. QED
      BY <3>1 DEF SeatedRow, OrderStatus
  <2>2. \A q \in Orders : orders[q] \in SeatedRow
    BY DEF FloorInv, RowsInv, FloorTypeOK
  <2>3. orders' \in [Orders -> SeatedRow]
    BY <1>5, <2>1, <2>2
  <2>4. ASSUME NEW q \in Orders
        PROVE  /\ q \notin origs => orders'[q] = orders[q]
               /\ q \in origs => orders'[q].status = "OPEN"
               /\ orders'[q].deleted = orders[q].deleted
               /\ orders'[q].at = orders[q].at /\ orders'[q].has = orders[q].has
    <3>1. CASE q \notin origs
      BY <1>5, <3>1
    <3>2. CASE q \in origs
      <4>1. orders'[q] = [orders[q] EXCEPT !.status = "OPEN"]
        BY <1>5, <3>2
      <4>2. QED
        BY <2>1, <3>2, <4>1
    <3>3. QED
      BY <3>1, <3>2
  <2>5. QED
    BY <2>3, <2>4
<1>8. /\ table' \in [Table -> TableStatus]
      /\ \A q \in Table : table'[q] = IF q \in ts THEN "OCCUPIED" ELSE table[q]
  BY <1>5, MarkIs DEF TableStatus
<1>9. Shrinks /\ DOMAIN group' = DOMAIN group
  BY <1>2, <1>5, ShrinksIf
<1>10. \A h \in DOMAIN group : /\ h # g => group'[h] = group[h]
                               /\ h = g => ~Active(h)'
  <2>1. group[g] \in Group
    BY <1>2, RowsAre DEF FloorInv
  <2>2. [group[g] EXCEPT !.status = "SPLIT"].status = "SPLIT"
    BY <2>1 DEF Group
  <2>3. /\ \A h \in DOMAIN group : h # g => group'[h] = group[h]
        /\ group'[g] = [group[g] EXCEPT !.status = "SPLIT"]
    BY <1>2, <1>5, RowsAre DEF FloorInv
  <2>4. QED
    BY <2>2, <2>3 DEF Active
<1>11. \A q \in Orders : (Known(q) <=> Known(q)') /\ (~Known(q)' => orders'[q].at = NoTable)
  <2>1. \A q \in origs : Known(q)
    BY <1>4, <1>6
  <2>2. QED
    BY <1>7, <2>1, RowsAre DEF Known, FloorInv
<1>12. RowsInv'
  BY <1>5, <1>7, <1>8, <1>9, <1>11, DoneIs, RowsKept, RowsAre DEF FloorInv
<1>13. Touch(N)
  <2>1. \A q \in Table : q \notin N \cup floorDoubt => table'[q] = table[q]
    BY <1>6, <1>8
  <2>2. \A h \in DOMAIN group : group[h].primary \notin N => group'[h] = group[h]
    BY <1>2, <1>10
  <2>3. \A q \in Orders \ N : orders'[q] = orders[q]
    BY <1>6, <1>7
  <2>4. QED
    BY <1>5, <1>7, <1>9, <2>1, <2>2, <2>3, ShrinkTouch
<1>14. ASSUME ~(N \cap Table \subseteq floorDoubt)
       PROVE  Local(s, N)
  <2>1. /\ Reads(s) /\ \A q \in Sure \cap N : ~Released(q)
        /\ \A u \in Waiter : Closing(u) => work[u].ord # p
    BY <1>1, <1>2, <1>14, Undisturbed
  <2>2. Active(g) /\ back = {m \in group[g].members : m.orig # p}
    BY <1>1, <1>2, <1>3, <2>1 DEF Reads, TablesOf, OriginalsOf
  <2>3. \A h \in DOMAIN group : (Active(h)' <=> Active(h) /\ h # g) /\ TablesOf(h)' = TablesOf(h)
    BY <1>9, <1>10 DEF Active, Shrinks, TablesOf
  <2>4. ASSUME NEW n \in back, NEW q \in Sure, orders[n.orig].at = q
        PROVE  n.table = q
    <3>1. n \in group[g].members /\ n.table \in Table /\ q \notin floorDoubt /\ q # NoTable
      BY <1>6, <2>4, FloorNullAssumption DEF Sure
    <3>2. MemberOK(g, n)
      BY <1>2, <2>2, <3>1 DEF FloorInv, MemberInv
    <3>3. QED
      BY <2>4, <3>1, <3>2 DEF MemberOK
  <2>5. ASSUME NEW q \in Sure, NEW m \in group[g].members, m.table = q
        PROVE  /\ \A n \in back : orders[n.orig].at = q => n = m
               /\ orders[m.orig].at = q
               /\ SureMember(g, m)
    <3>1. SureMember(g, m) /\ MemberOK(g, m)
      BY <1>2, <2>2, <2>5 DEF FloorInv, SureMemberInv, MemberInv
    <3>2. \A n \in back : orders[n.orig].at = q => n = m
      BY <1>2, <1>6, <2>2, <2>4, <2>5, <3>1 DEF SureMember
    <3>3. QED
      BY <2>5, <3>1, <3>2 DEF MemberOK
  <2>6. ASSUME NEW q \in Sure, q \notin ts
        PROVE  SittingAt(q)' = SittingAt(q)
    <3>1. \A o \in origs : orders[o].at # q
      BY <1>4, <2>4, <2>6
    <3>2. QED
      BY <1>7, <3>1 DEF SittingAt, IsOpen
  <2>7. ASSUME NEW q \in Sure' \cap N PROVE TableOK(q)' /\ SeatOK(q)'
    <3>1. q \in Sure /\ q \in Table /\ ~Released(q)
      BY <1>5, <2>1, <2>7 DEF Sure
    <3>2. CASE q \in ts
      <4>1. PICK m \in back : m.table = q
        BY <1>4, <3>2
      <4>2. /\ \A n \in back : orders[n.orig].at = q => n = m
            /\ orders[m.orig].at = q
            /\ SureMember(g, m) /\ m.orig \in origs /\ m.orig \in Orders /\ m.orig # p
        BY <1>4, <1>6, <2>5, <3>1, <4>1
      <4>3. SittingAt(q) \subseteq {m.orig} /\ ~orders[m.orig].deleted
        BY <1>2, <4>1, <4>2 DEF SureMember
      <4>4. \A o \in origs : orders[o].at = q => o = m.orig
        BY <1>4, <4>2
      <4>5. SittingAt(q)' = {m.orig}
        <5>1. m.orig \in SittingAt(q)'
          BY <1>7, <4>2, <4>3 DEF SittingAt, IsOpen
        <5>2. ASSUME NEW o \in SittingAt(q)' PROVE o = m.orig
          <6>1. o \in Orders /\ orders'[o].at = q /\ orders'[o].status = "OPEN" /\ ~orders'[o].deleted
            BY <5>2 DEF SittingAt, IsOpen
          <6>2. CASE o \in origs
            BY <1>7, <4>4, <6>1, <6>2
          <6>3. CASE o \notin origs
            <7>1. o \in SittingAt(q)
              BY <1>7, <6>1, <6>3 DEF SittingAt, IsOpen
            <7>2. QED
              BY <4>3, <7>1
          <6>4. QED
            BY <6>2, <6>3
        <5>3. QED
          BY <5>1, <5>2
      <4>6. table'[q] = "OCCUPIED"
        BY <1>8, <3>1, <3>2
      <4>7. QED
        BY <4>5, <4>6 DEF TableOK, SeatOK
    <3>3. CASE q \notin ts /\ q \in TablesOf(g)
      <4>1. PICK m \in group[g].members : m.table = q
        BY <3>3 DEF TablesOf
      <4>2. m.orig = p
        BY <1>4, <2>2, <3>3, <4>1
      <4>3. orders[p].at = q /\ SureMember(g, m)
        BY <2>5, <3>1, <4>1, <4>2
      <4>4. Seated(p)
        BY <1>2, <2>1, <4>2, <4>3 DEF SureMember
      <4>5. p \in SittingAt(q) /\ SittingAt(q)' = SittingAt(q) /\ table'[q] = table[q]
        BY <1>2, <1>8, <2>6, <3>1, <3>3, <4>3, <4>4 DEF SittingAt, Seated
      <4>6. TableOK(q) /\ SeatOK(q)
        BY <3>1 DEF FloorInv, TableInv
      <4>7. QED
        BY <3>1, <4>5, <4>6 DEF TableOK, SeatOK, IsTable
    <3>4. CASE q \notin ts /\ q \notin TablesOf(g)
      <4>1. InGroup(q)' <=> InGroup(q)
        BY <1>9, <2>3, <3>4 DEF InGroup
      <4>2. QED
        BY <1>8, <2>6, <3>1, <3>4, <4>1, SameTable
    <3>5. QED
      BY <3>2, <3>3, <3>4
  <2>8. ASSUME NEW h \in DOMAIN group, Active(h)', NEW m \in group[h].members, m.table \in Sure' \cap N
        PROVE  /\ SittingAt(m.table)' \subseteq {m.orig}
               /\ m.orig # group[h].primary =>
                    orders'[m.orig].status = "MERGED" /\ ~orders'[m.orig].deleted
               /\ m.orig = group[h].primary =>
                    Seated(m.orig)' \/ \E u \in Waiter : Closing(u)' /\ work'[u].ord = m.orig
    <3>1. /\ m.table \in Sure /\ m.table \in Table /\ m.orig \in Orders /\ Active(h) /\ h # g
          /\ m.table \in TablesOf(h)
      BY <1>5, <2>3, <2>8, RowsAre DEF Sure, FloorInv, TablesOf
    <3>2. m.table \notin TablesOf(g)
      BY <1>2, <2>2, <3>1, GroupSeats
    <3>3. m.table \notin ts
      BY <1>4, <1>6, <3>2 DEF TablesOf
    <3>4. orders[m.orig].at = m.table
      BY <2>8, <3>1 DEF FloorInv, MemberInv, MemberOK
    <3>5. m.orig \notin origs
      BY <1>4, <1>6, <2>4, <3>1, <3>2, <3>4 DEF TablesOf
    <3>6. SittingAt(m.table)' = SittingAt(m.table) /\ orders'[m.orig] = orders[m.orig]
      BY <1>7, <2>6, <3>1, <3>3, <3>5
    <3>7. m.table \in Sure /\ SittingAt(m.table)' \subseteq SittingAt(m.table) /\ Active(h)
      BY <3>1, <3>6
    <3>8. m \in group[h].members /\ (Closing(s) => work[s].ord # m.orig)
      BY <1>2, <2>8
    <3>9. orders'[m.orig].status = orders[m.orig].status /\ orders'[m.orig].deleted = orders[m.orig].deleted
      BY <3>6
    <3>10. \A u \in Waiter \ {s} : work'[u] = work[u]
      BY <1>5, DoneIs
    <3>11. QED
      BY <3>7, <3>8, <3>9, <3>10, SameMember
  <2>9. \A q \in Orders \cap N : orders'[q].status = "MERGED" => orders'[q] = orders[q]
    BY <1>7
  <2>10. Doomed(s)' /\ Shrinks /\ floorDoubt \subseteq floorDoubt'
    BY <1>5, <1>9, DoneIs
  <2>11. \A q \in Orders \cap N : orders'[q].status = "MERGED" =>
           /\ orders[q].status = "MERGED"
           /\ orders'[q].at = orders[q].at /\ orders'[q].has = orders[q].has
    BY <2>9
  <2>12. QED
    BY <2>7, <2>8, <2>10, <2>11, ShrinkLocal
<1>15. QED
  BY <1>1, <1>5, <1>11, <1>12, <1>13, <1>14, DoneIs, OwnStep

\* deleteTable commits: nobody sits at the table, and no group lists it.
LEMMA DropStep ==
  ASSUME FloorInv, NEW s \in Waiter, DropTable(s)
  PROVE  FloorInv'
<1>1. PICK N, t : N = work[s].near /\ t = work[s].at
  OBVIOUS
<1>2. work[s].op = "dropTable" /\ t \in Table /\ N = {t} /\ ~Closing(s)
  BY <1>1 DEF DropTable, FloorInv, HoldsInv, Holds, Closing
<1>3. /\ orders' = [o \in Orders |-> IF orders[o].at # t THEN orders[o]
                                     ELSE [orders[o] EXCEPT !.at = NoTable]]
      /\ table' = Mark({t}, "NONE")
      /\ group' = group /\ floorDoubt' = floorDoubt /\ Done(s)
      /\ \A g \in DOMAIN group : t \notin TablesOf(g)
  BY <1>1 DEF DropTable
<1>4. /\ orders' \in [Orders -> SeatedRow]
      /\ \A q \in Orders : /\ orders[q].at # t => orders'[q] = orders[q]
                           /\ orders[q].at = t => orders'[q].at = NoTable
                           /\ orders'[q].status = orders[q].status
                           /\ orders'[q].deleted = orders[q].deleted
                           /\ orders'[q].has = orders[q].has
  <2>1. \A q \in Orders : orders[q] \in SeatedRow
    BY DEF FloorInv, RowsInv, FloorTypeOK
  <2>2. ASSUME NEW q \in Orders
        PROVE  /\ [orders[q] EXCEPT !.at = NoTable] \in SeatedRow
               /\ [orders[q] EXCEPT !.at = NoTable].at = NoTable
               /\ [orders[q] EXCEPT !.at = NoTable].status = orders[q].status
               /\ [orders[q] EXCEPT !.at = NoTable].deleted = orders[q].deleted
               /\ [orders[q] EXCEPT !.at = NoTable].has = orders[q].has
    BY <2>1 DEF SeatedRow
  <2>3. orders' \in [Orders -> SeatedRow]
    BY <1>3, <2>1, <2>2
  <2>4. ASSUME NEW q \in Orders
        PROVE  /\ orders[q].at # t => orders'[q] = orders[q]
               /\ orders[q].at = t => orders'[q].at = NoTable
               /\ orders'[q].status = orders[q].status
               /\ orders'[q].deleted = orders[q].deleted
               /\ orders'[q].has = orders[q].has
    <3>1. CASE orders[q].at # t
      BY <1>3, <3>1
    <3>2. CASE orders[q].at = t
      <4>1. orders'[q] = [orders[q] EXCEPT !.at = NoTable]
        BY <1>3, <3>2
      <4>2. QED
        BY <2>2, <3>2, <4>1
    <3>3. QED
      BY <3>1, <3>2
  <2>5. QED
    BY <2>3, <2>4
<1>5. /\ table' \in [Table -> TableStatus]
      /\ \A q \in Table : table'[q] = IF q = t THEN "NONE" ELSE table[q]
  <2>1. "NONE" \in TableStatus
    BY DEF TableStatus
  <2>2. PICK ts : ts = {t}
    OBVIOUS
  <2>3. table' = Mark(ts, "NONE")
    BY <1>3, <2>2
  <2>4. /\ table' \in [Table -> TableStatus]
        /\ \A q \in Table : table'[q] = IF q \in ts THEN "NONE" ELSE table[q]
    BY <2>1, <2>3, MarkIs
  <2>5. QED
    BY <2>2, <2>4
<1>6. Shrinks
  BY <1>3, ShrinksIf
<1>7. \A q \in Orders : (Known(q) <=> Known(q)') /\ (~Known(q)' => orders'[q].at = NoTable)
  BY <1>4, RowsAre DEF Known, FloorInv
<1>8. RowsInv'
  BY <1>3, <1>4, <1>5, <1>6, <1>7, DoneIs, RowsKept, RowsAre DEF FloorInv
<1>9. N \cap Orders = {}
  BY <1>2, FloorIdAssumption
<1>10. Touch(N)
  <2>1. \A q \in Orders \ N :
       /\ orders'[q].status = orders[q].status /\ orders'[q].deleted = orders[q].deleted
       /\ orders'[q].has \subseteq orders[q].has
       /\ \/ orders'[q].at = orders[q].at
          \/ /\ orders'[q].at = NoTable /\ orders[q].at \in N
             /\ \A g \in DOMAIN group : orders[q].at \notin TablesOf(g)
    BY <1>2, <1>3, <1>4
  <2>2. \A q \in Table : q \notin N \cup floorDoubt => table'[q] = table[q]
    BY <1>2, <1>5
  <2>3. \A g \in DOMAIN group : Active(g)' => Active(g)
    BY <1>3 DEF Active
  <2>4. \A q \in Orders : q \notin N
    BY <1>9
  <2>5. /\ floorDoubt \subseteq floorDoubt' /\ DOMAIN group \subseteq DOMAIN group'
        /\ \A g \in DOMAIN group' : g \in DOMAIN group
        /\ \A g \in DOMAIN group : group'[g] = group[g]
    BY <1>3
  <2>6. QED
    BY <2>1, <2>2, <2>3, <2>4, <2>5 DEF Touch
<1>11. ASSUME ~(N \cap Table \subseteq floorDoubt)
       PROVE  Local(s, N)
  <2>1. SittingAt(t) = {}
    BY <1>1, <1>2, <1>11, Undisturbed DEF Reads
  <2>2. SittingAt(t)' = {}
    BY <1>2, <1>4, FloorNullAssumption DEF SittingAt
  <2>3. \A q \in Sure' \cap N : TableOK(q)' /\ SeatOK(q)'
    BY <1>2, <1>5, <2>2 DEF TableOK, SeatOK, IsTable
  <2>4. \A g \in DOMAIN group : \A m \in group[g].members : m.table \notin Sure' \cap N
    BY <1>2, <1>3 DEF TablesOf
  <2>5. QED
    BY <1>3, <1>6, <1>9, <2>3, <2>4, DoneIs, ShrinkLocal
<1>12. QED
  BY <1>1, <1>3, <1>7, <1>8, <1>10, <1>11, DoneIs, OwnStep

\* What merging does to the groups: the order joins group k as the member src, and the
\* target as tgt if the group is new.
Joins(s, k, src, tgt) ==
  /\ group' \in Seq(Group) /\ Len(group') <= MaxGroups
  /\ DOMAIN group' = DOMAIN group \cup {k} /\ DOMAIN group \subseteq Nat /\ k \in Nat
  /\ \A h \in DOMAIN group : h # k => group'[h] = group[h]
  /\ group'[k].primary = work[s].other
  /\ work[s].grp = 0 =>
       /\ k \notin DOMAIN group /\ \A h \in DOMAIN group : h < k
       /\ group'[k].status = "ACTIVE" /\ group'[k].members = {src, tgt}
       /\ tgt.table \in Table \cap work[s].near
  /\ work[s].grp # 0 =>
       /\ k = work[s].grp /\ k \in DOMAIN group
       /\ group[k].primary = work[s].other
       /\ group'[k].status = group[k].status
       /\ group'[k].members = group[k].members \cup {src}
  /\ src \in Member /\ src.table = work[s].at /\ src.orig = work[s].ord
  /\ tgt.table = work[s].to /\ tgt.orig = work[s].other
  /\ src.table \in Table \cap work[s].near

\* Such a group there is.
LEMMA MergeGroups ==
  ASSUME FloorInv, NEW s \in Waiter, Merge(s)
  PROVE  \E k, src, tgt : Joins(s, k, src, tgt)
<1>0. PICK k, src, tgt :
        /\ src = [table |-> work[s].at, orig |-> work[s].ord]
        /\ tgt = [table |-> work[s].to, orig |-> work[s].other]
        /\ k = IF work[s].grp = 0 THEN Len(group) + 1 ELSE work[s].grp
  OBVIOUS
<1>1. /\ work[s].op = "merge" /\ Listable(work[s].at)
      /\ work[s].grp = 0 => /\ Listable(work[s].to) /\ Len(group) < MaxGroups
                            /\ group' = Append(group, [status |-> "ACTIVE",
                                 primary |-> work[s].other, members |-> {src, tgt}])
      /\ work[s].grp # 0 => group' = [group EXCEPT ![work[s].grp].members = @ \cup {src}]
  BY <1>0 DEF Merge
<1>2. /\ work[s].ord \in Orders /\ work[s].other \in Orders
      /\ work[s].at \in (Table \cap work[s].near) \cup {NoTable}
      /\ work[s].to \in (Table \cap work[s].near) \cup {NoTable}
      /\ work[s].grp # 0 => /\ work[s].grp \in DOMAIN group
                            /\ group[work[s].grp].primary = work[s].other
  BY <1>1 DEF FloorInv, HoldsInv, Holds, AboutOrder
<1>3. /\ group \in Seq(Group) /\ Len(group) \in Nat /\ DOMAIN group = 1..Len(group)
      /\ Len(group) <= MaxGroups
  BY RowsAre DEF FloorInv, RowsInv, FloorTypeOK
<1>4. /\ src \in Member /\ src.table = work[s].at /\ src.orig = work[s].ord
      /\ tgt.table = work[s].to /\ tgt.orig = work[s].other
      /\ src.table \in Table \cap work[s].near
  BY <1>0, <1>1, <1>2 DEF Listable, Member
<1>5. ASSUME work[s].grp = 0 PROVE Joins(s, k, src, tgt)
  <2>1. tgt \in Member /\ tgt.table \in Table \cap work[s].near
    BY <1>0, <1>1, <1>2, <1>5 DEF Listable, Member
  <2>2. PICK new : new = [status |-> "ACTIVE", primary |-> work[s].other, members |-> {src, tgt}]
    OBVIOUS
  <2>3. new \in Group
    BY <1>2, <1>4, <2>1, <2>2 DEF Group
  <2>4. new.status = "ACTIVE" /\ new.primary = work[s].other /\ new.members = {src, tgt}
    BY <2>2
  <2>5. group' = Append(group, new) /\ k = Len(group) + 1 /\ Len(group) < MaxGroups
    BY <1>0, <1>1, <1>5, <2>2
  <2>6. /\ group' \in Seq(Group) /\ Len(group') = Len(group) + 1 /\ group'[k] = new
        /\ \A h \in 1..Len(group) : group'[h] = group[h]
    BY <1>3, <2>3, <2>5
  <2>7. Len(group') <= MaxGroups /\ DOMAIN group' = DOMAIN group \cup {k}
    BY <1>3, <2>5, <2>6, FloorBoundAssumption
  <2>8. k \notin DOMAIN group /\ \A h \in DOMAIN group : h < k
    BY <1>3, <2>5
  <2>9. QED
    BY <1>3, <1>4, <1>5, <2>1, <2>4, <2>5, <2>6, <2>7, <2>8 DEF Joins
<1>6. ASSUME work[s].grp # 0 PROVE Joins(s, k, src, tgt)
  <2>1. k = work[s].grp /\ k \in DOMAIN group /\ group[k].primary = work[s].other
    BY <1>0, <1>2, <1>6
  <2>2. group[k] \in Group
    BY <1>3, <2>1
  <2>3. PICK new : new = [group[k] EXCEPT !.members = @ \cup {src}]
    OBVIOUS
  <2>4. /\ new \in Group /\ new.status = group[k].status /\ new.primary = group[k].primary
        /\ new.members = group[k].members \cup {src}
    BY <1>4, <2>2, <2>3 DEF Group
  <2>5. group' = [group EXCEPT ![k] = new]
    BY <1>1, <1>6, <2>1, <2>3
  <2>6. /\ group' \in Seq(Group) /\ Len(group') = Len(group) /\ group'[k] = new
        /\ \A h \in DOMAIN group : h # k => group'[h] = group[h]
    BY <1>3, <2>1, <2>4, <2>5
  <2>7. Len(group') <= MaxGroups /\ DOMAIN group' = DOMAIN group \cup {k}
    <3>1. DOMAIN group' = DOMAIN group
      BY <2>5
    <3>2. QED
      BY <1>3, <2>1, <2>6, <3>1
  <2>8. QED
    BY <1>3, <1>4, <1>6, <2>1, <2>4, <2>6, <2>7 DEF Joins
<1>7. QED
  BY <1>5, <1>6

\* What merging does to the orders.
LEMMA MergeOrders ==
  ASSUME FloorInv, NEW s \in Waiter, Merge(s)
  PROVE  /\ orders' \in [Orders -> SeatedRow]
         /\ \A q \in Orders :
              /\ orders'[q].at = orders[q].at /\ orders'[q].deleted = orders[q].deleted
              /\ q # work[s].ord => orders'[q].status = orders[q].status
              /\ q # work[s].other => orders'[q].has \subseteq orders[q].has
              /\ q = work[s].ord => /\ orders'[q].status = "MERGED"
                                    /\ orders'[q].has = orders[q].has \ work[s].has
<1>1. PICK o, p, has : o = work[s].ord /\ p = work[s].other /\ has = work[s].has
  OBVIOUS
<1> DEFINE Row(q) == CASE q = o   -> [orders[q] EXCEPT !.status = "MERGED", !.has = @ \ has]
                       [] q = p   -> [orders[q] EXCEPT !.has = @ \cup has]
                       [] OTHER   -> [orders[q] EXCEPT !.has = @ \ has]
<1>2. work[s].op = "merge" /\ orders' = [q \in Orders |-> Row(q)]
  <2>1. orders' = [q \in Orders |->
          CASE q = work[s].ord   -> [orders[q] EXCEPT !.status = "MERGED",
                                                      !.has = @ \ work[s].has]
            [] q = work[s].other -> [orders[q] EXCEPT !.has = @ \cup work[s].has]
            [] OTHER             -> [orders[q] EXCEPT !.has = @ \ work[s].has]]
    BY DEF Merge
  <2>2. QED
    BY <1>1, <2>1, ZenonT(60) DEF Merge
<1>3. o # p
  BY <1>1, <1>2 DEF FloorInv, HoldsInv, Holds
<1>4. has \subseteq Orders
  <2>1. work[s] \in Work
    BY DEF FloorInv, RowsInv, FloorTypeOK
  <2>2. QED
    BY <1>1, <2>1 DEF Work
<1>5. ASSUME NEW q \in Orders
      PROVE  /\ Row(q) \in SeatedRow
             /\ Row(q).at = orders[q].at /\ Row(q).deleted = orders[q].deleted
             /\ q # o => Row(q).status = orders[q].status
             /\ q # p => Row(q).has \subseteq orders[q].has
             /\ q = o => Row(q).status = "MERGED" /\ Row(q).has = orders[q].has \ has
  <2>1. orders[q] \in SeatedRow
    BY DEF FloorInv, RowsInv, FloorTypeOK
  <2>2. CASE q = o
    <3>1. Row(q) = [orders[q] EXCEPT !.status = "MERGED", !.has = @ \ has]
      BY <1>3, <2>2
    <3> HIDE DEF Row
    <3>2. QED
      BY <1>3, <2>1, <2>2, <3>1, ZenonT(60) DEF SeatedRow, OrderStatus
  <2>3. CASE q = p
    <3>1. Row(q) = [orders[q] EXCEPT !.has = @ \cup has]
      BY <1>3, <2>3
    <3> HIDE DEF Row
    <3>2. QED
      BY <1>3, <1>4, <2>1, <2>3, <3>1 DEF SeatedRow
  <2>4. CASE q # o /\ q # p
    <3>1. Row(q) = [orders[q] EXCEPT !.has = @ \ has]
      BY <2>4
    <3> HIDE DEF Row
    <3>2. QED
      BY <2>1, <2>4, <3>1 DEF SeatedRow
  <2>5. QED
    BY <2>2, <2>3, <2>4
<1> HIDE DEF Row
<1>6. orders' \in [Orders -> SeatedRow] /\ \A q \in Orders : orders'[q] = Row(q)
  BY <1>2, <1>5
<1>7. QED
  BY <1>1, <1>5, <1>6

\* mergeOrders commits: the order's table belongs to the group of the target now.
LEMMA MergeStep ==
  ASSUME FloorInv, NEW s \in Waiter, Merge(s)
  PROVE  FloorInv'
<1>1. PICK k, src, tgt : Joins(s, k, src, tgt)
  BY MergeGroups
<1> PICK N, o, p, new : N = work[s].near /\ o = work[s].ord /\ p = work[s].other
                        /\ new = (work[s].grp = 0)
  OBVIOUS
<1>2. /\ work[s].op = "merge" /\ ~Closing(s)
      /\ table' = table /\ floorDoubt' = floorDoubt /\ Done(s)
  BY DEF Merge, FloorInv, HoldsInv, Holds, Closing
<1>3. /\ o \in Orders \cap N /\ Known(o) /\ p \in Orders \cap N /\ Known(p) /\ o # p
  BY <1>1, <1>2 DEF FloorInv, HoldsInv, Holds, AboutOrder
<1>5. /\ group' \in Seq(Group) /\ Len(group') <= MaxGroups
      /\ DOMAIN group' = DOMAIN group \cup {k} /\ DOMAIN group \subseteq Nat /\ k \in Nat
      /\ \A h \in DOMAIN group : h # k => group'[h] = group[h]
      /\ group'[k].primary = p
      /\ new => /\ k \notin DOMAIN group /\ \A h \in DOMAIN group : h < k
                /\ group'[k].status = "ACTIVE" /\ group'[k].members = {src, tgt}
                /\ tgt.table \in Table \cap N
      /\ ~new => /\ k \in DOMAIN group /\ group[k].primary = p
                 /\ group'[k].status = group[k].status
                 /\ group'[k].members = group[k].members \cup {src}
      /\ (~new => k = work[s].grp)
      /\ src \in Member /\ src.orig = o /\ tgt.orig = p /\ src.table \in Table \cap N
      /\ src.table = work[s].at /\ tgt.table = work[s].to
  BY <1>1 DEF Joins
<1>6. /\ orders' \in [Orders -> SeatedRow]
      /\ \A q \in Orders :
           /\ orders'[q].at = orders[q].at /\ orders'[q].deleted = orders[q].deleted
           /\ q # o => orders'[q].status = orders[q].status
           /\ q # p => orders'[q].has \subseteq orders[q].has
           /\ q = o => orders'[q].status = "MERGED" /\ orders'[q].has = orders[q].has \ work[s].has
  BY <1>1, MergeOrders
<1>7. \A q \in Orders : (Known(q) <=> Known(q)') /\ (~Known(q)' => orders'[q].at = NoTable)
  BY <1>3, <1>6, RowsAre DEF Known, FloorInv
<1>8. ASSUME NEW h \in DOMAIN group', NEW m \in group'[h].members
      PROVE  \/ h \in DOMAIN group /\ m \in group[h].members
             \/ h = k /\ m = src
             \/ h = k /\ m = tgt /\ new
  BY <1>5, <1>8
<1>9. RowsInv'
  <2>1. \A h \in DOMAIN group' : \A m \in group'[h].members : Known(m.orig)'
    BY <1>3, <1>5, <1>7, <1>8, RowsAre DEF FloorInv
  <2>2. ASSUME NEW h \in DOMAIN group' PROVE group'[h].primary \in OriginalsOf(h)'
    <3>1. CASE h \in DOMAIN group
      BY <1>5, <3>1, RowsAre DEF FloorInv, OriginalsOf
    <3>2. CASE h = k /\ new
      BY <1>5, <3>2 DEF OriginalsOf
    <3>3. QED
      BY <1>5, <3>1, <3>2
  <2>3. table' \in [Table -> TableStatus] /\ floorDoubt' \subseteq Table
    BY <1>2 DEF FloorInv, RowsInv, FloorTypeOK
  <2>4. QED
    BY <1>2, <1>5, <1>6, <1>7, <2>1, <2>2, <2>3, DoneIs DEF RowsInv, FloorTypeOK
<1>10. Touch(N)
  <2>1. \A q \in Orders \ N : /\ orders'[q].status = orders[q].status
                              /\ orders'[q].deleted = orders[q].deleted
                              /\ orders'[q].has \subseteq orders[q].has
                              /\ orders'[q].at = orders[q].at
    BY <1>3, <1>6
  <2>2. \A q \in Orders \cap N : orders'[q].at = orders[q].at
    BY <1>6
  <2>3. ASSUME NEW h \in DOMAIN group
        PROVE  /\ group'[h].primary = group[h].primary
               /\ group[h].primary \notin N => group'[h] = group[h]
               /\ group[h].members \subseteq group'[h].members
               /\ \A m \in group'[h].members \ group[h].members : m.orig \in N /\ m.table \in N
               /\ Active(h)' => Active(h)
    BY <1>3, <1>5 DEF Active
  <2>4. \A h \in DOMAIN group' \ DOMAIN group :
          /\ group'[h].primary \in N
          /\ \A m \in group'[h].members : m.orig \in N /\ m.table \in N
          /\ \A j \in DOMAIN group : j < h
    BY <1>3, <1>5
  <2>5. DOMAIN group \subseteq DOMAIN group' /\ floorDoubt \subseteq floorDoubt' /\ table' = table
    BY <1>2, <1>5
  <2>6. QED
    BY <2>1, <2>2, <2>3, <2>4, <2>5 DEF Touch
<1>11. ASSUME ~(N \cap Table \subseteq floorDoubt)
       PROVE  Local(s, N)
  <2>1. /\ Reads(s)
        /\ \A u \in Waiter \ {s} : work[u].near \cap N = {}
        /\ \A q \in Sure \cap N : ~Released(q)
    BY <1>1, <1>2, <1>11, Undisturbed
  <2>2. /\ orders[o].at = src.table /\ Seated(o) /\ GroupsOf(o) = {}
        /\ orders[p].at = tgt.table /\ Seated(p)
        /\ work[s].grp = FirstLedBy(p) /\ orders[o].has \subseteq work[s].has
    BY <1>1, <1>2, <1>5, <2>1 DEF Reads, AboutOrder
  <2>3. \A h \in DOMAIN group : Active(h) => \A m \in group[h].members : m.orig # o
    BY <2>2 DEF GroupsOf, OriginalsOf
  <2>4. new => LedBy(p) = {}
    <3>1. SUFFICES ASSUME new, LedBy(p) # {} PROVE FALSE
      OBVIOUS
    <3>2. FirstLedBy(p) \in LedBy(p) /\ FirstLedBy(p) = 0
      BY <2>2, <3>1, FirstLed DEF FloorInv
    <3>3. 0 \in DOMAIN group
      BY <3>2 DEF LedBy
    <3>4. QED
      BY <3>3, RowsAre DEF FloorInv
  <2>5. ~new => Active(k) /\ k \in LedBy(p) /\ \A h \in LedBy(p) : k <= h
    <3>1. SUFFICES ASSUME ~new PROVE k \in LedBy(p) /\ \A h \in LedBy(p) : k <= h
      BY DEF LedBy
    <3>2. k = FirstLedBy(p) /\ k # 0
      BY <1>5, <2>2, <3>1
    <3>3. QED
      BY <3>2, FirstLed DEF FloorInv
  <2>6. Active(k)' /\ \A h \in DOMAIN group : Active(h)' <=> Active(h)
    BY <1>5, <2>5 DEF Active
  <2>7. \A q \in Table : SittingAt(q)' = SittingAt(q) \ {o}
    BY <1>3, <1>6 DEF SittingAt, IsOpen
  <2>8. ASSUME src.table \in Sure
        PROVE  /\ SittingAt(src.table) = {o} /\ src.table # tgt.table
               /\ \A h \in DOMAIN group : Active(h) => \A m \in group[h].members :
                    m.table # src.table
    <3>1. /\ SittingAt(src.table) = {o}
          /\ \A h \in DOMAIN group : Active(h) => \A m \in group[h].members :
               m.table = src.table => m.orig = o
      BY <1>3, <2>2, <2>8, SeatedAlone
    <3>2. p \in SittingAt(tgt.table)
      BY <1>3, <2>2 DEF SittingAt, Seated
    <3>3. QED
      BY <1>3, <2>3, <3>1, <3>2
  <2>9. ASSUME tgt.table \in Sure
        PROVE  /\ SittingAt(tgt.table) = {p}
               /\ new => \A h \in DOMAIN group : Active(h) => \A m \in group[h].members :
                           m.table # tgt.table
    <3>1. /\ SittingAt(tgt.table) = {p}
          /\ \A h \in DOMAIN group : Active(h) => \A m \in group[h].members :
               m.table = tgt.table => group[h].primary = p
      BY <1>3, <2>2, <2>9, SeatedAlone
    <3>2. QED
      BY <2>4, <3>1 DEF LedBy
  <2>10. ASSUME NEW h \in DOMAIN group', Active(h)', NEW m \in group'[h].members
         PROVE  \/ h \in DOMAIN group /\ Active(h) /\ m \in group[h].members
                \/ h = k /\ m = src
                \/ h = k /\ m = tgt /\ new
    BY <1>8, <2>6, <2>10
  <2>11. \A q \in Orders \cap N :
           orders'[q].status = "MERGED" /\ orders'[q].at \in Sure' => orders'[q].has = {}
    <3>1. ASSUME NEW q \in Orders, q # o, orders'[q].status = "MERGED", orders'[q].at \in Sure'
          PROVE  orders'[q].has = {}
      <4>1. q # p
        BY <1>6, <2>2, <3>1 DEF Seated, IsOpen
      <4>2. orders[q].status = "MERGED" /\ orders[q].at \in Sure /\ orders'[q].has \subseteq orders[q].has
        BY <1>2, <1>6, <3>1, <4>1 DEF Sure
      <4>3. QED
        BY <4>2 DEF FloorInv, NothingStranded, Sure
    <3>2. orders'[o].has = {}
      BY <1>3, <1>6, <2>2
    <3>3. QED
      BY <3>1, <3>2
  <2>12. ASSUME NEW q \in Sure' \cap N PROVE TableOK(q)' /\ SeatOK(q)'
    <3>1. q \in Sure /\ q \in Table /\ ~Released(q) /\ TableOK(q) /\ SeatOK(q)
      BY <1>2, <2>1, <2>12 DEF Sure, FloorInv, TableInv
    <3>2. SeatOK(q)' /\ table'[q] = table[q]
      BY <1>2, <2>7, <3>1 DEF SeatOK
    <3>3. CASE q = src.table
      <4>1. IsTable(q) => table[q] = "OCCUPIED"
        BY <2>8, <3>1, <3>3 DEF TableOK
      <4>2. InGroup(q)'
        BY <1>5, <2>6, <3>3 DEF InGroup, TablesOf
      <4>3. QED
        BY <3>2, <4>1, <4>2 DEF TableOK, IsTable
    <3>4. CASE q # src.table /\ q = tgt.table
      <4>1. IsTable(q) => table[q] = "OCCUPIED"
        BY <2>9, <3>1, <3>4 DEF TableOK
      <4>2. p \in SittingAt(q)'
        BY <1>3, <2>7, <2>9, <3>1, <3>4
      <4>3. QED
        BY <3>2, <4>1, <4>2 DEF TableOK, IsTable
    <3>5. CASE q # src.table /\ q # tgt.table
      <4>1. SittingAt(q)' = SittingAt(q)
        BY <1>3, <2>2, <2>7, <3>1, <3>5 DEF SittingAt
      <4>2. InGroup(q)' => InGroup(q)
        BY <2>10, <3>5 DEF InGroup, TablesOf
      <4>3. InGroup(q) => InGroup(q)'
        BY <1>5, <2>6 DEF InGroup, TablesOf
      <4>4. QED
        BY <3>1, <3>2, <4>1, <4>2, <4>3, SameTable
    <3>6. QED
      BY <3>3, <3>4, <3>5
  <2>13. ASSUME NEW h \in DOMAIN group', Active(h)', NEW m \in group'[h].members
         PROVE  m \in (IF h \in DOMAIN group THEN group[h].members ELSE {}) \/ MemberOK(h, m)'
    <3>1. CASE h = k /\ m = src
      <4>1. orders'[o].at = src.table
        BY <1>3, <1>6, <2>2
      <4>2. \A u \in Waiter : o \notin work'[u].near
        BY <1>1, <1>2, <1>3, <2>1, DoneIs DEF NoWork
      <4>3. QED
        BY <1>2, <1>5, <3>1, <4>1, <4>2 DEF MemberOK, Sure
    <3>2. CASE h = k /\ m = tgt /\ new
      <4>1. orders'[p].at = tgt.table
        BY <1>3, <1>6, <2>2
      <4>2. QED
        BY <1>2, <1>5, <3>2, <4>1 DEF MemberOK, Sure
    <3>3. QED
      BY <2>10, <2>13, <3>1, <3>2
  <2>14. ASSUME NEW q, q # p PROVE LedBy(q)' = LedBy(q)
    BY <1>5, <2>6, <2>14 DEF LedBy
  <2>15. \A h \in LedBy(p)' : k <= h
    <3>1. k \in Nat
      BY <1>5
    <3>2. QED
      BY <1>5, <2>4, <2>5, <2>6, <3>1 DEF LedBy
  <2>16. ASSUME NEW h \in DOMAIN group', Active(h)', NEW m \in group'[h].members,
                m.table \in Sure' \cap N
         PROVE  SureMember(h, m)'
    <3>1. m.table \in Sure /\ m.table \in Table /\ SittingAt(m.table)' \subseteq SittingAt(m.table)
      BY <1>2, <2>7, <2>16 DEF Sure
    <3>2. ASSUME NEW j \in DOMAIN group', Active(j)', NEW n \in group'[j].members,
                 n.table = m.table
          PROVE  j = h /\ n = m
      <4>1. CASE m.table = src.table
        BY <2>8, <2>10, <2>16, <3>1, <3>2, <4>1
      <4>2. CASE m.table # src.table /\ m.table = tgt.table /\ new
        BY <2>9, <2>10, <2>16, <3>1, <3>2, <4>2
      <4>3. CASE m.table # src.table /\ ~(m.table = tgt.table /\ new)
        <5>1. /\ h \in DOMAIN group /\ Active(h) /\ m \in group[h].members
              /\ j \in DOMAIN group /\ Active(j) /\ n \in group[j].members
          BY <2>10, <2>16, <3>2, <4>3
        <5>2. QED
          BY <3>1, <3>2, <5>1 DEF FloorInv, SureMemberInv, SureMember
      <4>4. QED
        BY <4>1, <4>2, <4>3
    <3>3. CASE h \in DOMAIN group /\ Active(h) /\ m \in group[h].members
      <4>1. SureMember(h, m) /\ m.orig # o /\ m.orig \in Orders /\ group'[h].primary = group[h].primary
        BY <1>5, <2>3, <3>1, <3>3, RowsAre DEF FloorInv, SureMemberInv
      <4>2. /\ SittingAt(m.table)' \subseteq {m.orig}
            /\ m.orig # group[h].primary =>
                 orders'[m.orig].status = "MERGED" /\ ~orders'[m.orig].deleted
            /\ m.orig = group[h].primary =>
                 Seated(m.orig)' \/ \E u \in Waiter : Closing(u)' /\ work'[u].ord = m.orig
        <5>1. /\ orders'[m.orig].status = orders[m.orig].status
              /\ orders'[m.orig].deleted = orders[m.orig].deleted
          BY <1>6, <4>1
        <5>2. \A u \in Waiter \ {s} : work'[u] = work[u]
          BY <1>2, DoneIs
        <5>3. Closing(s) => work[s].ord # m.orig
          BY <1>2
        <5>4. QED
          BY <3>1, <3>3, <5>1, <5>2, <5>3, SameMember
      <4>3. \A j \in LedBy(group[h].primary)' : h <= j
        <5>1. CASE group[h].primary # p
          BY <2>14, <4>1, <5>1 DEF SureMember
        <5>2. CASE group[h].primary = p
          <6>1. h \in LedBy(p) /\ ~new
            BY <2>4, <3>3, <5>2 DEF LedBy
          <6>2. k \in LedBy(p)
            BY <2>5, <6>1
          <6>3. h <= k /\ k <= h /\ h \in Nat /\ k \in Nat
            BY <1>5, <2>5, <4>1, <5>2, <6>1, <6>2 DEF SureMember
          <6>4. h = k
            BY <6>3
          <6>5. QED
            BY <2>15, <4>1, <5>2, <6>4
        <5>3. QED
          BY <5>1, <5>2
      <4>4. m.orig # group[h].primary => LedBy(m.orig)' = {}
        <5>1. ASSUME m.orig # group[h].primary PROVE LedBy(m.orig)' = {}
          <6>1. orders[m.orig].status = "MERGED" /\ LedBy(m.orig) = {}
            BY <4>1, <5>1 DEF SureMember
          <6>2. m.orig # p
            BY <2>2, <6>1 DEF Seated, IsOpen
          <6>3. QED
            BY <2>14, <6>1, <6>2
        <5>2. QED
          BY <5>1
      <4>5. QED
        BY <3>2, <4>1, <4>2, <4>3, <4>4 DEF SureMember
    <3>4. CASE h = k /\ m = src
      <4>1. SittingAt(m.table)' \subseteq {o} /\ m.orig = o /\ o # group'[h].primary
        BY <1>3, <1>5, <2>8, <3>1, <3>4
      <4>2. orders'[o].status = "MERGED" /\ ~orders'[o].deleted
        BY <1>3, <1>6, <2>2 DEF Seated
      <4>3. LedBy(o)' = {}
        BY <1>3, <2>2, <2>14, LedIsListed
      <4>4. QED
        BY <1>5, <2>15, <3>2, <3>4, <4>1, <4>2, <4>3 DEF SureMember
    <3>5. CASE h = k /\ m = tgt /\ new
      <4>1. SittingAt(m.table)' \subseteq {p} /\ m.orig = p /\ p = group'[h].primary
        BY <1>5, <2>9, <3>1, <3>5
      <4>2. Seated(p)'
        BY <1>3, <1>6, <2>2 DEF Seated, IsOpen
      <4>3. QED
        BY <1>5, <2>15, <3>2, <3>5, <4>1, <4>2 DEF SureMember
    <3>6. QED
      BY <2>10, <2>16, <3>3, <3>4, <3>5
  <2>17. Doomed(s)'
    BY <1>2, DoneIs
  <2>18. QED
    BY <2>11, <2>12, <2>13, <2>16, <2>17 DEF Local
<1>12. QED
  BY <1>1, <1>2, <1>3, <1>7, <1>9, <1>10, <1>11, DoneIs, OwnStep

\* A request that is served at once: what it changes is near N, which is in doubt.
LEMMA AtOnceStep ==
  ASSUME FloorInv, NEW s \in Waiter, work[s].phase = "idle", work' = work, group' = group,
         NEW N, N \subseteq Table \cup Orders, Touch(N), RowsInv', N \cap Table \subseteq floorDoubt',
         \A u \in Waiter \ {s} : work[u].near \cap N # {} => work[u].near \cap Table \subseteq floorDoubt',
         \A o \in Orders \cap N :
           /\ orders[o].at \in N \cup {NoTable}
           /\ \A g \in LedBy(o) \cup GroupsOf(o) : TablesOf(g) \subseteq N,
         \A o \in Orders : Known(o) <=> Known(o)'
  PROVE  FloorInv'
<1>1. work[s] = NoWork
  BY DEF FloorInv, HoldsInv, Holds
<1>2. Holds(s)'
  BY <1>1 DEF Holds, NoWork, AboutOrder, Closing
<1>3. \A u \in Waiter \ {s} : work[u].near \cap N # {} => Doomed(u)' /\ N \cap Table \subseteq floorDoubt'
  BY DEF Doomed
<1>4. \A g \in DOMAIN group : Active(g) => \A m \in group[g].members : m.orig \in N => m.table \in N
  BY RowsAre DEF FloorInv, GroupsOf, OriginalsOf, TablesOf
<1>5. work[s].near \subseteq N /\ work'[s] = NoWork
  BY <1>1 DEF NoWork
<1>6. Serves(s, N)
  BY <1>3, <1>4, <1>5 DEF Serves
<1>7. QED
  BY <1>2, <1>6, CommitStep DEF Commits

\* createBill changes nothing a table depends on.
LEMMA BillStep ==
  ASSUME FloorInv, NEW s \in Waiter, Bill(s)
  PROVE  FloorInv'
<1>1. PICK o \in Orders : orders' = [orders EXCEPT ![o].billed = TRUE]
  BY DEF Bill
<1>2. /\ work[s].phase = "idle" /\ table' = table /\ group' = group
      /\ work' = work /\ floorDoubt' = floorDoubt
  BY DEF Bill, MayStart
<1>3. /\ orders' \in [Orders -> SeatedRow]
      /\ \A q \in Orders : /\ orders'[q].status = orders[q].status
                           /\ orders'[q].deleted = orders[q].deleted
                           /\ orders'[q].at = orders[q].at /\ orders'[q].has = orders[q].has
  <2>1. orders[o] \in SeatedRow
    BY DEF FloorInv, RowsInv, FloorTypeOK
  <2>2. PICK x : x = [orders[o] EXCEPT !.billed = TRUE]
    OBVIOUS
  <2>3. /\ x \in SeatedRow /\ x.status = orders[o].status /\ x.deleted = orders[o].deleted
        /\ x.at = orders[o].at /\ x.has = orders[o].has
    BY <2>1, <2>2 DEF SeatedRow
  <2>4. orders' = [orders EXCEPT ![o] = x]
    BY <1>1, <2>2
  <2>5. QED
    BY <2>3, <2>4, OrderSet
<1>4. Shrinks
  BY <1>2, ShrinksIf
<1>5. \A q \in Orders : (Known(q) <=> Known(q)') /\ (~Known(q)' => orders'[q].at = NoTable)
  BY <1>3, RowsAre DEF Known, FloorInv
<1>6. RowsInv'
  <2>1. /\ table' \in [Table -> TableStatus] /\ DOMAIN work' = Waiter
        /\ \A u \in Waiter : work'[u] \in Work
        /\ floorDoubt' \subseteq Table
    BY <1>2 DEF FloorInv, RowsInv, FloorTypeOK
  <2>2. QED
    BY <1>3, <1>4, <1>5, <2>1, RowsKept
<1>7. Touch({})
  BY <1>2, <1>3 DEF Touch, Active
<1>8. QED
  BY <1>2, <1>5, <1>6, <1>7, AtOnceStep

\* A status set by hand puts what is near the order in doubt.
LEMMA StatusStep ==
  ASSUME FloorInv, NEW s \in Waiter, SetStatus(s)
  PROVE  FloorInv'
<1>1. PICK o \in Orders, to \in {"OPEN", "COMPLETED", "CANCELLED"} :
        /\ Known(o)
        /\ orders' = [orders EXCEPT ![o].status = to]
        /\ Meet(s, Near(o), Near(o))
  BY DEF SetStatus
<1>2. PICK N : N = Near(o)
  OBVIOUS
<1>3. work[s].phase = "idle" /\ table' = table /\ group' = group /\ work' = work
  BY DEF SetStatus, MayStart
<1>4. /\ floorDoubt \subseteq floorDoubt' /\ floorDoubt' \subseteq Table
      /\ N \cap Table \subseteq floorDoubt'
      /\ \A u \in Waiter \ {s} : work[u].near \cap N # {} => work[u].near \cap Table \subseteq floorDoubt'
  BY <1>1, <1>2, MeetIs
<1>5. /\ N \subseteq Table \cup Orders /\ N \cap Orders = {o}
      /\ orders[o].at \in N \cup {NoTable}
      /\ \A g \in LedBy(o) \cup GroupsOf(o) : TablesOf(g) \subseteq N
  BY <1>2, NearIs
<1>6. /\ orders' \in [Orders -> SeatedRow]
      /\ \A q \in Orders : /\ q # o => orders'[q] = orders[q]
                           /\ q = o => orders'[q].status = to
                           /\ orders'[q].at = orders[q].at
  <2>1. orders[o] \in SeatedRow
    BY DEF FloorInv, RowsInv, FloorTypeOK
  <2>2. PICK x : x = [orders[o] EXCEPT !.status = to]
    OBVIOUS
  <2>3. x \in SeatedRow /\ x.status = to /\ x.at = orders[o].at
    BY <2>1, <2>2 DEF SeatedRow, OrderStatus
  <2>4. orders' = [orders EXCEPT ![o] = x]
    BY <1>1, <2>2
  <2>5. QED
    BY <2>3, <2>4, OrderSet
<1>7. Shrinks
  BY <1>3, ShrinksIf
<1>8. \A q \in Orders : (Known(q) <=> Known(q)') /\ (~Known(q)' => orders'[q].at = NoTable)
  BY <1>1, <1>6, RowsAre DEF Known, FloorInv
<1>9. RowsInv'
  <2>1. /\ table' \in [Table -> TableStatus] /\ DOMAIN work' = Waiter
        /\ \A u \in Waiter : work'[u] \in Work
    BY <1>3 DEF FloorInv, RowsInv, FloorTypeOK
  <2>2. QED
    BY <1>4, <1>6, <1>7, <1>8, <2>1, RowsKept
<1>10. Touch(N)
  BY <1>3, <1>4, <1>5, <1>6, <1>7, ShrinkTouch
<1>11. QED
  BY <1>3, <1>4, <1>5, <1>8, <1>9, <1>10, AtOnceStep

\* A status set by hand puts the table in doubt.
LEMMA TableStep ==
  ASSUME FloorInv, NEW s \in Waiter, SetTable(s)
  PROVE  FloorInv'
<1>1. PICK t \in Table, to \in TableStatus : table' = Mark({t}, to) /\ Meet(s, {t}, {t})
  BY DEF SetTable
<1>2. PICK N : N = {t}
  OBVIOUS
<1>3. work[s].phase = "idle" /\ orders' = orders /\ group' = group /\ work' = work
  BY DEF SetTable, MayStart
<1>4. /\ floorDoubt \subseteq floorDoubt' /\ floorDoubt' \subseteq Table
      /\ N \cap Table \subseteq floorDoubt'
      /\ \A u \in Waiter \ {s} : work[u].near \cap N # {} => work[u].near \cap Table \subseteq floorDoubt'
  BY <1>1, <1>2, MeetIs
<1>5. N \subseteq Table \cup Orders /\ N \cap Orders = {}
  BY <1>2, FloorIdAssumption
<1>6. /\ table' \in [Table -> TableStatus]
      /\ \A q \in Table : q \notin N => table'[q] = table[q]
  <2>1. table' = Mark(N, to)
    BY <1>1, <1>2
  <2>2. QED
    BY <2>1, MarkIs
<1>7. Shrinks
  BY <1>3, ShrinksIf
<1>8. \A q \in Orders : (Known(q) <=> Known(q)') /\ (~Known(q)' => orders'[q].at = NoTable)
  BY <1>3, RowsAre DEF Known, FloorInv
<1>9. RowsInv'
  <2>1. /\ orders' \in [Orders -> SeatedRow] /\ DOMAIN work' = Waiter
        /\ \A u \in Waiter : work'[u] \in Work
    BY <1>3 DEF FloorInv, RowsInv, FloorTypeOK
  <2>2. QED
    BY <1>4, <1>6, <1>7, <1>8, <2>1, RowsKept
<1>10. Touch(N)
  BY <1>3, <1>4, <1>6, <1>7, ShrinkTouch
<1>11. QED
  BY <1>3, <1>4, <1>5, <1>8, <1>9, <1>10, AtOnceStep

-----------------------------------------------------------------------------
(* The specification *)

\* The invariant holds while nobody has come, whether or not all tables exist;
LEMMA EmptyFloor ==
  ASSUME table \in [Table -> {"AVAILABLE", "NONE"}], orders = [o \in Orders |-> NoRow],
         group = <<>>, work = [s \in Waiter |-> NoWork], floorDoubt = {}
  PROVE  FloorInv
<1>1. /\ table \in [Table -> {"AVAILABLE", "NONE"}] /\ orders = [o \in Orders |-> NoRow]
      /\ group = <<>> /\ work = [s \in Waiter |-> NoWork] /\ floorDoubt = {}
  OBVIOUS
<1>2. \A s \in Waiter : work[s] = NoWork
  BY <1>1
<1>3. \A o \in Orders : orders[o].status = "NONE" /\ orders[o].at = NoTable /\ orders[o].has = {}
  BY <1>1 DEF NoRow
<1>4. RowsInv
  <2>1. NoWork \in Work
    BY FloorBoundAssumption DEF NoWork, Work
  <2>2. NoRow \in SeatedRow
    BY DEF NoRow, SeatedRow, OrderStatus
  <2>3. group \in Seq(Group) /\ Len(group) <= MaxGroups /\ DOMAIN group = {}
    BY <1>1, FloorBoundAssumption
  <2>4. table \in [Table -> TableStatus]
    BY <1>1 DEF TableStatus
  <2>5. orders \in [Orders -> SeatedRow]
    BY <1>1, <2>2
  <2>6. DOMAIN work = Waiter /\ \A s \in Waiter : work[s] \in Work
    BY <1>1, <2>1
  <2>7. QED
    BY <1>1, <1>3, <2>3, <2>4, <2>5, <2>6 DEF RowsInv, FloorTypeOK
<1>5. DOMAIN group = {}
  BY <1>1
<1>6. HoldsInv /\ MeetInv /\ ReachInv
  BY <1>2 DEF HoldsInv, Holds, MeetInv, ReachInv, Reach, NoWork, AboutOrder, Closing
<1>7. ReadInv
  BY <1>2 DEF ReadInv, Doomed, NoWork
<1>8. MemberInv /\ SureMemberInv
  BY <1>5 DEF MemberInv, SureMemberInv
<1>9. TableInv
  <2>1. \A t \in Table : SittingAt(t) = {} /\ ~InGroup(t) /\ table[t] # "OCCUPIED"
    BY <1>1, <1>3, <1>5 DEF SittingAt, IsOpen, InGroup
  <2>2. QED
    BY <2>1 DEF TableInv, TableOK, SeatOK, Sure
<1>10. NothingStranded
  BY <1>3 DEF NothingStranded
<1>11. QED
  BY <1>4, <1>6, <1>7, <1>8, <1>9, <1>10 DEF FloorInv

\* at first,
LEMMA FloorStarts == FloorInit => FloorInv
BY EmptyFloor DEF FloorInit

\* while nothing happens,
LEMMA FloorStays == FloorInv /\ UNCHANGED floorVars => FloorInv'
<1> SUFFICES ASSUME FloorInv, UNCHANGED floorVars PROVE FloorInv'
  OBVIOUS
<1>1. table' = table /\ orders' = orders /\ group' = group /\ work' = work /\ floorDoubt' = floorDoubt
  BY DEF floorVars
<1>2. RowsInv' /\ HoldsInv' /\ MeetInv'
  BY <1>1 DEF FloorInv, RowsInv, FloorTypeOK, Known, OriginalsOf, HoldsInv, Holds, Closing,
              TablesOf, MeetInv, Doomed
<1>3. \A q : SittingAt(q)' = SittingAt(q) /\ LedBy(q)' = LedBy(q) /\ GroupsOf(q)' = GroupsOf(q)
  BY <1>1 DEF SittingAt, IsOpen, LedBy, GroupsOf, Active, OriginalsOf
<1>4. ASSUME NEW q PROVE FirstLedBy(q)' = FirstLedBy(q)
  <2>1. LedBy(q)' = LedBy(q)
    BY <1>3
  <2>2. QED
    BY <2>1 DEF FirstLedBy
<1>5. ReachInv'
  <2>1. SUFFICES ASSUME NEW s \in Waiter, NEW M, M = work'[s].near, NEW o \in Orders \cap M
                 PROVE  /\ orders'[o].at \in M \cup floorDoubt' \cup {NoTable}
                        /\ \A g \in LedBy(o)' : TablesOf(g)' \subseteq M \cup floorDoubt'
    BY DEF ReachInv, Reach
  <2>2. /\ orders[o].at \in M \cup floorDoubt \cup {NoTable}
        /\ \A g \in LedBy(o) : TablesOf(g) \subseteq M \cup floorDoubt
    BY <1>1, <2>1 DEF FloorInv, ReachInv, Reach
  <2>3. \A g : TablesOf(g)' = TablesOf(g)
    BY <1>1 DEF TablesOf
  <2>4. QED
    BY <1>1, <1>3, <2>2, <2>3
<1>6. ReadInv'
  BY <1>1, <1>3, <1>4 DEF FloorInv, ReadInv, Reads, Doomed, Sure, Closing, Seated, IsOpen, IsTable,
                          Active, TablesOf, OriginalsOf
<1>7. MemberInv' /\ SureMemberInv'
  BY <1>1, <1>3 DEF FloorInv, MemberInv, MemberOK, SureMemberInv, SureMember, Sure, Seated, IsOpen,
                    Closing, Active
<1>8. TableInv' /\ NothingStranded'
  BY <1>1, <1>3 DEF FloorInv, TableInv, TableOK, SeatOK, IsTable, InGroup, Active, TablesOf, Released,
                    Closing, Sure, NothingStranded
<1>9. QED
  BY <1>2, <1>5, <1>6, <1>7, <1>8 DEF FloorInv

\* and after every step,
LEMMA FloorKeeps == FloorInv /\ [FloorNext]_floorVars => FloorInv'
<1> SUFFICES ASSUME FloorInv, FloorNext PROVE FloorInv'
  BY FloorStays
<1>1. PICK s \in Waiter :
        \/ ReadForCreate(s) \/ Create(s) \/ ReadForMove(s) \/ Move(s)
        \/ ReadForPayAtTable(s) \/ PayAtTable(s) \/ Bill(s) \/ ReadForCancel(s) \/ Cancel(s)
        \/ FindGroup(s) \/ ReleaseTable(s) \/ CompleteGroup(s)
        \/ ReadForDelete(s) \/ Delete(s) \/ SetStatus(s)
        \/ ReadForMerge(s) \/ Merge(s) \/ ReadForSplit(s) \/ Split(s)
        \/ SetTable(s) \/ ReadForDropTable(s) \/ DropTable(s) \/ Abandon(s)
  BY DEF FloorNext
<1>2. CASE ReadForCreate(s) \/ ReadForMove(s) \/ ReadForPayAtTable(s) \/ ReadForCancel(s)
           \/ ReadForDelete(s) \/ ReadForMerge(s) \/ ReadForSplit(s) \/ ReadForDropTable(s)
  BY <1>2, FreshStep, MoveStarts, PayStarts, CancelStarts, DeleteStarts, MergeStarts, SplitStarts,
     DropStarts
<1>3. CASE Create(s) \/ Move(s) \/ PayAtTable(s) \/ Cancel(s) \/ Delete(s)
  BY <1>3, CreateStep, MoveStep, PayStep, CancelStep, DeleteStep
<1>4. CASE FindGroup(s) \/ ReleaseTable(s) \/ CompleteGroup(s) \/ Abandon(s)
  BY <1>4, FindStep, FreeStep, CompleteStep, AbandonStep
<1>5. CASE Merge(s) \/ Split(s) \/ DropTable(s)
  BY <1>5, MergeStep, SplitStep, DropStep
<1>6. CASE Bill(s) \/ SetStatus(s) \/ SetTable(s)
  BY <1>6, BillStep, StatusStep, TableStep
<1>7. QED
  BY <1>1, <1>2, <1>3, <1>4, <1>5, <1>6

\* and it is what the tables, orders and groups should say of each other.
LEMMA FloorShows == FloorInv => FloorIsTrue
<1> SUFFICES ASSUME FloorInv PROVE FloorIsTrue
  OBVIOUS
<1>1. \A t \in Sure : TableOK(t) /\ SeatOK(t)
  BY DEF FloorInv, TableInv
<1>2. OccupiedIffSeated
  <2>1. \A t \in Sure : ~Busy(t) => ~Released(t)
    BY DEF Busy, Released
  <2>2. QED
    BY <1>1, <2>1 DEF OccupiedIffSeated, TableOK, Sure
<1>3. OneOrderPerTable
  <2>1. ASSUME NEW t \in Sure PROVE Cardinality(SittingAt(t)) <= 1
    <3>1. \A o, p \in SittingAt(t) : o = p
      BY <1>1 DEF SeatOK
    <3>2. CASE SittingAt(t) = {}
      BY <3>2, FS_EmptySet
    <3>3. CASE SittingAt(t) # {}
      <4>1. PICK o : SittingAt(t) = {o}
        BY <3>1, <3>3
      <4>2. QED
        BY <4>1, FS_Singleton, SMTT(30)
    <3>4. QED
      BY <3>2, <3>3
  <2>2. QED
    BY <2>1 DEF OneOrderPerTable, Sure
<1>4. QED
  BY <1>2, <1>3 DEF FloorInv, FloorIsTrue

\* In every behaviour of the floor the rows, what the requests at work read of them and
\* what is in doubt fit together.
THEOREM FloorInvariant == FloorSpec => []FloorInv
<1>1. QED
  BY FloorStarts, FloorKeeps, PTL DEF FloorSpec

\* Every table, order, group and request has its type: no number of merges and splits makes
\* a group that is not one.
THEOREM FloorTypeCorrect == FloorSpec => []FloorTypeOK
<1>1. FloorInv => FloorTypeOK
  BY DEF FloorInv, RowsInv
<1>2. QED
  BY <1>1, FloorInvariant, PTL

\* For any number of tables, orders and requests, and whatever the order in which
\* createOrder, changeTable, collectPayment, cancelOrder, deleteOrder, mergeOrders and
\* splitOrders read and commit: a table that is not in doubt is occupied exactly while an
\* order sits there or a group holds it, by one order, and nothing ordered is stranded on an
\* order that was merged.
THEOREM FloorIsTrueAlways == FloorSpec => []FloorIsTrue
<1>1. QED
  BY FloorShows, FloorInvariant, PTL
=============================================================================
