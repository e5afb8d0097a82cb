------------------------------- MODULE Kitchen -------------------------------
(***************************************************************************)
(* Kitchen tickets (KOTs) of one restaurant: what the lines of its orders  *)
(* ask for and what the kitchen has been told.                             *)
(*                                                                         *)
(* controllers/kot.controller.js makes a ticket for what an order's lines  *)
(* ask for beyond the tickets they are already on; creating an order makes *)
(* a first ticket by itself, for most order types in separate statements   *)
(* after the order is committed.  The order handlers change the lines      *)
(* meanwhile, and deleting a line deletes its entries on every ticket.     *)
(*                                                                         *)
(* Ticket numbers are max + 1 under a unique constraint: of two tickets    *)
(* that drew the same number only one is inserted.                         *)
(***************************************************************************)
EXTENDS Integers, Sequences, SequencesExt

CONSTANTS
  Tab,        \* order ids
  Dish,       \* menu items
  Note,       \* the notes a line may carry
  Clerk,      \* concurrent HTTP requests
  NoTab,      \* the order of an idle session
  KitchenOps, \* the operations clients issue in this instance
  MaxQty,     \* bound on a line's quantity
  MaxRows,    \* bound on the OrderItem rows ever inserted
  MaxTickets, \* bound on the tickets
  MaxEdits    \* bound on the quantity changes, removals and replacements

AllKitchenOps == {"create", "ticket", "add", "setQty", "remove", "replace", "pay",
                  "cancelTicket", "cancelAll", "status"}

ASSUME TabAssumption          == NoTab \notin Tab
ASSUME KitchenOpsAssumption   == KitchenOps \subseteq AllKitchenOps
ASSUME MenuAssumption         == IsFiniteSet(Dish) /\ IsFiniteSet(Note)
ASSUME KitchenBoundAssumption == /\ MaxQty \in Nat \ {0} /\ MaxRows \in Nat \ {0}
                                 /\ MaxTickets \in Nat   /\ MaxEdits \in Nat

VARIABLES
  tab,     \* Order rows: status and whether a bill exists
  rows,    \* OrderItem rows; a deleted one keeps its place, not live
  tickets, \* KOT rows by number, each with its KOTItem quantities by row
  task,    \* the request a session is serving and what it read for it
  edits,   \* edits requested so far
  raced,   \* ghost: orders two of whose ticket makers overlapped
  told,    \* ghost: how much of a row was ever put on tickets
  peak     \* ghost: the largest quantity a row ever had

kitchenVars == <<tab, rows, tickets, task, edits, raced, told, peak>>

-----------------------------------------------------------------------------
(* Rows and values *)

RowId    == 1..MaxRows
TicketNo == 1..MaxTickets

\* PENDING also stands for HOLD, the other status an edit accepts; SERVING for
\* PREPARING, READY and SERVED.
TabRow == [status : {"NONE", "PENDING", "SERVING", "COMPLETED", "CANCELLED"},
           billed : BOOLEAN]

\* carried: ghost, an updateOrder has written the row's sent quantity
Row == [ord : Tab, dish : Dish, note : Note, qty : 1..MaxQty,
        sent : 0..MaxQty, live : BOOLEAN, carried : BOOLEAN]

\* NEW also stands for ACCEPTED, PREPARING and READY: nothing tells them apart.
Ticket == [ord : Tab, status : {"NEW", "SERVED"}, cancelled : BOOLEAN,
           items : [RowId -> 0..MaxQty]]

Nothing == [r \in RowId |-> 0]

\* The lines a client asks for, by dish and note.
Wanted == [Dish \X Note -> 0..MaxQty]

\* want: quantities by row as read; take: those to put on the ticket; base: what
\* was sent of them; no: the ticket number drawn; seen: tickets read
NoTask == [op |-> "none", phase |-> "idle", ord |-> NoTab, row |-> 0, qty |-> 0,
           want |-> Nothing, take |-> Nothing, base |-> Nothing, no |-> 0,
           seen |-> {}]

Task == [op : AllKitchenOps \cup {"none"},
         phase : {"idle", "checked", "opened", "read", "pending", "drawn",
                  "made", "listed"},
         ord : Tab \cup {NoTab}, row : RowId \cup {0}, qty : 0..MaxQty,
         want : [RowId -> 0..MaxQty],
         take : [RowId -> 0..MaxQty], base : [RowId -> Nat],
         no : TicketNo \cup {0}, seen : SUBSET TicketNo]

KitchenTypeOK ==
  /\ tab \in [Tab -> TabRow]
  /\ rows \in Seq(Row) /\ Len(rows) <= MaxRows
  /\ tickets \in Seq(Ticket) /\ Len(tickets) <= MaxTickets
  /\ \A s \in Clerk : task[s] \in Task
  /\ edits \in 0..MaxEdits
  /\ raced \subseteq Tab
  /\ told \in [RowId -> Nat]
  /\ peak \in [RowId -> 0..MaxQty]

KitchenInit ==
  /\ tab = [o \in Tab |-> [status |-> "NONE", billed |-> FALSE]]
  /\ rows = <<>>
  /\ tickets = <<>>
  /\ task = [s \in Clerk |-> NoTask]
  /\ edits = 0
  /\ raced = {}
  /\ told = Nothing
  /\ peak = Nothing

-----------------------------------------------------------------------------
(* Helpers *)

Exists(o) == tab[o].status # "NONE"

LiveRow(r) == r \in DOMAIN rows /\ rows[r].live

RowsOf(o) == {r \in DOMAIN rows : rows[r].live /\ rows[r].ord = o}

TicketsOf(o) == {k \in DOMAIN tickets : tickets[k].ord = o}

\* The requests that are making a ticket for the order.
Makers(o) == {s \in Clerk : task[s].op \in {"create", "ticket"}
                               /\ task[s].ord = o}

Overlap(o) == raced' = IF Makers(o) = {} THEN raced ELSE raced \cup {o}

\* Mutant: a cancelled ticket counts as never sent.
History_Valid(r) ==
  FoldLeft(LAMBDA n, t : n + IF t.cancelled THEN 0 ELSE t.items[r], 0, tickets)

\* The KOTItem rows of an OrderItem, those of cancelled tickets included.
History(r) == FoldLeft(LAMBDA n, t : n + t.items[r], 0, tickets)

\* Mutant: the sent quantity is not capped at the new one.
AtMost_Uncapped(a, b) == a

AtMost(a, b) == IF a <= b THEN a ELSE b

\* The row loses its entries on every ticket (ON DELETE CASCADE).
WithoutRows(ts, gone) ==
  [k \in DOMAIN ts |-> [ts[k] EXCEPT !.items =
     [r \in RowId |-> IF r \in gone THEN 0 ELSE ts[k].items[r]]]]

NewTicket(o, items) ==
  [ord |-> o, status |-> "NEW", cancelled |-> FALSE, items |-> items]

MayServe(s, op) == task[s].phase = "idle" /\ op \in KitchenOps

Ask(s, r) == task' = [task EXCEPT ![s] = r]

Reply(s) == task' = [task EXCEPT ![s] = NoTask]

Edit == edits < MaxEdits /\ edits' = edits + 1

\* Put the quantities on the ticket with the next number.
PutOut(o, items) ==
  /\ tickets' = Append(tickets, NewTicket(o, items))
  /\ told' = [r \in RowId |-> told[r] + items[r]]

-----------------------------------------------------------------------------
(* createOrder and the ticket it makes by itself *)

\* Mutant: the rows start as sent, before any ticket lists them.
NewRows_Sent(o, want) ==
  LET keys == SetToSeq({k \in Dish \X Note : want[k] > 0})
  IN [i \in DOMAIN keys |->
        [ord |-> o, dish |-> keys[i][1], note |-> keys[i][2],
         qty |-> want[keys[i]], sent |-> want[keys[i]], live |-> TRUE,
         carried |-> FALSE]]

\* The rows of a new order, in the order the request lists them.
NewRows(o, want) ==
  LET keys == SetToSeq({k \in Dish \X Note : want[k] > 0})
  IN [i \in DOMAIN keys |->
        [ord |-> o, dish |-> keys[i][1], note |-> keys[i][2],
         qty |-> want[keys[i]], sent |-> 0, live |-> TRUE, carried |-> FALSE]]

Quantities(new, first) ==
  [r \in RowId |-> IF r - first \in DOMAIN new THEN new[r - first].qty ELSE 0]

\* ticket: "inside" for a counter business (in the order's transaction, whose
\* failure leaves nothing), "after" for DINE_IN and TAKEAWAY, "none" for the rest
CreateOrder(s) ==
  /\ MayServe(s, "create")
  /\ \E o \in Tab, want \in Wanted, ticket \in {"inside", "after", "none"} :
       LET new   == NewRows(o, want)
           items == Quantities(new, Len(rows))
       IN
       /\ ~Exists(o)
       /\ new # <<>>
       /\ Len(rows) + Len(new) <= MaxRows
       /\ tab' = [tab EXCEPT ![o].status = "PENDING"]
       /\ peak' = [r \in RowId |-> peak[r] + items[r]]
       /\ \/ /\ ticket = "inside"
             /\ Len(tickets) < MaxTickets
             /\ rows' = rows \o [i \in DOMAIN new |->
                                   [new[i] EXCEPT !.sent = new[i].qty]]
             /\ PutOut(o, items)
             /\ UNCHANGED task
          \/ /\ ticket = "after"
             /\ rows' = rows \o new
             /\ Ask(s, [NoTask EXCEPT !.op = "create", !.phase = "opened",
                          !.ord = o, !.take = items])
             /\ UNCHANGED <<tickets, told>>
          \/ /\ ticket = "none"
             /\ rows' = rows \o new
             /\ UNCHANGED <<tickets, told, task>>
  /\ UNCHANGED <<edits, raced>>

\* generateKOTNumber, for the automatic ticket or for a requested one.
DrawNumber(s) ==
  /\ \/ task[s].op = "create" /\ task[s].phase = "opened"
     \/ task[s].op = "ticket" /\ task[s].phase = "pending"
  /\ Len(tickets) < MaxTickets
  /\ Ask(s, [task[s] EXCEPT !.phase = "drawn", !.no = Len(tickets) + 1])
  /\ UNCHANGED <<tab, rows, tickets, edits, raced, told, peak>>

NumberIsFree(s) == task[s].no = Len(tickets) + 1

\* The automatic ticket is inserted empty, then its items, then sentQuantity.
AutoTicket(s) ==
  /\ task[s].op = "create" /\ task[s].phase = "drawn"
  /\ NumberIsFree(s)
  /\ PutOut(task[s].ord, Nothing)
  /\ Ask(s, [task[s] EXCEPT !.phase = "made"])
  /\ UNCHANGED <<tab, rows, edits, raced, peak>>

\* One createMany: the rows must all still exist.
AutoItems(s) ==
  /\ task[s].op = "create" /\ task[s].phase = "made"
  /\ \A r \in RowId : task[s].take[r] > 0 => LiveRow(r)
  /\ tickets' = [tickets EXCEPT ![task[s].no].items = task[s].take]
  /\ told' = [r \in RowId |-> told[r] + task[s].take[r]]
  /\ Ask(s, [task[s] EXCEPT !.phase = "listed"])
  /\ UNCHANGED <<tab, rows, edits, raced, peak>>

\* One update per row; the last one answers.
AutoSent(s) ==
  /\ task[s].op = "create" /\ task[s].phase = "listed"
  /\ \E r \in RowId :
       /\ task[s].take[r] > 0
       /\ \A q \in 1..(r - 1) : task[s].take[q] = 0
       /\ LiveRow(r)
       /\ rows' = [rows EXCEPT ![r].sent = task[s].take[r]]
       /\ LET left == [task[s].take EXCEPT ![r] = 0]
          IN IF left = Nothing THEN Reply(s)
             ELSE Ask(s, [task[s] EXCEPT !.take = left])
  /\ UNCHANGED <<tab, tickets, edits, raced, told, peak>>

-----------------------------------------------------------------------------
(* createKOT *)

\* The order is only looked up: neither its status nor its bill matters.
AskTicket(s) ==
  /\ MayServe(s, "ticket")
  /\ \E o \in Tab :
       /\ Exists(o)
       /\ Ask(s, [NoTask EXCEPT !.op = "ticket", !.phase = "opened", !.ord = o])
       /\ Overlap(o)
  /\ UNCHANGED <<tab, rows, tickets, edits, told, peak>>

\* findMany takes no lock, whatever its comment says.
ReadRows(s) ==
  /\ task[s].op = "ticket" /\ task[s].phase = "opened"
  /\ Ask(s, [task[s] EXCEPT !.phase = "read", !.want =
       [r \in RowId |-> IF r \in RowsOf(task[s].ord) THEN rows[r].qty ELSE 0]])
  /\ UNCHANGED <<tab, rows, tickets, edits, raced, told, peak>>

\* Mutant: what was sent is taken from the line, not from the tickets.
Pending_BySent(r, qty) ==
  IF r \in DOMAIN rows /\ qty > rows[r].sent THEN qty - rows[r].sent ELSE 0

\* What is still to be sent of a row of which qty are wanted.
Pending(r, qty) == IF qty > History(r) THEN qty - History(r) ELSE 0

ReadHistory(s) ==
  /\ task[s].op = "ticket" /\ task[s].phase = "read"
  /\ LET due == [r \in RowId |-> Pending(r, task[s].want[r])]
     IN IF due = Nothing THEN Reply(s)
        ELSE Ask(s, [task[s] EXCEPT !.phase = "pending", !.take = due,
               !.base = [r \in RowId |->
                           IF due[r] > 0 THEN History(r) ELSE 0]])
  /\ UNCHANGED <<tab, rows, tickets, edits, raced, told, peak>>

\* The commit: the ticket, its items and the absolute sent quantities.
SendTicket(s) ==
  /\ task[s].op = "ticket" /\ task[s].phase = "drawn"
  /\ NumberIsFree(s)
  /\ LET due == {r \in RowId : task[s].take[r] > 0}
     IN /\ \A r \in due : LiveRow(r)
        /\ rows' = [r \in DOMAIN rows |-> IF r \notin due THEN rows[r] ELSE
                      [rows[r] EXCEPT !.sent = task[s].base[r] + task[s].take[r]]]
  /\ PutOut(task[s].ord, task[s].take)
  /\ Reply(s)
  /\ UNCHANGED <<tab, edits, raced, peak>>

\* The number is taken, or a row is gone: the transaction rolls back, or the
\* automatic ticket stops where it is.  Or the process dies.
GiveUp(s) ==
  /\ task[s].phase # "idle"
  /\ Reply(s)
  /\ UNCHANGED <<tab, rows, tickets, edits, raced, told, peak>>

-----------------------------------------------------------------------------
(* Edits of an order's lines *)

\* addOrderItem, updateOrderItem and deleteOrderItem refuse these alone.
Editable(o) == /\ Exists(o)
               /\ tab[o].status # "CANCELLED"
               /\ ~tab[o].billed

AddItem(s) ==
  /\ MayServe(s, "add")
  /\ Len(rows) < MaxRows
  /\ Edit
  /\ \E o \in Tab, d \in Dish, n \in Note, q \in 1..MaxQty :
       /\ Editable(o)
       /\ rows' = Append(rows, [ord |-> o, dish |-> d, note |-> n, qty |-> q,
                                sent |-> 0, live |-> TRUE, carried |-> FALSE])
       /\ peak' = [peak EXCEPT ![Len(rows) + 1] = q]
  /\ UNCHANGED <<tab, tickets, task, raced, told>>

\* base holds the sentQuantity the handler read; it caps it and writes it back.
ReadForSetQty(s) ==
  /\ MayServe(s, "setQty")
  /\ Edit
  /\ \E r \in DOMAIN rows, q \in 1..MaxQty :
       /\ LiveRow(r) /\ Editable(rows[r].ord)
       /\ Ask(s, [NoTask EXCEPT !.op = "setQty", !.phase = "checked",
                    !.ord = rows[r].ord, !.row = r, !.qty = q,
                    !.base = [Nothing EXCEPT ![r] = rows[r].sent]])
  /\ UNCHANGED <<tab, rows, tickets, raced, told, peak>>

SetQty(s) ==
  /\ task[s].op = "setQty"
  /\ LET r == task[s].row
         q == task[s].qty
     IN /\ LiveRow(r)
        /\ rows' = [rows EXCEPT ![r].qty = q,
                                ![r].sent = AtMost(task[s].base[r], q)]
        /\ peak' = [peak EXCEPT ![r] = IF q > peak[r] THEN q ELSE peak[r]]
  /\ Reply(s)
  /\ UNCHANGED <<tab, tickets, edits, raced, told>>

ReadForRemove(s) ==
  /\ MayServe(s, "remove")
  /\ Edit
  /\ \E r \in DOMAIN rows :
       /\ LiveRow(r) /\ Editable(rows[r].ord)
       /\ RowsOf(rows[r].ord) # {r}
       /\ Ask(s, [NoTask EXCEPT !.op = "remove", !.phase = "checked",
                    !.ord = rows[r].ord, !.row = r])
  /\ UNCHANGED <<tab, rows, tickets, raced, told, peak>>

RemoveItem(s) ==
  /\ task[s].op = "remove"
  /\ LiveRow(task[s].row)
  /\ rows' = [rows EXCEPT ![task[s].row].live = FALSE]
  /\ tickets' = WithoutRows(tickets, {task[s].row})
  /\ Reply(s)
  /\ UNCHANGED <<tab, edits, raced, told, peak>>

\* updateOrder: base holds the sent quantities by row as they were read.
ReadForReplace(s) ==
  /\ MayServe(s, "replace")
  /\ Edit
  /\ \E o \in Tab :
       /\ tab[o].status = "PENDING"
       /\ Ask(s, [NoTask EXCEPT !.op = "replace", !.phase = "checked", !.ord = o,
                    !.base = [r \in RowId |->
                      IF r \in RowsOf(o) THEN rows[r].sent ELSE 0]])
  /\ UNCHANGED <<tab, rows, tickets, raced, told, peak>>

\* The sent quantity of a dish, summed over the rows that were read.
SentOf(s, d) ==
  FoldLeft(LAMBDA n, r : n + IF rows[r].dish = d THEN task[s].base[r] ELSE 0,
           0, [r \in DOMAIN rows |-> r])

\* Rows are matched by dish and note, lowest id first; a matched row is changed
\* in place, an unmatched one deleted, a line without a row inserted.  Every
\* line of a dish gets the whole sum of what was sent of the dish, capped.
Replace(s) ==
  /\ task[s].op = "replace"
  /\ \E want \in Wanted :
       LET o == task[s].ord
           Key(r) == <<rows[r].dish, rows[r].note>>
           first == {r \in RowsOf(o) : \A q \in RowsOf(o) :
                                          Key(q) = Key(r) => r <= q}
           kept == {r \in first : want[Key(r)] > 0}
           gone == RowsOf(o) \ kept
           new  == NewRows(o, [k \in Dish \X Note |->
                     IF \E r \in kept : Key(r) = k THEN 0 ELSE want[k]])
           Sent(d, q) == AtMost(SentOf(s, d), q)
           add  == Quantities(new, Len(rows))
       IN
       /\ \E k \in DOMAIN want : want[k] > 0
       /\ Len(rows) + Len(new) <= MaxRows
       /\ rows' = [r \in DOMAIN rows |->
                     CASE r \in kept -> [rows[r] EXCEPT !.qty = want[Key(r)],
                            !.sent = Sent(rows[r].dish, want[Key(r)]),
                            !.carried = TRUE]
                       [] r \in gone -> [rows[r] EXCEPT !.live = FALSE]
                       [] OTHER -> rows[r]]
                  \o [i \in DOMAIN new |-> [new[i] EXCEPT
                        !.sent = Sent(new[i].dish, new[i].qty),
                        !.carried = TRUE]]
       /\ tickets' = WithoutRows(tickets, gone)
       /\ peak' = [r \in RowId |->
                     IF r \in kept /\ want[Key(r)] > peak[r] THEN want[Key(r)]
                     ELSE peak[r] + add[r]]
  /\ Reply(s)
  /\ UNCHANGED <<tab, edits, raced, told>>

-----------------------------------------------------------------------------
(* Payment and the life of a ticket *)

\* collectPayment: the tickets it serves are those it read with the order.
ReadForPay(s) ==
  /\ MayServe(s, "pay")
  /\ \E o \in Tab :
       /\ tab[o].status \in {"PENDING", "SERVING"}
       /\ Ask(s, [NoTask EXCEPT !.op = "pay", !.phase = "checked", !.ord = o,
                    !.seen = TicketsOf(o)])
  /\ UNCHANGED <<tab, rows, tickets, edits, raced, told, peak>>

Pay(s) ==
  /\ task[s].op = "pay"
  /\ \E full \in BOOLEAN :
       tab' = [tab EXCEPT ![task[s].ord] =
                   [status |-> IF full THEN "COMPLETED" ELSE @.status,
                    billed |-> TRUE]]
  /\ tickets' = [k \in DOMAIN tickets |-> IF k \notin task[s].seen THEN tickets[k]
                   ELSE [tickets[k] EXCEPT !.status = "SERVED"]]
  /\ Reply(s)
  /\ UNCHANGED <<rows, edits, raced, told, peak>>

\* updateOrderStatus and cancelOrder, as far as tickets are concerned.
SetOrderStatus(s) ==
  /\ MayServe(s, "status")
  /\ \E o \in Tab, to \in {"SERVING", "COMPLETED", "CANCELLED"} :
       /\ Exists(o)
       /\ tab[o].status \notin {"CANCELLED", to}
       /\ tab' = [tab EXCEPT ![o].status = to]
  /\ UNCHANGED <<rows, tickets, task, edits, raced, told, peak>>

\* updateKOTStatus sets whatever status it is given.
SetTicketStatus(s) ==
  /\ MayServe(s, "status")
  /\ \E k \in DOMAIN tickets, to \in {"NEW", "SERVED"} :
       /\ tickets[k].status # to
       /\ tickets' = [tickets EXCEPT ![k].status = to]
  /\ UNCHANGED <<tab, rows, task, edits, raced, told, peak>>

ReadForCancelTicket(s) ==
  /\ MayServe(s, "cancelTicket")
  /\ \E k \in DOMAIN tickets :
       /\ ~tickets[k].cancelled
       /\ ~tab[tickets[k].ord].billed
       /\ tab[tickets[k].ord].status # "COMPLETED"
       /\ Ask(s, [NoTask EXCEPT !.op = "cancelTicket", !.phase = "checked",
                    !.ord = tickets[k].ord, !.seen = {k}])
  /\ UNCHANGED <<tab, rows, tickets, edits, raced, told, peak>>

\* cancelKOTByOrder looks neither at the bill nor at the order's status.
ReadForCancelAll(s) ==
  /\ MayServe(s, "cancelAll")
  /\ \E o \in Tab :
       LET due == {k \in TicketsOf(o) : ~tickets[k].cancelled} IN
       /\ due # {}
       /\ Ask(s, [NoTask EXCEPT !.op = "cancelAll", !.phase = "checked",
                    !.ord = o, !.seen = due])
  /\ UNCHANGED <<tab, rows, tickets, edits, raced, told, peak>>

\* The tickets keep their items: what they list stays sent.
CancelTickets(s) ==
  /\ task[s].op \in {"cancelTicket", "cancelAll"}
  /\ tickets' = [k \in DOMAIN tickets |-> IF k \notin task[s].seen THEN tickets[k]
                   ELSE [tickets[k] EXCEPT !.cancelled = TRUE]]
  /\ Reply(s)
  /\ UNCHANGED <<tab, rows, edits, raced, told, peak>>

-----------------------------------------------------------------------------
KitchenNext == \E s \in Clerk :
  \/ CreateOrder(s) \/ DrawNumber(s) \/ AutoTicket(s) \/ AutoItems(s)
  \/ AutoSent(s) \/ AskTicket(s) \/ ReadRows(s) \/ ReadHistory(s)
  \/ SendTicket(s) \/ GiveUp(s) \/ AddItem(s) \/ ReadForSetQty(s) \/ SetQty(s)
  \/ ReadForRemove(s) \/ RemoveItem(s) \/ ReadForReplace(s) \/ Replace(s)
  \/ ReadForPay(s) \/ Pay(s) \/ SetOrderStatus(s) \/ SetTicketStatus(s)
  \/ ReadForCancelTicket(s) \/ ReadForCancelAll(s) \/ CancelTickets(s)

KitchenSpec == KitchenInit /\ [][KitchenNext]_kitchenVars

-----------------------------------------------------------------------------
(* Properties *)

\* No unit of a line is sent to the kitchen twice: over all the tickets ever made, a
\* row was told at most as often as it was ever wanted, whatever edits, payments,
\* cancellations, failures and deaths run beside the ticket makers of an order, as
\* long as no two of these overlap.  (The comment of createKOT promises it without
\* that condition; two tickets at the same time do send a unit twice.)
NothingSentTwice ==
  \A r \in DOMAIN rows : rows[r].ord \notin raced => told[r] <= peak[r]

\* sentQuantity is what waiters are shown as sent: it never claims units that
\* are on no ticket.  Stated of what createOrder, createKOT and the line edits
\* write: updateOrder carries over what the lines it replaces were sent, and
\* gives every new line of a dish the whole sum.
SentIsOnTickets ==
  \A r \in DOMAIN rows :
     rows[r].live /\ ~rows[r].carried => rows[r].sent <= History(r)

\* What the tickets and the lines say of each other: no unit was sent twice, and what
\* is shown as sent was sent.
TicketsAreTrue == NothingSentTwice /\ SentIsOnTickets

\* A request for a ticket leaves nothing behind: when createKOT has answered,
\* with a ticket or with "no new items", every line it read is on tickets up to
\* the quantity it read, unless the line was deleted meanwhile.
TicketAnswered(s) == SendTicket(s) \/ (ReadHistory(s) /\ task'[s] = NoTask)

TicketCovers ==
  [][\A s \in Clerk : TicketAnswered(s) =>
       \A r \in DOMAIN rows :
         rows'[r].live => History(r)' >= task[s].want[r]]_kitchenVars
=============================================================================
