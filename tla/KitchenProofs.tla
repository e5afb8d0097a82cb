---------------------------- MODULE KitchenProofs ----------------------------
(*************************************************************************)
(* Theorems of Kitchen: its type, that tickets tell the kitchen nothing  *)
(* twice and no line claims to be sent that is on no ticket, and that a  *)
(* request for a ticket leaves nothing behind; and that floor and        *)
(* kitchen keep their types together.                                    *)
(*                                                                       *)
(* What a row is on tickets with is a sum over the tickets (Sums).  It   *)
(* never shrinks while the row lives, so what a request read of it is a  *)
(* lower bound when it writes.                                           *)
(*************************************************************************)
EXTENDS MCService, FloorProofs, Sums, SequenceTheorems

-----------------------------------------------------------------------------
(* The inductive invariant *)

\* The requests that make tickets, and those that may insert rows.
Making(s) == task[s].op \in {"create", "ticket"}

OfOrder(s) == Making(s) \/ task[s].op = "replace"

\* Rows to come were neither wanted nor told, and are on no ticket.
FreshInv ==
  \A r \in RowId \ DOMAIN rows :
    /\ told[r] = 0 /\ peak[r] = 0
    /\ \A k \in DOMAIN tickets : tickets[k].items[r] = 0

\* What the kitchen was told of a row that lives is on the tickets.
ToldInv ==
  \A r \in DOMAIN rows :
    rows[r].live => told[r] = History(r) /\ rows[r].qty <= peak[r]

\* Rows, and what makes tickets or inserts rows, are of orders that exist.
KnownInv ==
  /\ \A r \in DOMAIN rows : Exists(rows[r].ord)
  /\ \A s \in Clerk : OfOrder(s) => task[s].ord \in Tab /\ Exists(task[s].ord)

\* Two ticket makers of one order have raced.
OneInv ==
  \A s, t \in Clerk :
    /\ s # t /\ Making(s) /\ Making(t) /\ task[s].ord = task[t].ord => task[s].ord \in raced
    /\ s # t /\ task[s].phase = "made" /\ task[t].phase = "made" => task[s].no # task[t].no

\* What a ticket maker takes are rows of its order, and it has not told of them yet:
\* with what it was told already, a row stays within what was ever wanted of it.
TakeOK(s) ==
  Making(s) =>
    \A r \in RowId : task[s].take[r] > 0 =>
      /\ r \in DOMAIN rows /\ rows[r].ord = task[s].ord
      /\ rows[r].live /\ task[s].ord \notin raced /\ task[s].phase # "listed" =>
           told[r] + task[s].take[r] <= peak[r]

\* The ticket of createOrder is empty until it lists everything.
AutoOK(s) ==
  task[s].op = "create" =>
    /\ task[s].phase \in {"opened", "drawn", "made", "listed"}
    /\ task[s].phase \in {"drawn", "made"} => task[s].no # 0
    /\ task[s].phase = "made" => /\ task[s].no \in DOMAIN tickets
                                 /\ tickets[task[s].no].items = Nothing
    /\ task[s].phase = "listed" =>
         \A r \in RowId : task[s].take[r] > 0 /\ rows[r].live => task[s].take[r] <= History(r)

\* createKOT takes what is wanted beyond the tickets it read.
AskedOK(s) ==
  task[s].op = "ticket" =>
    /\ task[s].phase \in {"opened", "read", "pending", "drawn"}
    /\ task[s].phase = "drawn" => task[s].no # 0
    /\ task[s].phase \in {"opened", "read"} => task[s].take = Nothing
    /\ \A r \in RowId :
         /\ task[s].want[r] > 0 => r \in DOMAIN rows /\ rows[r].ord = task[s].ord
         /\ task[s].want[r] <= peak[r]
         /\ task[s].phase \in {"pending", "drawn"} =>
              /\ task[s].take[r] > 0 => task[s].base[r] + task[s].take[r] <= MaxQty
              /\ LiveRow(r) => /\ task[s].take[r] > 0 => task[s].base[r] <= History(r)
                               /\ task[s].want[r] <= History(r) + task[s].take[r]

\* What updateOrderItem read as sent of a line is on tickets.
EditOK(s) ==
  /\ task[s].op \in {"setQty", "remove"} => task[s].row \in DOMAIN rows
  /\ task[s].op = "setQty" =>
       LET r == task[s].row IN
         /\ task[s].qty > 0
         /\ rows[r].live /\ ~rows[r].carried => task[s].base[r] <= History(r)

\* An idle session holds nothing, and one that makes no tickets only checks.
IdleOK(s) ==
  /\ task[s].phase = "idle" => task[s] = NoTask
  /\ ~Making(s) => task[s].phase \in {"idle", "checked"}

TaskInv == \A s \in Clerk : TakeOK(s) /\ AutoOK(s) /\ AskedOK(s) /\ EditOK(s) /\ IdleOK(s)

KitchenInv ==
  /\ KitchenTypeOK /\ DOMAIN task = Clerk
  /\ FreshInv /\ ToldInv /\ KnownInv /\ OneInv /\ TaskInv
  /\ NothingSentTwice /\ SentIsOnTickets

-----------------------------------------------------------------------------
(* What tickets list of a row *)

Listed(ts, r) == FoldLeft(LAMBDA n, t : n + t.items[r], 0, ts)

\* Tickets that list natural numbers of the row.
Listing(ts, r) ==
  /\ DOMAIN ts = 1..Len(ts) /\ Len(ts) \in Nat
  /\ \A k \in DOMAIN ts : ts[k].items[r] \in Nat

\* A history is what the tickets list, added up.
LEMMA ListedIs ==
  ASSUME NEW ts, NEW r, Listing(ts, r)
  PROVE  /\ IsFiniteSet(DOMAIN ts)
         /\ Listed(ts, r) = Total(DOMAIN ts, [k \in DOMAIN ts |-> ts[k].items[r]])
<1> DEFINE D == DOMAIN ts
           w == [k \in D |-> ts[k].items[r]]
           c == [s \in SUBSET D |-> Max(s)]
           f == CHOOSE h : h = [s \in SUBSET D |->
                                  IF s = {} THEN 0 ELSE h[s \ {Max(s)}] + ts[Max(s)].items[r]]
<1>1. Listed(ts, r) = f[D]
  BY DEF Listed, FoldLeft, MapThenFoldSet
<1>2. IsFiniteSet(D) /\ D \subseteq Nat
  <2>1. D = 1..Len(ts) /\ Len(ts) \in Nat
    BY DEF Listing
  <2> QED
    BY <2>1, FS_Interval
<1>3. Picks(c, D)
  <2>1. ASSUME NEW s \in SUBSET D, s # {} PROVE Max(s) \in s
    <3>1. IsFiniteSet(s) /\ s \subseteq Nat
      BY <1>2, FS_Subset
    <3> QED
      BY <2>1, <3>1, LargestExists DEF Max
  <2> QED
    BY <2>1 DEF Picks
<1>4. \A k \in D : w[k] \in Int
  BY DEF Listing
<1>5. ASSUME NEW h
      PROVE  AddsTo(h, D, w, c) <=>
               h = [s \in SUBSET D |->
                      IF s = {} THEN 0 ELSE h[s \ {Max(s)}] + ts[Max(s)].items[r]]
  <2>1. ASSUME NEW s \in SUBSET D, s # {}
        PROVE  c[s] = Max(s) /\ w[c[s]] = ts[Max(s)].items[r]
    BY <1>3, <2>1 DEF Picks
  <2> HIDE DEF D, w, c
  <2> QED
    BY <2>1 DEF AddsTo
<1>6. AddsTo(f, D, w, c)
  <2> HIDE DEF D, w, c
  <2> QED
    BY <1>2, <1>3, <1>4, <1>5, FoldExists
<1>7. f[D] = Total(D, w)
  <2> HIDE DEF D, w, c, f
  <2> QED
    BY <1>2, <1>3, <1>4, <1>6, FoldIs
<1> QED
  BY <1>1, <1>2, <1>7

\* It is a natural number.
LEMMA ListedNat ==
  ASSUME NEW ts, NEW r, Listing(ts, r)
  PROVE  Listed(ts, r) \in Nat
<1> DEFINE w == [k \in DOMAIN ts |-> ts[k].items[r]]
<1>1. \A k \in DOMAIN ts : w[k] \in Nat
  BY DEF Listing
<1>2. IsFiniteSet(DOMAIN ts) /\ Listed(ts, r) = Total(DOMAIN ts, w)
  BY ListedIs
<1> HIDE DEF w
<1> QED
  BY <1>1, <1>2, TotalNat

\* A ticket that is on none of the row lists nothing of it.
LEMMA ListedNone ==
  ASSUME NEW ts, NEW r, Listing(ts, r), \A k \in DOMAIN ts : ts[k].items[r] = 0
  PROVE  Listed(ts, r) = 0
<1> DEFINE w == [k \in DOMAIN ts |-> ts[k].items[r]]
<1>1. \A k \in DOMAIN ts : w[k] = 0
  OBVIOUS
<1>2. IsFiniteSet(DOMAIN ts) /\ Listed(ts, r) = Total(DOMAIN ts, w)
  BY ListedIs
<1> HIDE DEF w
<1> QED
  BY <1>1, <1>2, TotalZero

\* Only the items of the tickets matter.
LEMMA ListedSame ==
  ASSUME NEW ts, NEW us, NEW r, Listing(ts, r), DOMAIN us = DOMAIN ts, Len(us) = Len(ts),
         \A k \in DOMAIN ts : us[k].items[r] = ts[k].items[r]
  PROVE  Listing(us, r) /\ Listed(us, r) = Listed(ts, r)
<1> DEFINE w == [k \in DOMAIN ts |-> ts[k].items[r]]
           v == [k \in DOMAIN us |-> us[k].items[r]]
<1>1. Listing(us, r)
  BY DEF Listing
<1>2. /\ IsFiniteSet(DOMAIN ts) /\ Listed(ts, r) = Total(DOMAIN ts, w)
      /\ Listed(us, r) = Total(DOMAIN ts, v)
  BY <1>1, ListedIs
<1>3. \A k \in DOMAIN ts : w[k] \in Int /\ v[k] = w[k]
  BY DEF Listing
<1> HIDE DEF w, v
<1> QED
  BY <1>1, <1>2, <1>3, TotalSame

\* A ticket that listed nothing of the row adds what it lists now.
LEMMA ListedAt ==
  ASSUME NEW ts, NEW us, NEW r, NEW k, Listing(ts, r), DOMAIN us = DOMAIN ts, Len(us) = Len(ts),
         k \in DOMAIN ts, ts[k].items[r] = 0, us[k].items[r] \in Nat,
         \A j \in DOMAIN ts : j # k => us[j].items[r] = ts[j].items[r]
  PROVE  Listing(us, r) /\ Listed(us, r) = Listed(ts, r) + us[k].items[r]
<1> DEFINE D == DOMAIN ts
           w == [j \in D |-> ts[j].items[r]]
           v == [j \in D |-> us[j].items[r]]
<1>1. Listing(us, r)
  BY DEF Listing
<1>2. IsFiniteSet(D) /\ Listed(ts, r) = Total(D, w) /\ Listed(us, r) = Total(D, v)
  BY <1>1, ListedIs
<1>3. (\A j \in D : w[j] \in Int) /\ (\A j \in D : v[j] \in Int)
  BY <1>1 DEF Listing
<1>4. /\ w[k] = 0 /\ v[k] = us[k].items[r] /\ v[k] \in Nat /\ k \in D
      /\ \A j \in D \ {k} : w[j] \in Int /\ v[j] = w[j]
  BY <1>3
<1> HIDE DEF D, w, v
<1>5. IsFiniteSet(D \ {k})
  BY <1>2, FS_Subset
<1>6. Total(D, w) = w[k] + Total(D \ {k}, w) /\ Total(D, v) = v[k] + Total(D \ {k}, v)
  BY <1>2, <1>3, <1>4, TotalStep
<1>7. Total(D \ {k}, v) = Total(D \ {k}, w) /\ Total(D \ {k}, w) \in Int
  BY <1>4, <1>5, TotalSame, TotalInt
<1> QED
  BY <1>1, <1>2, <1>4, <1>6, <1>7

\* A ticket more adds what it lists.
LEMMA ListedMore ==
  ASSUME NEW ts, NEW us, NEW r, Listing(ts, r),
         DOMAIN us = 1..Len(us), Len(us) = Len(ts) + 1, us[Len(us)].items[r] \in Nat,
         \A j \in DOMAIN ts : us[j].items[r] = ts[j].items[r]
  PROVE  Listing(us, r) /\ Listed(us, r) = Listed(ts, r) + us[Len(us)].items[r]
<1> DEFINE D == DOMAIN ts
           k == Len(us)
           w == [j \in D |-> ts[j].items[r]]
           v == [j \in DOMAIN us |-> us[j].items[r]]
<1>1. /\ k \in Nat /\ DOMAIN us = 1..k /\ D = 1..(k - 1) /\ k \in DOMAIN us
      /\ D = DOMAIN us \ {k}
  BY DEF Listing
<1>2. Listing(us, r)
  <2>1. ASSUME NEW j \in DOMAIN us PROVE us[j].items[r] \in Nat
    <3>1. CASE j = k
      BY <3>1
    <3>2. CASE j # k
      BY <1>1, <3>2 DEF Listing
    <3> QED
      BY <3>1, <3>2
  <2> QED
    BY <1>1, <2>1 DEF Listing
<1>3. /\ IsFiniteSet(D) /\ Listed(ts, r) = Total(D, w)
      /\ IsFiniteSet(DOMAIN us) /\ Listed(us, r) = Total(DOMAIN us, v)
  BY <1>2, ListedIs
<1>4. /\ \A j \in DOMAIN us : v[j] \in Int
      /\ \A j \in D : w[j] \in Int /\ v[j] = w[j]
      /\ v[k] = us[k].items[r] /\ v[k] \in Nat
  BY <1>1, <1>2 DEF Listing
<1> HIDE DEF D, k, w, v
<1>5. Total(DOMAIN us, v) = v[k] + Total(D, v)
  <2>1. Total(DOMAIN us, v) = v[k] + Total(DOMAIN us \ {k}, v)
    BY <1>1, <1>3, <1>4, TotalStep
  <2> QED
    BY <1>1, <2>1
<1>6. Total(D, v) = Total(D, w) /\ Total(D, w) \in Int
  BY <1>3, <1>4, TotalSame, TotalInt
<1> QED
  BY <1>2, <1>3, <1>4, <1>5, <1>6 DEF k

\* The tickets of the restaurant list natural numbers.
LEMMA TicketsList ==
  ASSUME NEW ts \in Seq(Ticket), NEW r \in RowId
  PROVE  Listing(ts, r)
<1>1. Len(ts) \in Nat /\ DOMAIN ts = 1..Len(ts) /\ \A k \in DOMAIN ts : ts[k] \in Ticket
  BY LenProperties, ElementOfSeq
<1>2. \A k \in DOMAIN ts : ts[k].items[r] \in Nat
  BY <1>1, KitchenBoundAssumption DEF Ticket
<1> QED
  BY <1>1, <1>2 DEF Listing

\* Tickets that only got other marks list what they listed.
LEMMA MarkedList ==
  ASSUME NEW ts, NEW us, \A r \in RowId : Listing(ts, r),
         DOMAIN us = DOMAIN ts, Len(us) = Len(ts),
         \A k \in DOMAIN ts : us[k].items = ts[k].items
  PROVE  \A r \in RowId : Listed(us, r) = Listed(ts, r)
<1>1. ASSUME NEW r \in RowId PROVE Listed(us, r) = Listed(ts, r)
  <2>1. Listing(ts, r)
    OBVIOUS
  <2>2. \A k \in DOMAIN ts : us[k].items[r] = ts[k].items[r]
    OBVIOUS
  <2> QED
    BY <2>1, <2>2, ListedSame
<1> QED
  BY <1>1

\* A ticket that was empty lists what it is given.
Fills(ts, us, k) ==
  /\ k \in DOMAIN ts /\ DOMAIN us = DOMAIN ts /\ Len(us) = Len(ts)
  /\ \A r \in RowId : Listing(ts, r) /\ ts[k].items[r] = 0 /\ us[k].items[r] \in Nat
  /\ \A j \in DOMAIN ts : j # k => us[j] = ts[j]

LEMMA FilledList ==
  ASSUME NEW ts, NEW us, NEW k, Fills(ts, us, k)
  PROVE  \A r \in RowId : Listed(us, r) = Listed(ts, r) + us[k].items[r]
<1>1. ASSUME NEW r \in RowId PROVE Listed(us, r) = Listed(ts, r) + us[k].items[r]
  <2>1. Listing(ts, r) /\ ts[k].items[r] = 0 /\ us[k].items[r] \in Nat
    BY DEF Fills
  <2>2. \A j \in DOMAIN ts : j # k => us[j].items[r] = ts[j].items[r]
    BY DEF Fills
  <2> QED
    BY <2>1, <2>2, ListedAt DEF Fills
<1> QED
  BY <1>1

\* A history is a natural number, before and after.
LEMMA HistoryIs ==
  ASSUME NEW r
  PROVE  History(r) = Listed(tickets, r) /\ History(r)' = Listed(tickets', r)
<1>1. History(r) = Listed(tickets, r)
  BY DEF History, Listed, FoldLeft, MapThenFoldSet
<1>2. History(r)' = Listed(tickets', r)
  BY DEF History, Listed, FoldLeft, MapThenFoldSet
<1> QED
  BY <1>1, <1>2

LEMMA HistoryNat ==
  ASSUME KitchenTypeOK, NEW r \in RowId
  PROVE  History(r) \in Nat
BY TicketsList, ListedNat, HistoryIs DEF KitchenTypeOK

\* Rows and tickets, one by one.
LEMMA RowsListed ==
  ASSUME KitchenTypeOK
  PROVE  /\ Len(rows) \in Nat /\ DOMAIN rows = 1..Len(rows) /\ DOMAIN rows \subseteq RowId
         /\ Len(rows) <= MaxRows /\ \A r \in DOMAIN rows : rows[r] \in Row
         /\ Len(tickets) \in Nat /\ DOMAIN tickets = 1..Len(tickets)
         /\ DOMAIN tickets \subseteq TicketNo /\ Len(tickets) <= MaxTickets
         /\ \A k \in DOMAIN tickets : tickets[k] \in Ticket
<1>1. rows \in Seq(Row) /\ Len(rows) <= MaxRows /\ tickets \in Seq(Ticket) /\ Len(tickets) <= MaxTickets
  BY DEF KitchenTypeOK
<1>2. /\ Len(rows) \in Nat /\ DOMAIN rows = 1..Len(rows)
      /\ \A r \in DOMAIN rows : rows[r] \in Row
  BY <1>1, LenProperties, ElementOfSeq
<1>3. /\ Len(tickets) \in Nat /\ DOMAIN tickets = 1..Len(tickets)
      /\ \A k \in DOMAIN tickets : tickets[k] \in Ticket
  BY <1>1, LenProperties, ElementOfSeq
<1> QED
  BY <1>1, <1>2, <1>3, KitchenBoundAssumption DEF RowId, TicketNo

-----------------------------------------------------------------------------
(* What a step of a request may do to what others hold *)

\* What was made stays, rows that live on are on no fewer tickets, and nobody else's
\* rows are told of.
Grows(s) ==
  /\ DOMAIN rows \subseteq DOMAIN rows' /\ DOMAIN rows' \subseteq RowId
  /\ \A r \in DOMAIN rows :
       /\ rows'[r].ord = rows[r].ord
       /\ rows'[r].live => rows[r].live /\ History(r) <= History(r)'
       /\ rows[r].carried => rows'[r].carried
  /\ \A r \in RowId :
       /\ peak[r] <= peak'[r]
       /\ told'[r] # told[r] => r \notin DOMAIN rows \/ (Making(s) /\ task[s].take[r] > 0)
  /\ raced \subseteq raced'
  /\ \A o \in Tab : Exists(o) => Exists(o)'
  /\ DOMAIN tickets \subseteq DOMAIN tickets'
  /\ \A k \in DOMAIN tickets :
       tickets[k].items = Nothing /\ ~(task[s].phase = "made" /\ k = task[s].no) =>
         tickets'[k].items = Nothing
  /\ DOMAIN task' = Clerk /\ \A t \in Clerk \ {s} : task'[t] = task[t]

\* The other requests hold what they held.
LEMMA OthersStay ==
  ASSUME KitchenInv, KitchenTypeOK', NEW s \in Clerk, Grows(s), NEW t \in Clerk \ {s}
  PROVE  TakeOK(t)' /\ AutoOK(t)' /\ AskedOK(t)' /\ EditOK(t)' /\ IdleOK(t)'
<1>1. /\ KitchenTypeOK /\ KnownInv /\ OneInv /\ TakeOK(t) /\ AutoOK(t) /\ AskedOK(t) /\ EditOK(t)
      /\ TakeOK(s)
  BY DEF KitchenInv, TaskInv
<1>2. task[t] \in Task /\ task'[t] = task[t]
  BY <1>1 DEF KitchenTypeOK, Grows
<1>3. \A r \in DOMAIN rows :
        /\ r \in DOMAIN rows' /\ r \in RowId
        /\ rows'[r].ord = rows[r].ord
        /\ rows'[r].live => rows[r].live /\ History(r) <= History(r)'
        /\ rows[r].carried => rows'[r].carried
        /\ History(r) \in Nat /\ History(r)' \in Nat
  <2>1. \A r \in RowId : History(r) \in Nat
    BY <1>1, HistoryNat
  <2>2. \A r \in RowId : History(r)' \in Nat
    BY TicketsList, ListedNat, HistoryIs DEF KitchenTypeOK
  <2> QED
    BY <1>1, <2>1, <2>2, RowsListed DEF Grows
<1>4. \A r \in RowId : peak[r] <= peak'[r] /\ peak[r] \in Nat /\ peak'[r] \in Nat
                       /\ told[r] \in Nat
  BY <1>1, KitchenBoundAssumption DEF KitchenTypeOK, Grows
<1>5. \A r \in RowId : task[t].take[r] \in Nat /\ task[t].want[r] \in Nat /\ task[t].base[r] \in Nat
  BY <1>2, KitchenBoundAssumption DEF Task
<1>6. TakeOK(t)'
  <2> SUFFICES ASSUME Making(t)', NEW r \in RowId, task'[t].take[r] > 0
               PROVE  /\ r \in DOMAIN rows' /\ rows'[r].ord = task'[t].ord
                      /\ rows'[r].live /\ task'[t].ord \notin raced' /\ task'[t].phase # "listed" =>
                           told'[r] + task'[t].take[r] <= peak'[r]
    BY DEF TakeOK
  <2>1. Making(t) /\ task[t].take[r] > 0
    BY <1>2 DEF Making
  <2>2. /\ r \in DOMAIN rows /\ rows[r].ord = task[t].ord
        /\ rows[r].live /\ task[t].ord \notin raced /\ task[t].phase # "listed" =>
             told[r] + task[t].take[r] <= peak[r]
    BY <1>1, <2>1 DEF TakeOK
  <2>3. ASSUME rows'[r].live, task'[t].ord \notin raced', task'[t].phase # "listed"
        PROVE  told'[r] + task'[t].take[r] <= peak'[r]
    <3>1. told[r] + task[t].take[r] <= peak[r]
      BY <1>2, <1>3, <2>2, <2>3 DEF Grows
    <3>2. told'[r] = told[r]
      <4> SUFFICES ASSUME Making(s), task[s].take[r] > 0 PROVE FALSE
        BY <2>2 DEF Grows
      <4>1. rows[r].ord = task[s].ord
        BY <1>1 DEF TakeOK
      <4>2. task[t].ord \in raced
        BY <1>1, <2>1, <2>2, <4>1 DEF OneInv
      <4> QED
        BY <1>2, <2>3, <4>2 DEF Grows
    <3> QED
      BY <1>2, <1>4, <1>5, <3>1, <3>2
  <2> QED
    BY <1>2, <1>3, <2>2, <2>3
<1>7. AutoOK(t)'
  <2> SUFFICES ASSUME task'[t].op = "create"
               PROVE  AutoOK(t)'
    BY DEF AutoOK
  <2>1. /\ task[t].op = "create"
        /\ task[t].phase \in {"opened", "drawn", "made", "listed"}
        /\ task[t].phase \in {"drawn", "made"} => task[t].no # 0
    BY <1>1, <1>2 DEF AutoOK
  <2>2. ASSUME task[t].phase = "made"
        PROVE  task[t].no \in DOMAIN tickets' /\ tickets'[task[t].no].items = Nothing
    <3>1. task[t].no \in DOMAIN tickets /\ tickets[task[t].no].items = Nothing
      BY <1>1, <2>1, <2>2 DEF AutoOK
    <3>2. ~(task[s].phase = "made" /\ task[t].no = task[s].no)
      BY <1>1, <2>2 DEF OneInv
    <3> QED
      BY <3>1, <3>2 DEF Grows
  <2>3. ASSUME task[t].phase = "listed", NEW r \in RowId, task[t].take[r] > 0, rows'[r].live
        PROVE  task[t].take[r] <= History(r)'
    <3>1. r \in DOMAIN rows
      BY <1>1, <2>1, <2>3 DEF TakeOK, Making
    <3>2. task[t].take[r] <= History(r)
      BY <1>1, <1>3, <2>1, <2>3, <3>1 DEF AutoOK
    <3> QED
      BY <1>3, <1>5, <2>3, <3>1, <3>2
  <2> QED
    BY <1>2, <2>1, <2>2, <2>3 DEF AutoOK, Nothing
<1>8. AskedOK(t)'
  <2> SUFFICES ASSUME task'[t].op = "ticket"
               PROVE  AskedOK(t)'
    BY DEF AskedOK
  <2>1. task[t].op = "ticket"
    BY <1>2
  <2>2. ASSUME NEW r \in RowId
        PROVE  /\ task[t].want[r] > 0 => r \in DOMAIN rows' /\ rows'[r].ord = task[t].ord
               /\ task[t].want[r] <= peak'[r]
    BY <1>1, <1>3, <1>4, <1>5, <2>1 DEF AskedOK
  <2>3. ASSUME NEW r \in RowId, task[t].phase \in {"pending", "drawn"}
        PROVE  /\ task[t].take[r] > 0 => task[t].base[r] + task[t].take[r] <= MaxQty
               /\ LiveRow(r)' => /\ task[t].take[r] > 0 => task[t].base[r] <= History(r)'
                                 /\ task[t].want[r] <= History(r)' + task[t].take[r]
    <3>1. task[t].take[r] > 0 => task[t].base[r] + task[t].take[r] <= MaxQty
      BY <1>1, <2>1, <2>3 DEF AskedOK
    <3>2. ASSUME LiveRow(r)'
          PROVE  /\ task[t].take[r] > 0 => task[t].base[r] <= History(r)'
                 /\ task[t].want[r] <= History(r)' + task[t].take[r]
      <4>1. CASE r \in DOMAIN rows
        <5>1. LiveRow(r) /\ History(r) <= History(r)' /\ History(r) \in Nat /\ History(r)' \in Nat
          BY <1>3, <3>2, <4>1 DEF LiveRow
        <5>2. /\ task[t].take[r] > 0 => task[t].base[r] <= History(r)
              /\ task[t].want[r] <= History(r) + task[t].take[r]
          BY <1>1, <2>1, <2>3, <5>1 DEF AskedOK
        <5> QED
          BY <1>5, <5>1, <5>2
      <4>2. CASE r \notin DOMAIN rows
        <5>1. task[t].want[r] = 0
          BY <1>1, <1>5, <2>1, <4>2 DEF AskedOK
        <5>2. task[t].take[r] = 0
          BY <1>1, <1>5, <2>1, <4>2 DEF TakeOK, Making
        <5>3. History(r)' \in Nat
          BY TicketsList, ListedNat, HistoryIs DEF KitchenTypeOK
        <5> QED
          BY <5>1, <5>2, <5>3
      <4> QED
        BY <4>1, <4>2
    <3> QED
      BY <3>1, <3>2
  <2> QED
    BY <1>1, <1>2, <2>1, <2>2, <2>3 DEF AskedOK, Nothing, LiveRow
<1>9. EditOK(t)'
  <2>1. ASSUME task[t].op = "setQty" \/ task[t].op = "remove"
        PROVE  task[t].row \in DOMAIN rows /\ task[t].row \in DOMAIN rows'
    BY <1>1, <1>3, <2>1 DEF EditOK
  <2>2. ASSUME task[t].op = "setQty", NEW r \in DOMAIN rows, r = task[t].row,
               rows'[r].live, ~rows'[r].carried
        PROVE  task[t].base[r] <= History(r)'
    <3>1. rows[r].live /\ ~rows[r].carried
      BY <1>3, <2>2
    <3>2. task[t].base[r] <= History(r)
      BY <1>1, <2>2, <3>1 DEF EditOK
    <3> QED
      BY <1>3, <1>5, <2>2, <3>2
  <2>3. task[t].op = "setQty" => task[t].qty > 0
    BY <1>1 DEF EditOK
  <2> QED
    BY <1>2, <2>1, <2>2, <2>3 DEF EditOK
<1>10. IdleOK(t)'
  BY <1>2 DEF KitchenInv, TaskInv, IdleOK, NoTask, Nothing, Making
<1> QED
  BY <1>6, <1>7, <1>8, <1>9, <1>10

\* What the requests hold fits, all but one of which hold what they held: that one is
\* of an order that exists, and shares it with no maker of tickets it has not raced.
Fits(s) ==
  /\ TakeOK(s) /\ AutoOK(s) /\ AskedOK(s) /\ EditOK(s) /\ IdleOK(s)
  /\ OfOrder(s) => task[s].ord \in Tab /\ Exists(task[s].ord)

JoinsMakers(s) ==
  /\ Making(s)' => \A t \in Clerk \ {s} :
       Making(t) /\ task[t].ord = task'[s].ord => task'[s].ord \in raced'
  /\ task'[s].phase = "made" => \A t \in Clerk \ {s} :
       task[t].phase = "made" => task[t].no # task'[s].no

LEMMA TasksFit ==
  ASSUME KitchenInv, KitchenTypeOK', NEW s \in Clerk, Grows(s), Fits(s)', JoinsMakers(s)
  PROVE  OneInv' /\ TaskInv' /\ DOMAIN task' = Clerk
         /\ (\A t \in Clerk : OfOrder(t) =>
                                task[t].ord \in Tab /\ Exists(task[t].ord))'
<1>1. DOMAIN task' = Clerk /\ raced \subseteq raced' /\ \A t \in Clerk \ {s} : task'[t] = task[t]
  BY DEF Grows
<1>2. OneInv'
  BY <1>1 DEF KitchenInv, OneInv, JoinsMakers, Making
<1>3. TaskInv'
  <2>1. \A t \in Clerk \ {s} : TakeOK(t)' /\ AutoOK(t)' /\ AskedOK(t)' /\ EditOK(t)' /\ IdleOK(t)'
    BY OthersStay
  <2>2. TakeOK(s)' /\ AutoOK(s)' /\ AskedOK(s)' /\ EditOK(s)' /\ IdleOK(s)'
    BY DEF Fits
  <2> QED
    BY <2>1, <2>2 DEF TaskInv
<1>4. ASSUME NEW t \in Clerk, OfOrder(t)'
      PROVE  (task[t].ord \in Tab /\ Exists(task[t].ord))'
  <2>1. CASE t = s
    BY <1>4, <2>1 DEF Fits
  <2>2. CASE t # s
    <3>1. task[t].ord \in Tab /\ Exists(task[t].ord) /\ task'[t] = task[t]
      BY <1>1, <1>4, <2>2 DEF KitchenInv, KnownInv, Making, OfOrder
    <3> QED
      BY <3>1 DEF Grows, Exists
  <2> QED
    BY <2>1, <2>2
<1> QED
  BY <1>1, <1>2, <1>3, <1>4

\* Nothing fits a session that is idle.
LEMMA IdleFits ==
  ASSUME NEW s \in Clerk, task'[s] = NoTask
  PROVE  Fits(s)' /\ JoinsMakers(s)
<1>1. task'[s].op = "none" /\ task'[s].phase = "idle"
  BY DEF NoTask
<1> QED
  BY <1>1 DEF Fits, JoinsMakers, Making, OfOrder, TakeOK, AutoOK, AskedOK, EditOK, IdleOK, NoTask, Nothing

\* A step that neither lists a row nor changes one.
Quiet(s) ==
  /\ UNCHANGED <<rows, told, peak>>
  /\ \A r \in RowId : History(r)' = History(r)
  /\ DOMAIN tickets \subseteq DOMAIN tickets'
  /\ \A k \in DOMAIN tickets' :
       tickets'[k].items = IF k \in DOMAIN tickets THEN tickets[k].items ELSE Nothing
  /\ raced \subseteq raced'
  /\ \A o \in Tab : Exists(o) => Exists(o)'
  /\ DOMAIN task' = Clerk /\ \A t \in Clerk \ {s} : task'[t] = task[t]

LEMMA QuietStep ==
  ASSUME KitchenInv, KitchenTypeOK', NEW s \in Clerk, Quiet(s), Fits(s)', JoinsMakers(s)
  PROVE  KitchenInv'
<1>1. /\ KitchenTypeOK /\ FreshInv /\ ToldInv /\ KnownInv /\ NothingSentTwice /\ SentIsOnTickets
      /\ rows' = rows /\ told' = told /\ peak' = peak
  BY DEF KitchenInv, Quiet
<1>2. DOMAIN rows \subseteq RowId /\ \A r \in DOMAIN rows : rows[r] \in Row
  BY <1>1, RowsListed
<1>3. \A r \in RowId : History(r)' = History(r) /\ History(r) \in Nat
  BY <1>1, HistoryNat DEF Quiet
<1>4. \A r \in RowId : peak[r] <= peak'[r]
  BY <1>1, KitchenBoundAssumption DEF KitchenTypeOK
<1>5. Grows(s)
  <2>1. \A r \in DOMAIN rows : History(r) <= History(r)'
    BY <1>2, <1>3
  <2> QED
    BY <1>1, <1>2, <1>4, <2>1 DEF Grows, Quiet
<1>6. FreshInv'
  BY <1>1 DEF FreshInv, Quiet, Nothing
<1>7. ToldInv'
  BY <1>1, <1>2, <1>3 DEF ToldInv
<1>8. NothingSentTwice'
  BY <1>1 DEF NothingSentTwice, Quiet
<1>9. SentIsOnTickets'
  BY <1>1, <1>2, <1>3 DEF SentIsOnTickets
<1>10. (\A r \in DOMAIN rows : Exists(rows[r].ord))'
  BY <1>1, <1>2 DEF KnownInv, Quiet, Row, Exists, OfOrder, Making
<1>11. KnownInv'
  BY <1>5, <1>10, TasksFit DEF KnownInv, OfOrder, Making
<1> QED
  BY <1>5, <1>6, <1>7, <1>8, <1>9, <1>11, TasksFit DEF KitchenInv

\* A session may start with nothing, and holds what it asks.
LEMMA NoTaskType ==
  NoTask \in Task /\ Nothing \in [RowId -> 0..MaxQty] /\ Nothing \in [RowId -> Nat]
  /\ \A r \in RowId : Nothing[r] = 0
BY KitchenBoundAssumption DEF NoTask, Task, Nothing, RowId

LEMMA AskSets ==
  ASSUME KitchenInv, NEW s \in Clerk, NEW w, Ask(s, w)
  PROVE  task'[s] = w /\ DOMAIN task' = Clerk /\ \A t \in Clerk \ {s} : task'[t] = task[t]
BY DEF KitchenInv, Ask

LEMMA ReplySets ==
  ASSUME KitchenInv, NEW s \in Clerk, Reply(s)
  PROVE  /\ task'[s] = NoTask /\ DOMAIN task' = Clerk
         /\ \A t \in Clerk \ {s} : task'[t] = task[t]
         /\ \A t \in Clerk : task'[t] \in Task
         /\ Fits(s)' /\ JoinsMakers(s)
<1>1. task'[s] = NoTask /\ DOMAIN task' = Clerk /\ \A t \in Clerk \ {s} : task'[t] = task[t]
  BY DEF KitchenInv, Reply
<1>2. \A t \in Clerk : task'[t] \in Task
  BY <1>1, NoTaskType DEF KitchenInv, KitchenTypeOK
<1>3. Fits(s)' /\ JoinsMakers(s)
  BY <1>1, IdleFits
<1> QED
  BY <1>1, <1>2, <1>3

\* An idle session is served and answered in one step.
LEMMA ServeSets ==
  ASSUME KitchenInv, NEW s \in Clerk, NEW op, MayServe(s, op)
  PROVE  /\ task[s] = NoTask /\ ~Making(s) /\ task[s].phase = "idle"
         /\ task' = task => /\ Fits(s)' /\ JoinsMakers(s) /\ DOMAIN task' = Clerk
                            /\ \A t \in Clerk : task'[t] \in Task
<1>1. task[s] = NoTask /\ task[s].phase = "idle"
  BY DEF MayServe, KitchenInv, TaskInv, IdleOK
<1>2. ~Making(s)
  BY <1>1 DEF NoTask, Making
<1>3. ASSUME task' = task
      PROVE  /\ Fits(s)' /\ JoinsMakers(s) /\ DOMAIN task' = Clerk
             /\ \A t \in Clerk : task'[t] \in Task
  BY <1>1, <1>3, IdleFits DEF KitchenInv, KitchenTypeOK
<1> QED
  BY <1>1, <1>2, <1>3

-----------------------------------------------------------------------------
(* The steps that list no row *)

\* A step that only asks something new of a session.
LEMMA OnlyAsks ==
  ASSUME KitchenInv, NEW s \in Clerk, NEW w \in Task, Ask(s, w),
         UNCHANGED <<tab, rows, tickets, told, peak>>, edits' \in 0..MaxEdits,
         raced \subseteq raced', raced' \subseteq Tab, Fits(s)', JoinsMakers(s)
  PROVE  KitchenInv'
<1>1. task'[s] = w /\ DOMAIN task' = Clerk /\ \A t \in Clerk \ {s} : task'[t] = task[t]
  BY AskSets
<1>2. KitchenTypeOK'
  BY <1>1 DEF KitchenInv, KitchenTypeOK
<1>3. \A r \in RowId : History(r)' = History(r)
  BY HistoryIs
<1>4. Quiet(s)
  BY <1>1, <1>3 DEF Quiet, Exists
<1> QED
  BY <1>2, <1>4, QuietStep

\* A step that changes neither which tickets there are nor what they list.
LEMMA OnlyMarks ==
  ASSUME KitchenInv, NEW s \in Clerk, UNCHANGED <<rows, edits, raced, told, peak>>,
         tickets' \in Seq(Ticket), DOMAIN tickets' = DOMAIN tickets, Len(tickets') = Len(tickets),
         \A k \in DOMAIN tickets : tickets'[k].items = tickets[k].items,
         tab' \in [Tab -> TabRow], \A o \in Tab : Exists(o) => Exists(o)',
         \A t \in Clerk : task'[t] \in Task, DOMAIN task' = Clerk,
         \A t \in Clerk \ {s} : task'[t] = task[t], Fits(s)', JoinsMakers(s)
  PROVE  KitchenInv'
<1>1. KitchenTypeOK'
  BY DEF KitchenInv, KitchenTypeOK
<1>2. ASSUME NEW r \in RowId PROVE History(r)' = History(r)
  <2>1. \A q \in RowId : Listing(tickets, q)
    BY TicketsList DEF KitchenInv, KitchenTypeOK
  <2>2. \A q \in RowId : Listed(tickets', q) = Listed(tickets, q)
    BY <2>1, MarkedList
  <2> QED
    BY <2>2, HistoryIs
<1>3. Quiet(s)
  BY <1>2 DEF Quiet
<1> QED
  BY <1>1, <1>3, QuietStep

\* The steps of createKOT before it commits.
LEMMA AskTicketStep ==
  ASSUME KitchenInv, NEW s \in Clerk, AskTicket(s)
  PROVE  KitchenInv'
<1>1. PICK o \in Tab : /\ Exists(o)
                       /\ Ask(s, [NoTask EXCEPT !.op = "ticket", !.phase = "opened", !.ord = o])
                       /\ Overlap(o)
  BY DEF AskTicket
<1> DEFINE w == [NoTask EXCEPT !.op = "ticket", !.phase = "opened", !.ord = o]
<1>2. /\ w \in Task /\ w.op = "ticket" /\ w.phase = "opened" /\ w.ord = o /\ w.take = Nothing
      /\ w.want = Nothing
  BY NoTaskType DEF Task, NoTask, AllKitchenOps
<1>3. task'[s] = w /\ Ask(s, w)
  BY <1>1, AskSets
<1> HIDE DEF w
<1>4. /\ UNCHANGED <<tab, rows, tickets, edits, told, peak>> /\ edits' \in 0..MaxEdits
      /\ raced \subseteq raced' /\ raced' \subseteq Tab
  BY <1>1 DEF AskTicket, Overlap, KitchenInv, KitchenTypeOK
<1>5. Fits(s)'
  <2>1. \A r \in RowId : peak'[r] >= 0
    BY <1>4, KitchenBoundAssumption DEF KitchenInv, KitchenTypeOK
  <2>2. \A r \in RowId : task'[s].take[r] = 0 /\ task'[s].want[r] = 0
    BY <1>2, <1>3, NoTaskType
  <2>3. TakeOK(s)'
    BY <2>2 DEF TakeOK
  <2>4. AskedOK(s)'
    BY <1>2, <1>3, <2>1, <2>2 DEF AskedOK, Nothing
  <2>5. AutoOK(s)' /\ EditOK(s)' /\ IdleOK(s)' /\ task'[s].ord \in Tab /\ Exists(o)'
    BY <1>1, <1>2, <1>3, <1>4 DEF AutoOK, EditOK, IdleOK, Making, Exists
  <2> QED
    BY <1>2, <1>3, <2>3, <2>4, <2>5 DEF Fits, Exists
<1>6. JoinsMakers(s)
  BY <1>1, <1>2, <1>3 DEF JoinsMakers, Making, Overlap, Makers
<1> QED
  BY <1>2, <1>3, <1>4, <1>5, <1>6, OnlyAsks

LEMMA ReadRowsStep ==
  ASSUME KitchenInv, NEW s \in Clerk, ReadRows(s)
  PROVE  KitchenInv'
<1> DEFINE want == [r \in RowId |-> IF r \in RowsOf(task[s].ord) THEN rows[r].qty ELSE 0]
           w == [task[s] EXCEPT !.phase = "read", !.want = want]
<1>1. /\ task[s].op = "ticket" /\ task[s].phase = "opened" /\ task[s] \in Task /\ Making(s)
      /\ UNCHANGED <<tab, rows, tickets, edits, raced, told, peak>> /\ Ask(s, w)
  BY DEF ReadRows, KitchenInv, KitchenTypeOK, Making
<1>2. \A r \in RowId : peak[r] \in Nat /\ peak'[r] = peak[r]
  BY <1>1, KitchenBoundAssumption DEF KitchenInv, KitchenTypeOK
<1>3. /\ want \in [RowId -> 0..MaxQty]
      /\ \A r \in RowId : /\ want[r] > 0 => r \in DOMAIN rows /\ rows[r].ord = task[s].ord
                          /\ want[r] <= peak[r]
  <2>1. \A r \in RowsOf(task[s].ord) :
          /\ r \in DOMAIN rows /\ rows[r].ord = task[s].ord
          /\ rows[r].qty \in 1..MaxQty /\ rows[r].qty <= peak[r]
    BY RowsListed DEF RowsOf, KitchenInv, ToldInv, Row
  <2> QED
    BY <1>2, <2>1, KitchenBoundAssumption
<1> HIDE DEF want
<1>4. /\ w \in Task /\ w.op = "ticket" /\ w.phase = "read" /\ w.ord = task[s].ord /\ w.want = want
      /\ w.take = task[s].take
  BY <1>1, <1>3 DEF Task
<1>5. task'[s] = w
  BY <1>1, AskSets
<1> HIDE DEF w
<1>6. /\ task[s].take = Nothing /\ task[s].ord \in Tab /\ Exists(task[s].ord)
  BY <1>1 DEF KitchenInv, TaskInv, AskedOK, KnownInv, OfOrder, Making
<1>7. Fits(s)'
  <2>1. \A r \in RowId : task'[s].take[r] = 0
    BY <1>4, <1>5, <1>6, NoTaskType
  <2>2. TakeOK(s)'
    BY <2>1 DEF TakeOK
  <2>3. AskedOK(s)'
    BY <1>1, <1>2, <1>3, <1>4, <1>5, <1>6 DEF AskedOK, Nothing
  <2>4. AutoOK(s)' /\ EditOK(s)' /\ IdleOK(s)' /\ (task[s].ord \in Tab /\ Exists(task[s].ord))'
    BY <1>1, <1>4, <1>5, <1>6 DEF AutoOK, EditOK, IdleOK, Making, Exists
  <2> QED
    BY <2>2, <2>3, <2>4 DEF Fits
<1>8. JoinsMakers(s)
  BY <1>1, <1>4, <1>5 DEF JoinsMakers, Making, KitchenInv, OneInv
<1>9. edits' \in 0..MaxEdits /\ raced \subseteq raced' /\ raced' \subseteq Tab
  BY <1>1 DEF KitchenInv, KitchenTypeOK
<1> QED
  BY <1>1, <1>4, <1>7, <1>8, <1>9, OnlyAsks

\* What is pending of a row, with what it is on tickets with, is what was read.
LEMMA PendingIs ==
  ASSUME KitchenTypeOK, NEW r \in RowId, NEW q \in 0..MaxQty
  PROVE  /\ Pending(r, q) \in 0..MaxQty /\ History(r) \in Nat
         /\ q <= History(r) + Pending(r, q)
         /\ Pending(r, q) > 0 => History(r) + Pending(r, q) = q
<1>1. History(r) \in Nat
  BY HistoryNat
<1> QED
  BY <1>1, KitchenBoundAssumption DEF Pending

LEMMA ReadHistoryStep ==
  ASSUME KitchenInv, NEW s \in Clerk, ReadHistory(s)
  PROVE  KitchenInv'
<1> DEFINE due == [r \in RowId |-> Pending(r, task[s].want[r])]
           base == [r \in RowId |-> IF due[r] > 0 THEN History(r) ELSE 0]
           w == [task[s] EXCEPT !.phase = "pending", !.take = due, !.base = base]
<1>1. /\ task[s].op = "ticket" /\ task[s].phase = "read" /\ task[s] \in Task /\ Making(s)
      /\ UNCHANGED <<tab, rows, tickets, edits, raced, told, peak>>
      /\ KitchenTypeOK
  BY DEF ReadHistory, KitchenInv, KitchenTypeOK, Making
<1>2. Reply(s) \/ Ask(s, w)
  BY DEF ReadHistory
<1>3. edits' \in 0..MaxEdits /\ raced \subseteq raced' /\ raced' \subseteq Tab
  BY <1>1 DEF KitchenInv, KitchenTypeOK
<1>4. CASE Reply(s)
  <2>1. Ask(s, NoTask) /\ Fits(s)' /\ JoinsMakers(s)
    BY <1>4, ReplySets DEF Reply, Ask
  <2> QED
    BY <1>1, <1>3, <2>1, OnlyAsks, NoTaskType
<1>5. CASE Ask(s, w)
  <2>1. \A r \in RowId : peak[r] \in Nat /\ peak'[r] = peak[r] /\ told[r] \in Nat
    BY <1>1, KitchenBoundAssumption DEF KitchenTypeOK
  <2>2. ASSUME NEW r \in RowId
        PROVE  /\ task[s].want[r] \in 0..MaxQty /\ due[r] \in 0..MaxQty /\ History(r) \in Nat
               /\ base[r] \in Nat
               /\ task[s].want[r] <= History(r) + due[r]
               /\ due[r] > 0 => base[r] = History(r) /\ base[r] + due[r] = task[s].want[r]
               /\ task[s].want[r] > 0 => r \in DOMAIN rows /\ rows[r].ord = task[s].ord
               /\ task[s].want[r] <= peak[r]
    <3>1. task[s].want[r] \in 0..MaxQty
      BY <1>1 DEF Task
    <3>2. /\ task[s].want[r] > 0 => r \in DOMAIN rows /\ rows[r].ord = task[s].ord
          /\ task[s].want[r] <= peak[r]
      BY <1>1 DEF KitchenInv, TaskInv, AskedOK
    <3>3. /\ due[r] \in 0..MaxQty /\ History(r) \in Nat
          /\ task[s].want[r] <= History(r) + due[r]
          /\ due[r] > 0 => History(r) + due[r] = task[s].want[r]
      BY <1>1, <3>1, PendingIs
    <3> QED
      BY <3>1, <3>2, <3>3
  <2>3. due \in [RowId -> 0..MaxQty] /\ base \in [RowId -> Nat]
    BY <2>2
  <2> HIDE DEF due, base
  <2>4. /\ w \in Task /\ w.op = "ticket" /\ w.phase = "pending" /\ w.ord = task[s].ord
        /\ w.want = task[s].want /\ w.take = due /\ w.base = base
    BY <1>1, <2>3 DEF Task
  <2>5. task'[s] = w
    BY <1>5, AskSets
  <2> HIDE DEF w
  <2>6. \A r \in RowId : History(r)' = History(r)
    BY <1>1, HistoryIs
  <2>7. Fits(s)'
    <3>1. ASSUME NEW r \in RowId, due[r] > 0
          PROVE  /\ r \in DOMAIN rows /\ rows[r].ord = task[s].ord
                 /\ rows[r].live => told[r] + due[r] <= peak[r]
      <4>1. r \in DOMAIN rows /\ rows[r].ord = task[s].ord /\ History(r) + due[r] <= peak[r]
        BY <2>1, <2>2, <3>1
      <4>2. rows[r].live => told[r] = History(r)
        BY <4>1 DEF KitchenInv, ToldInv
      <4> QED
        BY <4>1, <4>2
    <3>2. TakeOK(s)'
      BY <1>1, <2>4, <2>5, <3>1 DEF TakeOK
    <3>3. ASSUME NEW r \in RowId
          PROVE  /\ task'[s].want[r] > 0 => r \in DOMAIN rows' /\ rows'[r].ord = task'[s].ord
                 /\ task'[s].want[r] <= peak'[r]
                 /\ task'[s].take[r] > 0 => task'[s].base[r] + task'[s].take[r] <= MaxQty
                 /\ task'[s].take[r] > 0 => task'[s].base[r] <= History(r)'
                 /\ task'[s].want[r] <= History(r)' + task'[s].take[r]
      <4>1. due[r] > 0 => base[r] + due[r] <= MaxQty /\ base[r] <= History(r)
        BY <2>2, KitchenBoundAssumption
      <4> QED
        BY <1>1, <2>1, <2>2, <2>4, <2>5, <2>6, <4>1
    <3>4. AskedOK(s)'
      BY <2>4, <2>5, <3>3 DEF AskedOK, Nothing
    <3>5. task[s].ord \in Tab /\ Exists(task[s].ord)
      BY <1>1 DEF KitchenInv, KnownInv, OfOrder, Making
    <3>6. AutoOK(s)' /\ EditOK(s)' /\ IdleOK(s)' /\ (task[s].ord \in Tab /\ Exists(task[s].ord))'
      BY <1>1, <2>4, <2>5, <3>5 DEF AutoOK, EditOK, IdleOK, Making, Exists
    <3> QED
      BY <3>2, <3>4, <3>6 DEF Fits
  <2>8. JoinsMakers(s)
    BY <1>1, <2>4, <2>5 DEF JoinsMakers, Making, KitchenInv, OneInv
  <2> QED
    BY <1>1, <1>3, <1>5, <2>4, <2>7, <2>8, OnlyAsks
<1> QED
  BY <1>2, <1>4, <1>5

\* A number is drawn without a lock.
LEMMA DrawNumberStep ==
  ASSUME KitchenInv, NEW s \in Clerk, DrawNumber(s)
  PROVE  KitchenInv'
<1> DEFINE w == [task[s] EXCEPT !.phase = "drawn", !.no = Len(tickets) + 1]
<1>1. /\ \/ task[s].op = "create" /\ task[s].phase = "opened"
         \/ task[s].op = "ticket" /\ task[s].phase = "pending"
      /\ Len(tickets) < MaxTickets /\ task[s] \in Task /\ Making(s) /\ Ask(s, w)
      /\ UNCHANGED <<tab, rows, tickets, edits, raced, told, peak>> /\ KitchenTypeOK
  BY DEF DrawNumber, KitchenInv, KitchenTypeOK, Making
<1>2. Len(tickets) \in Nat /\ Len(tickets) + 1 \in TicketNo /\ Len(tickets) + 1 # 0
  BY <1>1, RowsListed, KitchenBoundAssumption DEF TicketNo
<1>3. /\ w \in Task /\ w.op = task[s].op /\ w.phase = "drawn" /\ w.ord = task[s].ord
      /\ w.want = task[s].want /\ w.take = task[s].take /\ w.base = task[s].base
      /\ w.no = Len(tickets) + 1
  BY <1>1, <1>2 DEF Task
<1>4. task'[s] = w
  BY <1>1, AskSets
<1> HIDE DEF w
<1>5. \A r \in RowId : History(r)' = History(r)
  BY <1>1, HistoryIs
<1>6. /\ TakeOK(s) /\ AskedOK(s) /\ task[s].ord \in Tab /\ Exists(task[s].ord)
  BY <1>1 DEF KitchenInv, TaskInv, KnownInv, OfOrder, Making
<1>7. TakeOK(s)'
  BY <1>1, <1>3, <1>4, <1>6 DEF TakeOK, Making
<1>8. AskedOK(s)'
  <2>1. CASE task[s].op = "ticket"
    <3>1. task[s].phase = "pending"
      BY <1>1, <2>1
    <3>2. ASSUME NEW r \in RowId
          PROVE  /\ task'[s].want[r] > 0 => r \in DOMAIN rows' /\ rows'[r].ord = task'[s].ord
                 /\ task'[s].want[r] <= peak'[r]
                 /\ task'[s].take[r] > 0 => task'[s].base[r] + task'[s].take[r] <= MaxQty
                 /\ LiveRow(r) => /\ task'[s].take[r] > 0 => task'[s].base[r] <= History(r)'
                                  /\ task'[s].want[r] <= History(r)' + task'[s].take[r]
      BY <1>1, <1>3, <1>4, <1>5, <1>6, <2>1, <3>1 DEF AskedOK
    <3> QED
      BY <1>1, <1>2, <1>3, <1>4, <3>2 DEF AskedOK, LiveRow
  <2>2. CASE task[s].op # "ticket"
    BY <1>3, <1>4, <2>2 DEF AskedOK
  <2> QED
    BY <2>1, <2>2
<1>9. AutoOK(s)' /\ EditOK(s)' /\ IdleOK(s)' /\ (task[s].ord \in Tab /\ Exists(task[s].ord))'
  BY <1>1, <1>2, <1>3, <1>4, <1>6 DEF AutoOK, EditOK, IdleOK, Making, Exists
<1>10. Fits(s)'
  BY <1>7, <1>8, <1>9 DEF Fits
<1>11. JoinsMakers(s)
  BY <1>1, <1>3, <1>4 DEF JoinsMakers, Making, KitchenInv, OneInv
<1>12. edits' \in 0..MaxEdits /\ raced \subseteq raced' /\ raced' \subseteq Tab
  BY <1>1 DEF KitchenInv, KitchenTypeOK
<1> QED
  BY <1>1, <1>3, <1>10, <1>11, <1>12, OnlyAsks

LEMMA GiveUpStep ==
  ASSUME KitchenInv, NEW s \in Clerk, GiveUp(s)
  PROVE  KitchenInv'
<1>1. Ask(s, NoTask) /\ Fits(s)' /\ JoinsMakers(s) /\ UNCHANGED <<tab, rows, tickets, edits, raced, told, peak>>
  BY ReplySets DEF GiveUp, Reply, Ask
<1>2. edits' \in 0..MaxEdits /\ raced \subseteq raced' /\ raced' \subseteq Tab
  BY <1>1 DEF KitchenInv, KitchenTypeOK
<1> QED
  BY <1>1, <1>2, OnlyAsks, NoTaskType

\* What a session that makes no tickets may hold.
LEMMA EditFits ==
  ASSUME KitchenInv, NEW s \in Clerk, NEW w \in Task, task'[s] = w, w.phase = "checked",
         w.op \notin {"create", "ticket"}, EditOK(s)',
         w.op = "replace" => (task[s].ord \in Tab /\ Exists(task[s].ord))'
  PROVE  Fits(s)' /\ JoinsMakers(s)
BY DEF Fits, JoinsMakers, Making, OfOrder, TakeOK, AutoOK, AskedOK, IdleOK

LEMMA ReadForSetQtyStep ==
  ASSUME KitchenInv, NEW s \in Clerk, ReadForSetQty(s)
  PROVE  KitchenInv'
<1>1. PICK r \in DOMAIN rows, q \in 1..MaxQty :
        /\ LiveRow(r)
        /\ Ask(s, [NoTask EXCEPT !.op = "setQty", !.phase = "checked",
                    !.ord = rows[r].ord, !.row = r, !.qty = q,
                    !.base = [Nothing EXCEPT ![r] = rows[r].sent]])
  BY DEF ReadForSetQty
<1> DEFINE w == [NoTask EXCEPT !.op = "setQty", !.phase = "checked",
                    !.ord = rows[r].ord, !.row = r, !.qty = q,
                    !.base = [Nothing EXCEPT ![r] = rows[r].sent]]
<1>2. /\ UNCHANGED <<tab, rows, tickets, raced, told, peak>> /\ edits' \in 0..MaxEdits
      /\ raced \subseteq raced' /\ raced' \subseteq Tab
  BY KitchenBoundAssumption DEF ReadForSetQty, Edit, KitchenInv, KitchenTypeOK
<1>3. r \in RowId /\ rows[r] \in Row /\ q \in 0..MaxQty /\ q > 0
  BY RowsListed, KitchenBoundAssumption DEF KitchenInv
<1>4. rows[r].sent \in Nat /\ rows[r].ord \in Tab
  BY <1>3, KitchenBoundAssumption DEF Row
<1>5. /\ w \in Task /\ w.op = "setQty" /\ w.phase = "checked" /\ w.row = r /\ w.qty = q
      /\ w.base[r] = rows[r].sent
  BY <1>3, <1>4, NoTaskType DEF Task, NoTask, AllKitchenOps
<1>6. task'[s] = w
  BY <1>1, AskSets
<1> HIDE DEF w
<1>7. rows[r].live /\ ~rows[r].carried => rows[r].sent <= History(r)
  BY DEF KitchenInv, SentIsOnTickets
<1>8. EditOK(s)'
  <2>1. History(r)' = History(r)
    BY <1>2, HistoryIs
  <2>2. rows'[r].live /\ ~rows'[r].carried => w.base[r] <= History(r)'
    BY <1>2, <1>5, <1>7, <2>1
  <2> QED
    BY <1>2, <1>3, <1>5, <1>6, <2>2 DEF EditOK
<1>9. Fits(s)' /\ JoinsMakers(s)
  BY <1>5, <1>6, <1>8, EditFits
<1> QED
  BY <1>1, <1>2, <1>5, <1>9, OnlyAsks DEF w

LEMMA ReadForRemoveStep ==
  ASSUME KitchenInv, NEW s \in Clerk, ReadForRemove(s)
  PROVE  KitchenInv'
<1>1. PICK r \in DOMAIN rows :
        Ask(s, [NoTask EXCEPT !.op = "remove", !.phase = "checked",
                    !.ord = rows[r].ord, !.row = r])
  BY DEF ReadForRemove
<1> DEFINE w == [NoTask EXCEPT !.op = "remove", !.phase = "checked", !.ord = rows[r].ord, !.row = r]
<1>2. /\ UNCHANGED <<tab, rows, tickets, raced, told, peak>> /\ edits' \in 0..MaxEdits
      /\ raced \subseteq raced' /\ raced' \subseteq Tab
  BY KitchenBoundAssumption DEF ReadForRemove, Edit, KitchenInv, KitchenTypeOK
<1>3. r \in RowId /\ rows[r] \in Row /\ rows[r].ord \in Tab
  BY RowsListed DEF KitchenInv, Row
<1>4. w \in Task /\ w.op = "remove" /\ w.phase = "checked" /\ w.row = r
  BY <1>3, NoTaskType DEF Task, NoTask, AllKitchenOps
<1>5. task'[s] = w
  BY <1>1, AskSets
<1> HIDE DEF w
<1>6. EditOK(s)'
  BY <1>2, <1>4, <1>5 DEF EditOK
<1>7. Fits(s)' /\ JoinsMakers(s)
  BY <1>4, <1>5, <1>6, EditFits
<1> QED
  BY <1>1, <1>2, <1>4, <1>7, OnlyAsks DEF w

LEMMA ReadForReplaceStep ==
  ASSUME KitchenInv, NEW s \in Clerk, ReadForReplace(s)
  PROVE  KitchenInv'
<1>1. PICK o \in Tab :
        /\ tab[o].status = "PENDING"
        /\ Ask(s, [NoTask EXCEPT !.op = "replace", !.phase = "checked", !.ord = o,
                       !.base = [r \in RowId |-> IF r \in RowsOf(o) THEN rows[r].sent ELSE 0]])
  BY DEF ReadForReplace
<1> DEFINE base == [r \in RowId |-> IF r \in RowsOf(o) THEN rows[r].sent ELSE 0]
           w == [NoTask EXCEPT !.op = "replace", !.phase = "checked", !.ord = o, !.base = base]
<1>2. /\ UNCHANGED <<tab, rows, tickets, raced, told, peak>> /\ edits' \in 0..MaxEdits
      /\ raced \subseteq raced' /\ raced' \subseteq Tab
  BY KitchenBoundAssumption DEF ReadForReplace, Edit, KitchenInv, KitchenTypeOK
<1>3. base \in [RowId -> Nat]
  <2>1. \A r \in RowsOf(o) : rows[r].sent \in Nat
    BY RowsListed, KitchenBoundAssumption DEF RowsOf, Row, KitchenInv
  <2> QED
    BY <2>1
<1> HIDE DEF base
<1>4. w \in Task /\ w.op = "replace" /\ w.phase = "checked" /\ w.ord = o
  BY <1>3, NoTaskType DEF Task, NoTask, AllKitchenOps
<1>5. task'[s] = w
  BY <1>1, AskSets DEF base
<1> HIDE DEF w
<1>6. EditOK(s)' /\ (task[s].ord \in Tab /\ Exists(task[s].ord))'
  BY <1>1, <1>2, <1>4, <1>5 DEF EditOK, Exists
<1>7. Fits(s)' /\ JoinsMakers(s)
  BY <1>4, <1>5, <1>6, EditFits
<1> QED
  BY <1>1, <1>2, <1>4, <1>7, OnlyAsks DEF w, base

LEMMA ReadForPayStep ==
  ASSUME KitchenInv, NEW s \in Clerk, ReadForPay(s)
  PROVE  KitchenInv'
<1>1. PICK o \in Tab :
        Ask(s, [NoTask EXCEPT !.op = "pay", !.phase = "checked", !.ord = o, !.seen = TicketsOf(o)])
  BY DEF ReadForPay
<1> DEFINE w == [NoTask EXCEPT !.op = "pay", !.phase = "checked", !.ord = o, !.seen = TicketsOf(o)]
<1>2. /\ UNCHANGED <<tab, rows, tickets, edits, raced, told, peak>> /\ edits' \in 0..MaxEdits
      /\ raced \subseteq raced' /\ raced' \subseteq Tab
  BY DEF ReadForPay, KitchenInv, KitchenTypeOK
<1>3. TicketsOf(o) \subseteq TicketNo
  BY RowsListed DEF KitchenInv, TicketsOf
<1>4. w \in Task /\ w.op = "pay" /\ w.phase = "checked"
  BY <1>3, NoTaskType DEF Task, NoTask, AllKitchenOps
<1>5. task'[s] = w
  BY <1>1, AskSets
<1> HIDE DEF w
<1>6. Fits(s)' /\ JoinsMakers(s)
  BY <1>4, <1>5, EditFits DEF EditOK
<1> QED
  BY <1>1, <1>2, <1>4, <1>6, OnlyAsks DEF w

LEMMA ReadForCancelTicketStep ==
  ASSUME KitchenInv, NEW s \in Clerk, ReadForCancelTicket(s)
  PROVE  KitchenInv'
<1>1. PICK k \in DOMAIN tickets :
        Ask(s, [NoTask EXCEPT !.op = "cancelTicket", !.phase = "checked",
                    !.ord = tickets[k].ord, !.seen = {k}])
  BY DEF ReadForCancelTicket
<1> DEFINE w == [NoTask EXCEPT !.op = "cancelTicket", !.phase = "checked",
                    !.ord = tickets[k].ord, !.seen = {k}]
<1>2. /\ UNCHANGED <<tab, rows, tickets, edits, raced, told, peak>> /\ edits' \in 0..MaxEdits
      /\ raced \subseteq raced' /\ raced' \subseteq Tab
  BY DEF ReadForCancelTicket, KitchenInv, KitchenTypeOK
<1>3. k \in TicketNo /\ tickets[k].ord \in Tab
  BY RowsListed DEF KitchenInv, Ticket
<1>4. w \in Task /\ w.op = "cancelTicket" /\ w.phase = "checked"
  BY <1>3, NoTaskType DEF Task, NoTask, AllKitchenOps
<1>5. task'[s] = w
  BY <1>1, AskSets
<1> HIDE DEF w
<1>6. Fits(s)' /\ JoinsMakers(s)
  BY <1>4, <1>5, EditFits DEF EditOK
<1> QED
  BY <1>1, <1>2, <1>4, <1>6, OnlyAsks DEF w

LEMMA ReadForCancelAllStep ==
  ASSUME KitchenInv, NEW s \in Clerk, ReadForCancelAll(s)
  PROVE  KitchenInv'
<1>1. PICK o \in Tab :
        LET due == {k \in TicketsOf(o) : ~tickets[k].cancelled} IN
        Ask(s, [NoTask EXCEPT !.op = "cancelAll", !.phase = "checked", !.ord = o, !.seen = due])
  BY DEF ReadForCancelAll
<1> DEFINE due == {k \in TicketsOf(o) : ~tickets[k].cancelled}
           w == [NoTask EXCEPT !.op = "cancelAll", !.phase = "checked", !.ord = o, !.seen = due]
<1>2. /\ UNCHANGED <<tab, rows, tickets, edits, raced, told, peak>> /\ edits' \in 0..MaxEdits
      /\ raced \subseteq raced' /\ raced' \subseteq Tab
  BY DEF ReadForCancelAll, KitchenInv, KitchenTypeOK
<1>3. due \subseteq TicketNo
  BY RowsListed DEF KitchenInv, TicketsOf
<1> HIDE DEF due
<1>4. w \in Task /\ w.op = "cancelAll" /\ w.phase = "checked"
  BY <1>3, NoTaskType DEF Task, NoTask, AllKitchenOps
<1>5. task'[s] = w
  BY <1>1, AskSets DEF due
<1> HIDE DEF w
<1>6. Fits(s)' /\ JoinsMakers(s)
  BY <1>4, <1>5, EditFits DEF EditOK
<1> QED
  BY <1>1, <1>2, <1>4, <1>6, OnlyAsks DEF w, due

\* The marks on tickets: served, cancelled, any status.
LEMMA MarksType ==
  ASSUME KitchenTypeOK, NEW us, DOMAIN us = DOMAIN tickets,
         \A k \in DOMAIN tickets : us[k] \in Ticket, us = [k \in DOMAIN tickets |-> us[k]]
  PROVE  us \in Seq(Ticket) /\ Len(us) = Len(tickets)
<1>1. Len(tickets) \in Nat /\ DOMAIN tickets = 1..Len(tickets)
  BY RowsListed
<1>2. us = [k \in 1..Len(tickets) |-> us[k]] /\ \A k \in 1..Len(tickets) : us[k] \in Ticket
  BY <1>1
<1>3. us \in [1..Len(tickets) -> Ticket]
  BY <1>2
<1> QED
  BY <1>1, <1>3, SeqDef, LenProperties

LEMMA KitchenPayStep ==
  ASSUME KitchenInv, NEW s \in Clerk, Pay(s)
  PROVE  KitchenInv'
<1>1. PICK full \in BOOLEAN :
        tab' = [tab EXCEPT ![task[s].ord] =
                   [status |-> IF full THEN "COMPLETED" ELSE @.status, billed |-> TRUE]]
  BY DEF Pay
<1>2. /\ UNCHANGED <<rows, edits, raced, told, peak>> /\ Reply(s) /\ KitchenTypeOK
      /\ tickets' = [k \in DOMAIN tickets |-> IF k \notin task[s].seen THEN tickets[k]
                       ELSE [tickets[k] EXCEPT !.status = "SERVED"]]
  BY DEF Pay, KitchenInv
<1>3. /\ DOMAIN tickets' = DOMAIN tickets /\ tickets' = [k \in DOMAIN tickets |-> tickets'[k]]
      /\ \A k \in DOMAIN tickets : tickets'[k] \in Ticket /\ tickets'[k].items = tickets[k].items
  BY <1>2, RowsListed DEF Ticket
<1>4. tickets' \in Seq(Ticket) /\ Len(tickets') = Len(tickets)
  BY <1>2, <1>3, MarksType
<1>5. tab' \in [Tab -> TabRow] /\ \A o \in Tab : Exists(o) => Exists(o)'
  BY <1>1, <1>2 DEF KitchenTypeOK, TabRow, Exists
<1> QED
  BY <1>2, <1>3, <1>4, <1>5, ReplySets, OnlyMarks

LEMMA CancelTicketsStep ==
  ASSUME KitchenInv, NEW s \in Clerk, CancelTickets(s)
  PROVE  KitchenInv'
<1>1. /\ UNCHANGED <<tab, rows, edits, raced, told, peak>> /\ Reply(s) /\ KitchenTypeOK
      /\ tickets' = [k \in DOMAIN tickets |-> IF k \notin task[s].seen THEN tickets[k]
                       ELSE [tickets[k] EXCEPT !.cancelled = TRUE]]
  BY DEF CancelTickets, KitchenInv
<1>2. /\ DOMAIN tickets' = DOMAIN tickets /\ tickets' = [k \in DOMAIN tickets |-> tickets'[k]]
      /\ \A k \in DOMAIN tickets : tickets'[k] \in Ticket /\ tickets'[k].items = tickets[k].items
  BY <1>1, RowsListed DEF Ticket
<1>3. tickets' \in Seq(Ticket) /\ Len(tickets') = Len(tickets)
  BY <1>1, <1>2, MarksType
<1>4. tab' \in [Tab -> TabRow] /\ \A o \in Tab : Exists(o) => Exists(o)'
  BY <1>1 DEF KitchenTypeOK, Exists
<1> QED
  BY <1>1, <1>2, <1>3, <1>4, ReplySets, OnlyMarks

LEMMA SetOrderStatusStep ==
  ASSUME KitchenInv, NEW s \in Clerk, SetOrderStatus(s)
  PROVE  KitchenInv'
<1>1. PICK o \in Tab, to \in {"SERVING", "COMPLETED", "CANCELLED"} :
        tab' = [tab EXCEPT ![o].status = to]
  BY DEF SetOrderStatus
<1>2. /\ UNCHANGED <<rows, tickets, task, edits, raced, told, peak>> /\ KitchenTypeOK
      /\ MayServe(s, "status")
  BY DEF SetOrderStatus, KitchenInv
<1>3. tab' \in [Tab -> TabRow] /\ \A u \in Tab : Exists(u) => Exists(u)'
  BY <1>1, <1>2 DEF KitchenTypeOK, TabRow, Exists
<1>4. tickets' \in Seq(Ticket)
  BY <1>2 DEF KitchenTypeOK
<1> QED
  BY <1>2, <1>3, <1>4, ServeSets, OnlyMarks

LEMMA SetTicketStatusStep ==
  ASSUME KitchenInv, NEW s \in Clerk, SetTicketStatus(s)
  PROVE  KitchenInv'
<1>1. PICK k \in DOMAIN tickets, to \in {"NEW", "SERVED"} :
        tickets' = [tickets EXCEPT ![k].status = to]
  BY DEF SetTicketStatus
<1>2. /\ UNCHANGED <<tab, rows, task, edits, raced, told, peak>> /\ KitchenTypeOK
      /\ MayServe(s, "status")
  BY DEF SetTicketStatus, KitchenInv
<1>3. /\ DOMAIN tickets' = DOMAIN tickets /\ tickets' = [j \in DOMAIN tickets |-> tickets'[j]]
      /\ \A j \in DOMAIN tickets : tickets'[j] \in Ticket /\ tickets'[j].items = tickets[j].items
  BY <1>1, <1>2, RowsListed DEF Ticket
<1>4. tickets' \in Seq(Ticket) /\ Len(tickets') = Len(tickets)
  BY <1>2, <1>3, MarksType
<1>5. tab' \in [Tab -> TabRow] /\ \A o \in Tab : Exists(o) => Exists(o)'
  BY <1>2 DEF KitchenTypeOK, Exists
<1> QED
  BY <1>2, <1>3, <1>4, <1>5, ServeSets, OnlyMarks

-----------------------------------------------------------------------------
(* The steps that make tickets *)

\* A ticket more: what it lists is told, and is on tickets from now on.
LEMMA PutsOut ==
  ASSUME KitchenTypeOK, NEW o \in Tab, NEW items \in [RowId -> 0..MaxQty],
         Len(tickets) < MaxTickets, PutOut(o, items)
  PROVE  /\ tickets' \in Seq(Ticket) /\ Len(tickets') = Len(tickets) + 1
         /\ Len(tickets') <= MaxTickets /\ told' \in [RowId -> Nat]
         /\ DOMAIN tickets' = DOMAIN tickets \cup {Len(tickets) + 1}
         /\ DOMAIN tickets = 1..Len(tickets) /\ Len(tickets) \in Nat
         /\ \A k \in DOMAIN tickets : tickets'[k] = tickets[k]
         /\ tickets'[Len(tickets) + 1].items = items
         /\ \A r \in RowId : /\ History(r)' = History(r) + items[r]
                             /\ told'[r] = told[r] + items[r]
<1> DEFINE new == NewTicket(o, items)
<1>1. tickets \in Seq(Ticket) /\ new \in Ticket /\ new.items = items
  BY DEF KitchenTypeOK, NewTicket, Ticket
<1>2. tickets' = Append(tickets, new) /\ told' = [r \in RowId |-> told[r] + items[r]]
  BY DEF PutOut
<1>3. \A r \in RowId : told[r] \in Nat /\ items[r] \in Nat
  BY KitchenBoundAssumption DEF KitchenTypeOK
<1>4. Len(tickets) \in Nat /\ DOMAIN tickets = 1..Len(tickets)
  BY RowsListed
<1> HIDE DEF new
<1>5. /\ tickets' \in Seq(Ticket) /\ Len(tickets') = Len(tickets) + 1
      /\ \A k \in 1..Len(tickets) : tickets'[k] = tickets[k]
      /\ tickets'[Len(tickets) + 1] = new
  BY <1>1, <1>2, AppendProperties
<1>6. DOMAIN tickets' = 1..Len(tickets')
  BY <1>5, LenProperties
<1>7. DOMAIN tickets' = DOMAIN tickets \cup {Len(tickets) + 1}
  BY <1>4, <1>5, <1>6
<1>8. ASSUME NEW r \in RowId PROVE History(r)' = History(r) + items[r]
  <2>1. Listing(tickets, r)
    BY <1>1, TicketsList
  <2>2. tickets'[Len(tickets')].items[r] = items[r] /\ items[r] \in Nat
    BY <1>1, <1>3, <1>5
  <2>3. \A k \in DOMAIN tickets : tickets'[k].items[r] = tickets[k].items[r]
    BY <1>4, <1>5
  <2>4. Listed(tickets', r) = Listed(tickets, r) + tickets'[Len(tickets')].items[r]
    BY <1>5, <1>6, <2>1, <2>2, <2>3, ListedMore, ZenonT(60)
  <2> QED
    BY <2>2, <2>4, HistoryIs
<1>9. told' \in [RowId -> Nat] /\ \A r \in RowId : told'[r] = told[r] + items[r]
  BY <1>2, <1>3
<1>10. Len(tickets') <= MaxTickets
  BY <1>4, <1>5, KitchenBoundAssumption
<1> QED
  BY <1>1, <1>4, <1>5, <1>7, <1>8, <1>9, <1>10

\* What a step that writes has to show.
LEMMA WriteStep ==
  ASSUME KitchenInv, KitchenTypeOK', NEW s \in Clerk, Grows(s), Fits(s)', JoinsMakers(s),
         FreshInv', ToldInv', NothingSentTwice', SentIsOnTickets',
         (\A r \in DOMAIN rows : Exists(rows[r].ord))'
  PROVE  KitchenInv'
<1>1. /\ OneInv' /\ TaskInv' /\ DOMAIN task' = Clerk
      /\ (\A t \in Clerk : OfOrder(t) => task[t].ord \in Tab /\ Exists(task[t].ord))'
  BY TasksFit
<1> QED
  BY <1>1 DEF KitchenInv, KnownInv, OfOrder, Making

\* The number is still free when it fits a ticket.
LEMMA FreeIs ==
  ASSUME KitchenTypeOK, NEW s \in Clerk, NumberIsFree(s)
  PROVE  task[s].no = Len(tickets) + 1 /\ Len(tickets) < MaxTickets
<1>1. task[s].no \in TicketNo \cup {0} /\ Len(tickets) \in Nat /\ task[s].no = Len(tickets) + 1
  BY RowsListed DEF KitchenTypeOK, Task, NumberIsFree
<1> QED
  BY <1>1, KitchenBoundAssumption DEF TicketNo

LEMMA AutoTicketStep ==
  ASSUME KitchenInv, NEW s \in Clerk, AutoTicket(s)
  PROVE  KitchenInv'
<1> DEFINE w == [task[s] EXCEPT !.phase = "made"]
<1>1. /\ task[s].op = "create" /\ task[s].phase = "drawn" /\ NumberIsFree(s)
      /\ PutOut(task[s].ord, Nothing) /\ Ask(s, w) /\ UNCHANGED <<tab, rows, edits, raced, peak>>
      /\ KitchenTypeOK /\ Making(s)
  BY DEF AutoTicket, KitchenInv, Making
<1>2. /\ task[s] \in Task /\ task[s].ord \in Tab /\ Exists(task[s].ord)
      /\ TakeOK(s)
  BY <1>1 DEF KitchenInv, KitchenTypeOK, KnownInv, TaskInv, OfOrder, Making
<1>3. task[s].no = Len(tickets) + 1 /\ Len(tickets) < MaxTickets
  BY <1>1, FreeIs
<1>4. /\ tickets' \in Seq(Ticket) /\ Len(tickets') <= MaxTickets /\ told' \in [RowId -> Nat]
      /\ DOMAIN tickets' = DOMAIN tickets \cup {Len(tickets) + 1}
      /\ DOMAIN tickets = 1..Len(tickets) /\ Len(tickets) \in Nat
      /\ \A k \in DOMAIN tickets : tickets'[k] = tickets[k]
      /\ tickets'[Len(tickets) + 1].items = Nothing
      /\ \A r \in RowId : /\ History(r)' = History(r) + Nothing[r]
                          /\ told'[r] = told[r] + Nothing[r]
  BY <1>1, <1>2, <1>3, NoTaskType, PutsOut
<1>5. \A r \in RowId : History(r)' = History(r) /\ told'[r] = told[r]
  BY <1>1, <1>4, NoTaskType, HistoryNat DEF KitchenTypeOK
<1>6. told' = told
  BY <1>1, <1>4, <1>5 DEF KitchenTypeOK
<1>7. /\ w \in Task /\ w.op = "create" /\ w.phase = "made" /\ w.ord = task[s].ord
      /\ w.take = task[s].take /\ w.no = Len(tickets) + 1
  BY <1>1, <1>2, <1>3 DEF Task
<1>8. task'[s] = w /\ DOMAIN task' = Clerk /\ \A t \in Clerk \ {s} : task'[t] = task[t]
  BY <1>1, AskSets
<1> HIDE DEF w
<1>9. KitchenTypeOK'
  BY <1>1, <1>4, <1>7, <1>8 DEF KitchenTypeOK
<1>10. Quiet(s)
  <2>1. \A k \in DOMAIN tickets' :
          tickets'[k].items = IF k \in DOMAIN tickets THEN tickets[k].items ELSE Nothing
    BY <1>4
  <2> QED
    BY <1>1, <1>4, <1>5, <1>6, <1>8, <2>1 DEF Quiet, Exists
<1>11. Fits(s)'
  <2>1. TakeOK(s)'
    BY <1>1, <1>2, <1>6, <1>7, <1>8 DEF TakeOK, Making
  <2>2. w.no # 0 /\ w.no \in DOMAIN tickets' /\ tickets'[w.no].items = Nothing
    BY <1>4, <1>7
  <2>3. AutoOK(s)'
    BY <1>7, <1>8, <2>2 DEF AutoOK, Nothing
  <2>4. AskedOK(s)' /\ EditOK(s)' /\ IdleOK(s)' /\ (task[s].ord \in Tab /\ Exists(task[s].ord))'
    BY <1>1, <1>2, <1>7, <1>8 DEF AskedOK, EditOK, IdleOK, Making, Exists
  <2> QED
    BY <2>1, <2>3, <2>4 DEF Fits
<1>12. JoinsMakers(s)
  <2>1. ASSUME NEW t \in Clerk \ {s}, task[t].phase = "made"
        PROVE  task[t].no # task'[s].no
    <3>1. task[t].op = "create"
      BY <2>1 DEF KitchenInv, TaskInv, IdleOK, AskedOK, Making
    <3>2. task[t].no \in DOMAIN tickets
      BY <2>1, <3>1 DEF KitchenInv, TaskInv, AutoOK
    <3> QED
      BY <1>4, <1>7, <1>8, <3>2
  <2> QED
    BY <1>1, <1>7, <1>8, <2>1 DEF JoinsMakers, Making, KitchenInv, OneInv
<1> QED
  BY <1>9, <1>10, <1>11, <1>12, QuietStep

\* What is told of rows that live and are taken by a maker that has not raced was
\* wanted.
LEMMA TakenFits ==
  ASSUME KitchenInv, NEW s \in Clerk, Making(s), task[s].phase # "listed",
         \A r \in RowId : task[s].take[r] > 0 => LiveRow(r)
  PROVE  \A r \in RowId :
           /\ task[s].take[r] \in 0..MaxQty
           /\ task[s].take[r] > 0 => r \in DOMAIN rows /\ rows[r].ord = task[s].ord /\ rows[r].live
           /\ r \in DOMAIN rows /\ rows[r].ord \notin raced => told[r] + task[s].take[r] <= peak[r]
<1> SUFFICES ASSUME NEW r \in RowId
             PROVE  /\ task[s].take[r] \in 0..MaxQty
                    /\ task[s].take[r] > 0 => /\ r \in DOMAIN rows
                                              /\ rows[r].ord = task[s].ord /\ rows[r].live
                    /\ r \in DOMAIN rows /\ rows[r].ord \notin raced =>
                         told[r] + task[s].take[r] <= peak[r]
  OBVIOUS
<1>1. task[s].take[r] \in 0..MaxQty /\ told[r] \in Nat
  BY DEF KitchenInv, KitchenTypeOK, Task
<1>2. task[s].take[r] > 0 =>
        /\ r \in DOMAIN rows /\ rows[r].ord = task[s].ord /\ rows[r].live
        /\ task[s].ord \notin raced => told[r] + task[s].take[r] <= peak[r]
  BY DEF KitchenInv, TaskInv, TakeOK, LiveRow
<1>3. r \in DOMAIN rows /\ rows[r].ord \notin raced => told[r] <= peak[r]
  BY DEF KitchenInv, NothingSentTwice
<1> QED
  BY <1>1, <1>2, <1>3, KitchenBoundAssumption

LEMMA AutoItemsStep ==
  ASSUME KitchenInv, NEW s \in Clerk, AutoItems(s)
  PROVE  KitchenInv'
<1> DEFINE w == [task[s] EXCEPT !.phase = "listed"]
           take == task[s].take
           no == task[s].no
<1>1. /\ task[s].op = "create" /\ task[s].phase = "made" /\ Making(s)
      /\ \A r \in RowId : take[r] > 0 => LiveRow(r)
      /\ tickets' = [tickets EXCEPT ![no].items = take]
      /\ told' = [r \in RowId |-> told[r] + take[r]]
      /\ Ask(s, w) /\ UNCHANGED <<tab, rows, edits, raced, peak>> /\ KitchenTypeOK
  BY DEF AutoItems, KitchenInv, Making
<1>2. /\ task[s] \in Task /\ task[s].ord \in Tab /\ Exists(task[s].ord)
      /\ no \in DOMAIN tickets /\ tickets[no].items = Nothing /\ no # 0
  BY <1>1 DEF KitchenInv, KitchenTypeOK, KnownInv, TaskInv, AutoOK, OfOrder, Making
<1>3. \A r \in RowId :
        /\ take[r] \in 0..MaxQty
        /\ take[r] > 0 => r \in DOMAIN rows /\ rows[r].ord = task[s].ord /\ rows[r].live
        /\ r \in DOMAIN rows /\ rows[r].ord \notin raced => told[r] + take[r] <= peak[r]
  BY <1>1, TakenFits
<1>4. take \in [RowId -> 0..MaxQty]
  BY <1>2 DEF Task
<1>5. /\ w \in Task /\ w.op = "create" /\ w.phase = "listed" /\ w.ord = task[s].ord /\ w.take = take
  BY <1>1, <1>2 DEF Task
<1>6. task'[s] = w /\ DOMAIN task' = Clerk /\ \A t \in Clerk \ {s} : task'[t] = task[t]
  BY <1>1, AskSets
<1> HIDE DEF w
<1>7. /\ DOMAIN tickets' = DOMAIN tickets /\ tickets' = [k \in DOMAIN tickets |-> tickets'[k]]
      /\ \A k \in DOMAIN tickets : tickets'[k] \in Ticket
      /\ \A k \in DOMAIN tickets : k # no => tickets'[k] = tickets[k]
      /\ tickets'[no].items = take
  BY <1>1, <1>2, <1>4, RowsListed DEF Ticket
<1>8. tickets' \in Seq(Ticket) /\ Len(tickets') = Len(tickets)
  BY <1>1, <1>7, MarksType
<1>20. \A r \in RowId : Listed(tickets', r) = Listed(tickets, r) + tickets'[no].items[r]
  <2>1. \A r \in RowId : Listing(tickets, r)
    BY <1>1, TicketsList DEF KitchenTypeOK
  <2>2. \A r \in RowId : tickets[no].items[r] = 0 /\ tickets'[no].items[r] \in Nat
    BY <1>2, <1>3, <1>7, NoTaskType, KitchenBoundAssumption
  <2> HIDE DEF take, no
  <2>3. Fills(tickets, tickets', no)
    BY <1>2, <1>7, <1>8, <2>1, <2>2 DEF Fills
  <2> QED
    BY <2>3, FilledList
<1>9. ASSUME NEW r \in RowId
      PROVE  /\ History(r)' = History(r) + take[r] /\ told'[r] = told[r] + take[r]
             /\ told[r] \in Nat /\ peak[r] \in Nat /\ History(r) \in Nat /\ take[r] \in Nat
  <2>2. take[r] \in Nat /\ told[r] \in Nat /\ peak[r] \in Nat
    BY <1>1, <1>3, KitchenBoundAssumption DEF KitchenTypeOK
  <2>5. History(r)' = History(r) + take[r]
    BY <1>7, <1>20, HistoryIs
  <2> QED
    BY <1>1, <2>2, <2>5, HistoryNat
<1>10. KitchenTypeOK'
  <2>1. told' \in [RowId -> Nat]
    BY <1>1, <1>9
  <2> QED
    BY <1>1, <1>5, <1>6, <1>8, <2>1 DEF KitchenTypeOK
<1>11. DOMAIN rows \subseteq RowId
  BY <1>1, RowsListed
<1>12. Grows(s)
  <2>1. \A r \in DOMAIN rows : History(r) <= History(r)'
    BY <1>9, <1>11
  <2>2. \A r \in RowId : /\ peak[r] <= peak'[r]
                         /\ told'[r] # told[r] => task[s].take[r] > 0
    BY <1>1, <1>9
  <2>3. \A k \in DOMAIN tickets :
          tickets[k].items = Nothing /\ ~(task[s].phase = "made" /\ k = task[s].no) =>
            tickets'[k].items = Nothing
    BY <1>1, <1>7
  <2>4. \A o \in Tab : Exists(o) => Exists(o)'
    BY <1>1 DEF Exists
  <2> HIDE DEF take, no
  <2> QED
    BY <1>1, <1>6, <1>7, <1>11, <2>1, <2>2, <2>3, <2>4 DEF Grows
<1>13. Fits(s)'
  <2>1. TakeOK(s)'
    BY <1>1, <1>3, <1>5, <1>6 DEF TakeOK
  <2>2. \A r \in RowId : take[r] <= History(r)'
    BY <1>9
  <2>3. AutoOK(s)'
    BY <1>5, <1>6, <2>2 DEF AutoOK, Nothing
  <2>4. AskedOK(s)' /\ EditOK(s)' /\ IdleOK(s)' /\ (task[s].ord \in Tab /\ Exists(task[s].ord))'
    BY <1>1, <1>2, <1>5, <1>6 DEF AskedOK, EditOK, IdleOK, Making, Exists
  <2> QED
    BY <2>1, <2>3, <2>4 DEF Fits
<1>14. JoinsMakers(s)
  BY <1>1, <1>5, <1>6 DEF JoinsMakers, Making, KitchenInv, OneInv
<1>15. FreshInv'
  <2> SUFFICES ASSUME NEW r \in RowId \ DOMAIN rows'
               PROVE  /\ told'[r] = 0 /\ peak'[r] = 0
                      /\ \A k \in DOMAIN tickets' : tickets'[k].items[r] = 0
    BY DEF FreshInv
  <2>1. r \notin DOMAIN rows /\ take[r] = 0
    BY <1>1, <1>3
  <2>2. told[r] = 0 /\ peak[r] = 0 /\ \A k \in DOMAIN tickets : tickets[k].items[r] = 0
    BY <2>1 DEF KitchenInv, FreshInv
  <2>3. \A k \in DOMAIN tickets' : tickets'[k].items[r] = 0
    BY <1>7, <2>1, <2>2
  <2> QED
    BY <1>1, <1>9, <2>1, <2>2, <2>3
<1>16. ToldInv'
  <2>1. \A r \in DOMAIN rows : rows[r].live => told[r] = History(r) /\ rows[r].qty <= peak[r]
    BY DEF KitchenInv, ToldInv
  <2>2. \A r \in DOMAIN rows : rows[r].live => told'[r] = History(r)'
    BY <1>9, <1>11, <2>1
  <2> QED
    BY <1>1, <2>1, <2>2 DEF ToldInv
<1>17. NothingSentTwice'
  <2>1. \A r \in DOMAIN rows : rows[r].ord \notin raced => told'[r] <= peak[r]
    BY <1>3, <1>9, <1>11
  <2> QED
    BY <1>1, <2>1 DEF NothingSentTwice
<1>18. SentIsOnTickets'
  <2>1. \A r \in DOMAIN rows : rows[r].live /\ ~rows[r].carried => rows[r].sent <= History(r)
    BY DEF KitchenInv, SentIsOnTickets
  <2>2. \A r \in DOMAIN rows : rows[r].sent \in Nat
    BY <1>1, RowsListed, KitchenBoundAssumption DEF Row
  <2>3. \A r \in DOMAIN rows : rows[r].live /\ ~rows[r].carried => rows[r].sent <= History(r)'
    BY <1>9, <1>11, <2>1, <2>2
  <2> QED
    BY <1>1, <2>3 DEF SentIsOnTickets
<1>19. (\A r \in DOMAIN rows : Exists(rows[r].ord))'
  BY <1>1 DEF KitchenInv, KnownInv, Exists, OfOrder, Making
<1> QED
  BY <1>10, <1>12, <1>13, <1>14, <1>15, <1>16, <1>17, <1>18, <1>19, WriteStep

\* One row changed in place.
LEMMA RowChanges ==
  ASSUME KitchenTypeOK, NEW f \in [DOMAIN rows -> Row], rows' = f
  PROVE  /\ rows' \in Seq(Row) /\ Len(rows') = Len(rows) /\ DOMAIN rows' = DOMAIN rows
         /\ \A r \in DOMAIN rows : rows'[r] = f[r]
<1>1. Len(rows) \in Nat /\ DOMAIN rows = 1..Len(rows)
  BY RowsListed
<1>2. f \in Seq(Row)
  BY <1>1, SeqDef
<1>3. DOMAIN f = 1..Len(f) /\ Len(f) \in Nat
  BY <1>2, LenProperties
<1>4. DOMAIN f = 1..Len(rows)
  BY <1>1
<1>5. Len(f) = Len(rows)
  BY <1>1, <1>3, <1>4
<1> QED
  BY <1>1, <1>2, <1>4, <1>5

\* A step that changes what rows are wanted or shown as sent, and nothing on tickets.
LEMMA RowWrite ==
  ASSUME KitchenInv, NEW s \in Clerk, NEW f \in [DOMAIN rows -> Row], rows' = f,
         UNCHANGED <<tab, tickets, raced, told>>, edits' = edits,
         peak' \in [RowId -> 0..MaxQty],
         \A r \in RowId : peak[r] <= peak'[r],
         \A r \in RowId \ DOMAIN rows : peak'[r] = peak[r],
         \A r \in DOMAIN rows :
           /\ f[r].ord = rows[r].ord /\ f[r].live = rows[r].live /\ f[r].carried = rows[r].carried
           /\ rows[r].live => f[r].qty <= peak'[r]
           /\ rows[r].live /\ ~rows[r].carried => f[r].sent <= History(r),
         \A t \in Clerk : task'[t] \in Task, DOMAIN task' = Clerk,
         \A t \in Clerk \ {s} : task'[t] = task[t], Fits(s)', JoinsMakers(s)
  PROVE  KitchenInv'
<1>1. /\ rows' \in Seq(Row) /\ Len(rows') = Len(rows) /\ DOMAIN rows' = DOMAIN rows
      /\ \A r \in DOMAIN rows : rows'[r] = f[r]
  BY RowChanges DEF KitchenInv
<1>2. KitchenTypeOK /\ KitchenTypeOK' /\ DOMAIN rows \subseteq RowId
  BY <1>1, RowsListed DEF KitchenInv, KitchenTypeOK
<1>3. \A r \in RowId : History(r)' = History(r) /\ History(r) \in Nat
  BY <1>2, HistoryIs, HistoryNat
<1>4. Grows(s)
  <2>1. \A r \in DOMAIN rows : History(r) <= History(r)'
    BY <1>2, <1>3
  <2>2. \A o \in Tab : Exists(o) => Exists(o)'
    BY DEF Exists
  <2> QED
    BY <1>1, <1>2, <2>1, <2>2 DEF Grows
<1>5. FreshInv'
  BY <1>1 DEF KitchenInv, FreshInv
<1>6. ToldInv'
  BY <1>1, <1>2, <1>3 DEF KitchenInv, ToldInv
<1>7. NothingSentTwice'
  <2>1. ASSUME NEW r \in DOMAIN rows, rows[r].ord \notin raced PROVE told[r] <= peak'[r]
    <3>1. told[r] <= peak[r] /\ peak[r] <= peak'[r] /\ r \in RowId
      BY <1>2, <2>1 DEF KitchenInv, NothingSentTwice
    <3>2. told[r] \in Nat /\ peak[r] \in Nat /\ peak'[r] \in Nat
      BY <1>2, <3>1, KitchenBoundAssumption DEF KitchenTypeOK
    <3> QED
      BY <3>1, <3>2
  <2> QED
    BY <1>1, <2>1 DEF NothingSentTwice
<1>8. SentIsOnTickets'
  BY <1>1, <1>2, <1>3 DEF SentIsOnTickets
<1>9. (\A r \in DOMAIN rows : Exists(rows[r].ord))'
  BY <1>1 DEF KitchenInv, KnownInv, Exists, OfOrder, Making
<1> QED
  BY <1>2, <1>4, <1>5, <1>6, <1>7, <1>8, <1>9, WriteStep

LEMMA AutoSentStep ==
  ASSUME KitchenInv, NEW s \in Clerk, AutoSent(s)
  PROVE  KitchenInv'
<1>1. PICK r \in RowId :
        /\ task[s].take[r] > 0 /\ LiveRow(r)
        /\ rows' = [rows EXCEPT ![r].sent = task[s].take[r]]
        /\ \/ Reply(s)
           \/ Ask(s, [task[s] EXCEPT !.take = [task[s].take EXCEPT ![r] = 0]])
  BY DEF AutoSent
<1> DEFINE take == [task[s].take EXCEPT ![r] = 0]
           w == [task[s] EXCEPT !.take = take]
           f == [rows EXCEPT ![r].sent = task[s].take[r]]
<1>2. /\ task[s].op = "create" /\ task[s].phase = "listed" /\ Making(s) /\ task[s] \in Task
      /\ UNCHANGED <<tab, tickets, edits, raced, told, peak>> /\ KitchenTypeOK
      /\ TakeOK(s) /\ AutoOK(s) /\ task[s].ord \in Tab /\ Exists(task[s].ord)
  BY DEF AutoSent, KitchenInv, KitchenTypeOK, Making, TaskInv, KnownInv, OfOrder
<1>3. task[s].take \in [RowId -> 0..MaxQty] /\ r \in DOMAIN rows /\ rows[r].live
  BY <1>1, <1>2 DEF Task, LiveRow
<1>4. \A q \in DOMAIN rows : rows[q] \in Row /\ q \in RowId
  BY <1>2, RowsListed
<1>5. /\ f \in [DOMAIN rows -> Row]
      /\ \A q \in DOMAIN rows :
           /\ f[q].ord = rows[q].ord /\ f[q].live = rows[q].live /\ f[q].carried = rows[q].carried
           /\ f[q].qty = rows[q].qty
           /\ f[q].sent = IF q = r THEN task[s].take[r] ELSE rows[q].sent
  BY <1>3, <1>4 DEF Row
<1>6. rows' = f
  BY <1>1
<1> HIDE DEF f
<1>7. \A q \in DOMAIN rows : rows[q].live /\ ~rows[q].carried => f[q].sent <= History(q)
  <2>1. task[s].take[r] <= History(r)
    BY <1>1, <1>2, <1>3 DEF AutoOK
  <2> QED
    BY <1>5, <2>1 DEF KitchenInv, SentIsOnTickets
<1>8. \A q \in DOMAIN rows : rows[q].live => f[q].qty <= peak'[q]
  BY <1>2, <1>5 DEF KitchenInv, ToldInv
<1>9. peak' \in [RowId -> 0..MaxQty] /\ \A q \in RowId : peak[q] <= peak'[q] /\ peak'[q] = peak[q]
  BY <1>2, KitchenBoundAssumption DEF KitchenTypeOK
<1>10. /\ \A t \in Clerk : task'[t] \in Task
       /\ DOMAIN task' = Clerk /\ \A t \in Clerk \ {s} : task'[t] = task[t]
       /\ Fits(s)' /\ JoinsMakers(s)
  <2>1. CASE Reply(s)
    BY <2>1, ReplySets
  <2>2. CASE Ask(s, w)
    <3>1. take \in [RowId -> 0..MaxQty] /\ \A q \in RowId : take[q] > 0 => take[q] = task[s].take[q]
      BY <1>3, KitchenBoundAssumption
    <3> HIDE DEF take
    <3>2. /\ w \in Task /\ w.op = "create" /\ w.phase = "listed" /\ w.ord = task[s].ord /\ w.take = take
      BY <1>2, <3>1 DEF Task
    <3>3. task'[s] = w /\ DOMAIN task' = Clerk /\ \A t \in Clerk \ {s} : task'[t] = task[t]
      BY <2>2, AskSets
    <3> HIDE DEF w
    <3>4. DOMAIN rows' = DOMAIN rows /\ \A q \in DOMAIN rows : rows'[q].ord = rows[q].ord
                                                               /\ rows'[q].live = rows[q].live
      BY <1>5, <1>6
    <3>5. TakeOK(s)'
      BY <1>2, <3>1, <3>2, <3>3, <3>4 DEF TakeOK
    <3>6. \A q \in RowId : History(q)' = History(q)
      BY <1>2, HistoryIs
    <3>7. ASSUME NEW q \in RowId, task'[s].take[q] > 0, rows'[q].live
          PROVE  task'[s].take[q] <= History(q)'
      <4>1. take[q] = task[s].take[q] /\ q \in DOMAIN rows /\ rows[q].live
        BY <1>2, <3>1, <3>2, <3>3, <3>4, <3>7 DEF TakeOK
      <4> QED
        BY <1>2, <3>2, <3>3, <3>6, <3>7, <4>1 DEF AutoOK
    <3>8. AutoOK(s)'
      BY <3>2, <3>3, <3>7 DEF AutoOK, Nothing
    <3>9. AskedOK(s)' /\ EditOK(s)' /\ IdleOK(s)' /\ (task[s].ord \in Tab /\ Exists(task[s].ord))'
      BY <1>2, <3>2, <3>3 DEF AskedOK, EditOK, IdleOK, Making, Exists
    <3>10. Fits(s)'
      BY <3>5, <3>8, <3>9 DEF Fits
    <3>11. JoinsMakers(s)
      BY <1>2, <3>2, <3>3 DEF JoinsMakers, Making, KitchenInv, OneInv
    <3>12. \A t \in Clerk : task'[t] \in Task
      BY <1>2, <3>2, <3>3 DEF KitchenTypeOK
    <3> QED
      BY <3>3, <3>10, <3>11, <3>12
  <2> QED
    BY <1>1, <2>1, <2>2
<1> QED
  BY <1>2, <1>5, <1>6, <1>7, <1>8, <1>9, <1>10, RowWrite

LEMMA SetQtyStep ==
  ASSUME KitchenInv, NEW s \in Clerk, SetQty(s)
  PROVE  KitchenInv'
<1> DEFINE r == task[s].row
           q == task[s].qty
           sent == AtMost(task[s].base[r], q)
           f == [rows EXCEPT ![r].qty = q, ![r].sent = sent]
           p == [peak EXCEPT ![r] = IF q > peak[r] THEN q ELSE peak[r]]
<1>1. /\ task[s].op = "setQty" /\ LiveRow(r) /\ rows' = f /\ peak' = p /\ Reply(s)
      /\ UNCHANGED <<tab, tickets, edits, raced, told>> /\ KitchenTypeOK
  BY DEF SetQty, KitchenInv
<1>2. /\ task[s] \in Task /\ q > 0
      /\ rows[r].live /\ ~rows[r].carried => task[s].base[r] <= History(r)
  BY <1>1 DEF KitchenInv, KitchenTypeOK, TaskInv, EditOK
<1>3. \A x \in DOMAIN rows : rows[x] \in Row /\ x \in RowId
  BY <1>1, RowsListed
<1>4. /\ r \in DOMAIN rows /\ rows[r].live /\ r \in RowId /\ q \in 1..MaxQty
      /\ task[s].base[r] \in Nat /\ History(r) \in Nat
  <2>1. r \in DOMAIN rows /\ rows[r].live /\ r \in RowId
    BY <1>1, <1>3 DEF LiveRow
  <2> QED
    BY <1>1, <1>2, <2>1, HistoryNat, KitchenBoundAssumption DEF Task
<1>5. sent \in 0..MaxQty /\ sent <= task[s].base[r]
  BY <1>4, KitchenBoundAssumption DEF AtMost
<1> HIDE DEF sent
<1>6. /\ f \in [DOMAIN rows -> Row]
      /\ \A x \in DOMAIN rows :
           /\ f[x].ord = rows[x].ord /\ f[x].live = rows[x].live /\ f[x].carried = rows[x].carried
           /\ f[x].qty = IF x = r THEN q ELSE rows[x].qty
           /\ f[x].sent = IF x = r THEN sent ELSE rows[x].sent
  BY <1>3, <1>4, <1>5 DEF Row
<1>7. /\ p \in [RowId -> 0..MaxQty] /\ q <= p[r]
      /\ \A x \in RowId : /\ peak[x] <= p[x] /\ (x # r => p[x] = peak[x])
  <2>1. peak \in [RowId -> 0..MaxQty] /\ r \in RowId /\ q \in 1..MaxQty
    BY <1>1, <1>4 DEF KitchenTypeOK
  <2> HIDE DEF r, q
  <2> QED
    BY <2>1, KitchenBoundAssumption
<1> HIDE DEF f, p
<1>8. \A x \in DOMAIN rows :
        /\ rows[x].live => f[x].qty <= peak'[x]
        /\ rows[x].live /\ ~rows[x].carried => f[x].sent <= History(x)
  <2> SUFFICES ASSUME NEW x \in DOMAIN rows
               PROVE  /\ rows[x].live => f[x].qty <= peak'[x]
                      /\ rows[x].live /\ ~rows[x].carried => f[x].sent <= History(x)
    OBVIOUS
  <2>1. CASE x = r
    <3>1. ~rows[x].carried => sent <= History(r)
      BY <1>2, <1>4, <1>5, <2>1
    <3> QED
      BY <1>1, <1>6, <1>7, <2>1, <3>1
  <2>2. CASE x # r
    <3>1. /\ rows[x].live => rows[x].qty <= peak[x]
          /\ rows[x].live /\ ~rows[x].carried => rows[x].sent <= History(x)
      BY DEF KitchenInv, ToldInv, SentIsOnTickets
    <3> QED
      BY <1>1, <1>3, <1>6, <1>7, <2>2, <3>1
  <2> QED
    BY <2>1, <2>2
<1>9. /\ \A t \in Clerk : task'[t] \in Task
      /\ DOMAIN task' = Clerk /\ \A t \in Clerk \ {s} : task'[t] = task[t]
      /\ Fits(s)' /\ JoinsMakers(s)
  BY <1>1, ReplySets
<1>10. /\ peak' \in [RowId -> 0..MaxQty] /\ (\A x \in RowId : peak[x] <= peak'[x])
       /\ \A x \in RowId \ DOMAIN rows : peak'[x] = peak[x]
  BY <1>1, <1>4, <1>7
<1> HIDE DEF r, q
<1> QED
  BY <1>1, <1>6, <1>8, <1>9, <1>10, RowWrite

LEMMA SendTicketStep ==
  ASSUME KitchenInv, NEW s \in Clerk, SendTicket(s)
  PROVE  KitchenInv'
<1> DEFINE take == task[s].take
           base == task[s].base
           due == {r \in RowId : take[r] > 0}
           f == [r \in DOMAIN rows |-> IF r \notin due THEN rows[r] ELSE
                      [rows[r] EXCEPT !.sent = base[r] + take[r]]]
<1>1. /\ task[s].op = "ticket" /\ task[s].phase = "drawn" /\ NumberIsFree(s) /\ Making(s)
      /\ \A r \in RowId : take[r] > 0 => LiveRow(r)
      /\ rows' = f /\ PutOut(task[s].ord, take) /\ Reply(s)
      /\ UNCHANGED <<tab, edits, raced, peak>> /\ KitchenTypeOK
  BY DEF SendTicket, KitchenInv, Making
<1>2. /\ task[s] \in Task /\ AskedOK(s) /\ task[s].ord \in Tab /\ take \in [RowId -> 0..MaxQty]
  BY <1>1 DEF KitchenInv, KitchenTypeOK, TaskInv, KnownInv, Task, OfOrder, Making
<1>3. Len(tickets) < MaxTickets
  BY <1>1, FreeIs
<1>4. /\ tickets' \in Seq(Ticket) /\ Len(tickets') <= MaxTickets /\ told' \in [RowId -> Nat]
      /\ DOMAIN tickets' = DOMAIN tickets \cup {Len(tickets) + 1}
      /\ \A k \in DOMAIN tickets : tickets'[k] = tickets[k]
      /\ tickets'[Len(tickets) + 1].items = take
      /\ \A r \in RowId : History(r)' = History(r) + take[r] /\ told'[r] = told[r] + take[r]
  BY <1>1, <1>2, <1>3, PutsOut
<1>5. \A r \in RowId :
        /\ take[r] \in Nat
        /\ take[r] > 0 => r \in DOMAIN rows /\ rows[r].ord = task[s].ord /\ rows[r].live
        /\ r \in DOMAIN rows /\ rows[r].ord \notin raced => told[r] + take[r] <= peak[r]
  BY <1>1, TakenFits, KitchenBoundAssumption
<1>6. \A r \in RowId : take[r] > 0 => /\ base[r] + take[r] \in 0..MaxQty /\ base[r] <= History(r)
                                      /\ base[r] \in Nat
  <2> SUFFICES ASSUME NEW r \in RowId, take[r] > 0
               PROVE  /\ base[r] + take[r] \in 0..MaxQty /\ base[r] <= History(r)
                      /\ base[r] \in Nat
    OBVIOUS
  <2>1. base[r] + take[r] <= MaxQty /\ base[r] <= History(r)
    BY <1>1, <1>2 DEF AskedOK
  <2>2. base[r] \in Nat /\ take[r] \in Nat
    BY <1>2, <1>5 DEF Task
  <2> QED
    BY <2>1, <2>2, KitchenBoundAssumption
<1>7. \A r \in RowId : /\ told[r] \in Nat /\ peak[r] \in Nat /\ History(r) \in Nat
  BY <1>1, HistoryNat, KitchenBoundAssumption DEF KitchenTypeOK
<1>8. DOMAIN rows \subseteq RowId /\ \A r \in DOMAIN rows : rows[r] \in Row
  BY <1>1, RowsListed
<1> HIDE DEF take, base
<1>9. /\ f \in [DOMAIN rows -> Row]
      /\ \A r \in DOMAIN rows :
           /\ f[r].ord = rows[r].ord /\ f[r].live = rows[r].live /\ f[r].carried = rows[r].carried
           /\ f[r].qty = rows[r].qty
           /\ f[r].sent = IF take[r] > 0 THEN base[r] + take[r] ELSE rows[r].sent
  BY <1>6, <1>8 DEF Row
<1> HIDE DEF f
<1>10. /\ rows' \in Seq(Row) /\ Len(rows') = Len(rows) /\ DOMAIN rows' = DOMAIN rows
       /\ \A r \in DOMAIN rows : rows'[r] = f[r]
  BY <1>1, <1>9, RowChanges
<1>11. /\ \A t \in Clerk : task'[t] \in Task
       /\ DOMAIN task' = Clerk /\ \A t \in Clerk \ {s} : task'[t] = task[t]
       /\ Fits(s)' /\ JoinsMakers(s)
  BY <1>1, ReplySets
<1>12. KitchenTypeOK'
  BY <1>1, <1>4, <1>10, <1>11 DEF KitchenTypeOK
<1>13. Grows(s)
  <2>1. \A r \in DOMAIN rows : History(r) <= History(r)'
    BY <1>4, <1>5, <1>7, <1>8
  <2>2. \A r \in RowId : /\ peak[r] <= peak'[r]
                         /\ told'[r] # told[r] => task[s].take[r] > 0
    BY <1>1, <1>4, <1>5, <1>7 DEF take
  <2>3. \A o \in Tab : Exists(o) => Exists(o)'
    BY <1>1 DEF Exists
  <2> QED
    BY <1>1, <1>4, <1>8, <1>9, <1>10, <1>11, <2>1, <2>2, <2>3 DEF Grows
<1>14. FreshInv'
  <2> SUFFICES ASSUME NEW r \in RowId \ DOMAIN rows'
               PROVE  /\ told'[r] = 0 /\ peak'[r] = 0
                      /\ \A k \in DOMAIN tickets' : tickets'[k].items[r] = 0
    BY DEF FreshInv
  <2>1. r \notin DOMAIN rows /\ take[r] = 0
    BY <1>5, <1>10
  <2>2. told[r] = 0 /\ peak[r] = 0 /\ \A k \in DOMAIN tickets : tickets[k].items[r] = 0
    BY <2>1 DEF KitchenInv, FreshInv
  <2>3. \A k \in DOMAIN tickets' : tickets'[k].items[r] = 0
    BY <1>4, <2>1, <2>2
  <2> QED
    BY <1>1, <1>4, <2>1, <2>2, <2>3
<1>15. ToldInv'
  <2>1. \A r \in DOMAIN rows : rows[r].live => told[r] = History(r) /\ rows[r].qty <= peak[r]
    BY DEF KitchenInv, ToldInv
  <2>2. \A r \in DOMAIN rows : rows[r].live => told'[r] = History(r)'
    BY <1>4, <1>8, <2>1
  <2> QED
    BY <1>1, <1>9, <1>10, <2>1, <2>2 DEF ToldInv
<1>16. NothingSentTwice'
  <2>1. \A r \in DOMAIN rows : rows[r].ord \notin raced => told'[r] <= peak[r]
    BY <1>4, <1>5, <1>8
  <2> QED
    BY <1>1, <1>9, <1>10, <2>1 DEF NothingSentTwice
<1>17. SentIsOnTickets'
  <2>1. \A r \in DOMAIN rows : rows[r].live /\ ~rows[r].carried => rows[r].sent <= History(r)
    BY DEF KitchenInv, SentIsOnTickets
  <2>2. \A r \in DOMAIN rows : rows[r].sent \in Nat
    BY <1>8, KitchenBoundAssumption DEF Row
  <2>3. ASSUME NEW r \in DOMAIN rows, rows[r].live, ~rows[r].carried
        PROVE  f[r].sent <= History(r)'
    <3>1. r \in RowId /\ rows[r].sent <= History(r) /\ rows[r].sent \in Nat
      BY <1>8, <2>1, <2>2, <2>3
    <3>2. CASE take[r] > 0
      BY <1>4, <1>5, <1>6, <1>7, <1>9, <3>1, <3>2
    <3>3. CASE ~(take[r] > 0)
      BY <1>4, <1>5, <1>7, <1>9, <3>1, <3>3
    <3> QED
      BY <3>2, <3>3
  <2> QED
    BY <1>9, <1>10, <2>3 DEF SentIsOnTickets
<1>18. (\A r \in DOMAIN rows : Exists(rows[r].ord))'
  BY <1>1, <1>9, <1>10 DEF KitchenInv, KnownInv, Exists, OfOrder, Making
<1> QED
  BY <1>11, <1>12, <1>13, <1>14, <1>15, <1>16, <1>17, <1>18, WriteStep

\* Tickets that lose the entries of some rows, and nothing else.
Keeps(gone) ==
  /\ tickets' \in Seq(Ticket) /\ Len(tickets') = Len(tickets) /\ DOMAIN tickets' = DOMAIN tickets
  /\ \A k \in DOMAIN tickets, r \in RowId :
       tickets'[k].items[r] = IF r \in gone THEN 0 ELSE tickets[k].items[r]
  /\ \A k \in DOMAIN tickets : tickets[k].items = Nothing => tickets'[k].items = Nothing
  /\ \A r \in RowId \ gone : History(r)' = History(r)

LEMMA WithoutIs ==
  ASSUME KitchenTypeOK, NEW gone, gone \subseteq RowId, tickets' = WithoutRows(tickets, gone)
  PROVE  Keeps(gone)
<1>1. \A k \in DOMAIN tickets : tickets[k] \in Ticket
  BY RowsListed
<1>2. /\ DOMAIN tickets' = DOMAIN tickets /\ tickets' = [k \in DOMAIN tickets |-> tickets'[k]]
      /\ \A k \in DOMAIN tickets :
           tickets'[k] = [tickets[k] EXCEPT !.items =
                            [r \in RowId |-> IF r \in gone THEN 0 ELSE tickets[k].items[r]]]
  BY DEF WithoutRows
<1>3. ASSUME NEW k \in DOMAIN tickets
      PROVE  /\ tickets'[k] \in Ticket
             /\ \A r \in RowId : tickets'[k].items[r] = IF r \in gone THEN 0 ELSE tickets[k].items[r]
             /\ tickets'[k].items = [r \in RowId |-> IF r \in gone THEN 0 ELSE tickets[k].items[r]]
  <2> DEFINE items == [r \in RowId |-> IF r \in gone THEN 0 ELSE tickets[k].items[r]]
  <2>1. items \in [RowId -> 0..MaxQty]
    BY <1>1, KitchenBoundAssumption DEF Ticket
  <2>2. \A r \in RowId : items[r] = IF r \in gone THEN 0 ELSE tickets[k].items[r]
    OBVIOUS
  <2>3. tickets'[k] = [tickets[k] EXCEPT !.items = items]
    BY <1>2
  <2>4. items = [r \in RowId |-> IF r \in gone THEN 0 ELSE tickets[k].items[r]]
    OBVIOUS
  <2> HIDE DEF items
  <2>5. tickets'[k] \in Ticket /\ tickets'[k].items = items
    BY <1>1, <2>1, <2>3 DEF Ticket
  <2> QED
    BY <2>2, <2>4, <2>5
<1>4. tickets' \in Seq(Ticket) /\ Len(tickets') = Len(tickets)
  BY <1>2, <1>3, MarksType
<1>5. ASSUME NEW k \in DOMAIN tickets, tickets[k].items = Nothing PROVE tickets'[k].items = Nothing
  BY <1>3, <1>5 DEF Nothing
<1>6. ASSUME NEW r \in RowId \ gone PROVE History(r)' = History(r)
  <2>1. Listing(tickets, r)
    BY TicketsList DEF KitchenTypeOK
  <2>2. \A k \in DOMAIN tickets : tickets'[k].items[r] = tickets[k].items[r]
    BY <1>3
  <2>3. DOMAIN tickets' = DOMAIN tickets /\ Len(tickets') = Len(tickets)
    BY <1>2, <1>4
  <2>4. Listed(tickets', r) = Listed(tickets, r)
    BY <2>1, <2>2, <2>3, ListedSame
  <2> QED
    BY <2>4, HistoryIs
<1> QED
  BY <1>2, <1>3, <1>4, <1>5, <1>6 DEF Keeps

-----------------------------------------------------------------------------
(* The steps that insert and delete lines *)

LEMMA KeepsAll ==
  ASSUME KitchenTypeOK, tickets' = tickets
  PROVE  Keeps({})
BY HistoryIs DEF Keeps, KitchenTypeOK

\* Lines kept and new ones: what is wanted of them is no more than the peak, what is
\* shown as sent no more than is on tickets.
Lines(gone) ==
  /\ rows' \in Seq(Row) /\ Len(rows') <= MaxRows
  /\ DOMAIN rows \subseteq DOMAIN rows'
  /\ \A r \in DOMAIN rows :
       /\ rows'[r].ord = rows[r].ord
       /\ rows'[r].live => rows[r].live /\ r \notin gone /\ rows'[r].qty <= peak'[r]
       /\ rows[r].carried => rows'[r].carried
       /\ rows'[r].live /\ ~rows'[r].carried => rows'[r].sent <= History(r)
  /\ \A r \in DOMAIN rows' \ DOMAIN rows :
       /\ rows'[r].qty <= peak'[r]
       /\ ~rows'[r].carried => rows'[r].sent = 0
  /\ peak' \in [RowId -> 0..MaxQty] /\ \A r \in RowId : peak[r] <= peak'[r]
  /\ \A r \in RowId \ DOMAIN rows' : peak'[r] = peak[r]

\* No ticket lists a row to come.
LEMMA FreshHistory ==
  ASSUME KitchenInv, NEW r \in RowId \ DOMAIN rows
  PROVE  History(r) = 0 /\ told[r] = 0 /\ peak[r] = 0
<1>1. told[r] = 0 /\ peak[r] = 0 /\ \A k \in DOMAIN tickets : tickets[k].items[r] = 0
  BY DEF KitchenInv, FreshInv
<1>2. Listing(tickets, r)
  BY TicketsList DEF KitchenInv, KitchenTypeOK
<1>3. Listed(tickets, r) = 0
  BY <1>1, <1>2, ListedNone
<1> QED
  BY <1>1, <1>3, HistoryIs

LEMMA LinesWrite ==
  ASSUME KitchenInv, NEW s \in Clerk, NEW gone \in SUBSET DOMAIN rows, Keeps(gone), Lines(gone),
         tab' \in [Tab -> TabRow], \A o \in Tab : Exists(o) => Exists(o)',
         (\A r \in DOMAIN rows : Exists(rows[r].ord))',
         edits' \in 0..MaxEdits, raced' = raced, told' = told,
         \A t \in Clerk : task'[t] \in Task, DOMAIN task' = Clerk,
         \A t \in Clerk \ {s} : task'[t] = task[t], Fits(s)', JoinsMakers(s)
  PROVE  KitchenInv'
<1>1. KitchenTypeOK /\ KitchenTypeOK' /\ DOMAIN rows \subseteq RowId
  BY RowsListed DEF KitchenInv, KitchenTypeOK, Keeps, Lines
<1>2. DOMAIN rows' = 1..Len(rows') /\ DOMAIN rows' \subseteq RowId /\ Len(rows') \in Nat
      /\ \A r \in DOMAIN rows' : rows'[r] \in Row
  <2>1. rows' \in Seq(Row) /\ Len(rows') <= MaxRows
    BY DEF Lines
  <2>2. DOMAIN rows' = 1..Len(rows') /\ Len(rows') \in Nat /\ \A r \in DOMAIN rows' : rows'[r] \in Row
    BY <2>1, LenProperties, ElementOfSeq
  <2> QED
    BY <2>1, <2>2, KitchenBoundAssumption DEF RowId
<1>3. \A r \in RowId : History(r) \in Nat /\ (r \notin gone => History(r)' = History(r))
                       /\ told[r] \in Nat /\ peak[r] \in Nat /\ peak'[r] \in Nat /\ peak[r] <= peak'[r]
  BY <1>1, HistoryNat, KitchenBoundAssumption DEF Keeps, Lines, KitchenTypeOK
<1>4. Grows(s)
  <2>1. \A r \in DOMAIN rows : rows'[r].live => rows[r].live /\ History(r) <= History(r)'
    BY <1>1, <1>3 DEF Lines
  <2> QED
    BY <1>1, <1>2, <1>3, <2>1 DEF Grows, Keeps, Lines
<1>5. FreshInv'
  <2> SUFFICES ASSUME NEW r \in RowId \ DOMAIN rows'
               PROVE  /\ told'[r] = 0 /\ peak'[r] = 0
                      /\ \A k \in DOMAIN tickets' : tickets'[k].items[r] = 0
    BY DEF FreshInv
  <2>1. r \notin DOMAIN rows /\ peak'[r] = peak[r]
    BY DEF Lines
  <2>2. told[r] = 0 /\ peak[r] = 0 /\ \A k \in DOMAIN tickets : tickets[k].items[r] = 0
    BY <2>1 DEF KitchenInv, FreshInv
  <2>3. \A k \in DOMAIN tickets' : tickets'[k].items[r] = 0
    BY <2>2 DEF Keeps
  <2> QED
    BY <2>1, <2>2, <2>3
<1>6. ASSUME NEW r \in DOMAIN rows' \ DOMAIN rows
      PROVE  History(r)' = 0 /\ told[r] = 0 /\ r \in RowId
  <2>1. r \in RowId /\ r \notin gone
    BY <1>2
  <2> QED
    BY <1>3, <2>1, FreshHistory
<1>7. ToldInv'
  <2>1. ASSUME NEW r \in DOMAIN rows', rows'[r].live
        PROVE  told'[r] = History(r)' /\ rows'[r].qty <= peak'[r]
    <3>1. CASE r \in DOMAIN rows
      <4>1. rows[r].live /\ r \notin gone /\ rows'[r].qty <= peak'[r] /\ r \in RowId
        BY <1>1, <2>1, <3>1 DEF Lines
      <4> QED
        BY <1>3, <3>1, <4>1 DEF KitchenInv, ToldInv
    <3>2. CASE r \notin DOMAIN rows
      BY <1>6, <3>2 DEF Lines
    <3> QED
      BY <3>1, <3>2
  <2> QED
    BY <2>1 DEF ToldInv
<1>8. NothingSentTwice'
  <2>1. ASSUME NEW r \in DOMAIN rows', rows'[r].ord \notin raced
        PROVE  told'[r] <= peak'[r]
    <3>1. CASE r \in DOMAIN rows
      <4>1. rows[r].ord \notin raced /\ r \in RowId
        BY <1>1, <2>1, <3>1 DEF Lines
      <4>2. told[r] <= peak[r]
        BY <3>1, <4>1 DEF KitchenInv, NothingSentTwice
      <4> QED
        BY <1>3, <4>1, <4>2
    <3>2. CASE r \notin DOMAIN rows
      BY <1>3, <1>6, <3>2
    <3> QED
      BY <3>1, <3>2
  <2> QED
    BY <2>1 DEF NothingSentTwice
<1>9. SentIsOnTickets'
  <2>1. ASSUME NEW r \in DOMAIN rows', rows'[r].live, ~rows'[r].carried
        PROVE  rows'[r].sent <= History(r)'
    <3>1. CASE r \in DOMAIN rows
      <4>1. r \notin gone /\ rows'[r].sent <= History(r) /\ r \in RowId
        BY <1>1, <2>1, <3>1 DEF Lines
      <4> QED
        BY <1>3, <4>1
    <3>2. CASE r \notin DOMAIN rows
      BY <1>6, <2>1, <3>2 DEF Lines
    <3> QED
      BY <3>1, <3>2
  <2> QED
    BY <2>1 DEF SentIsOnTickets
<1> QED
  BY <1>1, <1>4, <1>5, <1>7, <1>8, <1>9, WriteStep

\* A line deleted takes its entries on tickets with it.
LEMMA RemoveItemStep ==
  ASSUME KitchenInv, NEW s \in Clerk, RemoveItem(s)
  PROVE  KitchenInv'
<1> DEFINE x == task[s].row
           f == [rows EXCEPT ![x].live = FALSE]
<1>1. /\ task[s].op = "remove" /\ LiveRow(x) /\ rows' = f /\ Reply(s)
      /\ tickets' = WithoutRows(tickets, {x})
      /\ UNCHANGED <<tab, edits, raced, told, peak>> /\ KitchenTypeOK
  BY DEF RemoveItem, KitchenInv
<1>2. x \in DOMAIN rows
  BY <1>1 DEF LiveRow
<1>3. DOMAIN rows \subseteq RowId /\ \A r \in DOMAIN rows : rows[r] \in Row
  BY <1>1, RowsListed
<1> HIDE DEF x
<1>4. /\ f \in [DOMAIN rows -> Row]
      /\ \A r \in DOMAIN rows :
           /\ f[r].ord = rows[r].ord /\ f[r].carried = rows[r].carried
           /\ f[r].qty = rows[r].qty /\ f[r].sent = rows[r].sent
           /\ f[r].live => rows[r].live /\ r # x
  BY <1>2, <1>3 DEF Row
<1> HIDE DEF f
<1>5. /\ rows' \in Seq(Row) /\ Len(rows') = Len(rows) /\ DOMAIN rows' = DOMAIN rows
      /\ \A r \in DOMAIN rows : rows'[r] = f[r]
  BY <1>1, <1>4, RowChanges
<1>6. Keeps({x})
  <2>1. {x} \subseteq RowId
    BY <1>2, <1>3
  <2> QED
    BY <1>1, <2>1, WithoutIs
<1>7. Lines({x})
  <2>1. \A r \in RowId : peak[r] <= peak'[r]
    BY <1>1, KitchenBoundAssumption DEF KitchenTypeOK
  <2>2. \A r \in DOMAIN rows : /\ rows[r].live => rows[r].qty <= peak[r]
                               /\ rows[r].live /\ ~rows[r].carried => rows[r].sent <= History(r)
    BY DEF KitchenInv, ToldInv, SentIsOnTickets
  <2> QED
    BY <1>1, <1>4, <1>5, <2>1, <2>2 DEF Lines, KitchenTypeOK
<1>8. /\ \A t \in Clerk : task'[t] \in Task
      /\ DOMAIN task' = Clerk /\ \A t \in Clerk \ {s} : task'[t] = task[t]
      /\ Fits(s)' /\ JoinsMakers(s)
  BY <1>1, ReplySets
<1>9. /\ tab' \in [Tab -> TabRow] /\ (\A o \in Tab : Exists(o) => Exists(o)')
      /\ edits' \in 0..MaxEdits /\ raced' = raced /\ told' = told
  BY <1>1 DEF KitchenTypeOK, Exists
<1>10. (\A r \in DOMAIN rows : Exists(rows[r].ord))'
  BY <1>1, <1>4, <1>5 DEF KitchenInv, KnownInv, Exists, OfOrder, Making
<1> QED
  BY <1>2, <1>6, <1>7, <1>8, <1>9, <1>10, LinesWrite

\* Lines after lines.
LEMMA RowsMore ==
  ASSUME KitchenTypeOK, NEW f \in [DOMAIN rows -> Row], NEW g \in Seq(Row),
         rows' = f \o g, Len(rows) + Len(g) <= MaxRows
  PROVE  /\ rows' \in Seq(Row) /\ Len(rows') = Len(rows) + Len(g) /\ Len(rows') <= MaxRows
         /\ DOMAIN rows \subseteq DOMAIN rows' /\ DOMAIN rows' = 1..(Len(rows) + Len(g))
         /\ DOMAIN rows' \subseteq RowId /\ DOMAIN g = 1..Len(g) /\ Len(g) \in Nat
         /\ \A r \in DOMAIN rows : rows'[r] = f[r]
         /\ \A r \in DOMAIN rows' \ DOMAIN rows :
              r - Len(rows) \in DOMAIN g /\ rows'[r] = g[r - Len(rows)]
         /\ \A r \in RowId : r - Len(rows) \in DOMAIN g <=> r \in DOMAIN rows' \ DOMAIN rows
<1>1. Len(rows) \in Nat /\ DOMAIN rows = 1..Len(rows)
  BY RowsListed
<1>2. f \in Seq(Row)
  BY <1>1, SeqDef
<1>3. DOMAIN f = 1..Len(f) /\ Len(f) \in Nat /\ DOMAIN g = 1..Len(g) /\ Len(g) \in Nat
  BY <1>2, LenProperties
<1>4. Len(f) = Len(rows)
  BY <1>1, <1>3
<1>5. /\ rows' \in Seq(Row) /\ Len(rows') = Len(rows) + Len(g)
      /\ \A i \in 1..(Len(rows) + Len(g)) :
           rows'[i] = IF i <= Len(rows) THEN f[i] ELSE g[i - Len(rows)]
  <2>1. f \o g \in Seq(Row) /\ Len(f \o g) = Len(f) + Len(g)
        /\ \A i \in 1..(Len(f) + Len(g)) :
             (f \o g)[i] = IF i <= Len(f) THEN f[i] ELSE g[i - Len(f)]
    BY <1>2, ConcatProperties
  <2> QED
    BY <1>4, <2>1
<1>6. DOMAIN rows' = 1..(Len(rows) + Len(g))
  BY <1>5, LenProperties
<1>7. ASSUME NEW r \in DOMAIN rows PROVE r \in DOMAIN rows' /\ rows'[r] = f[r]
  BY <1>1, <1>3, <1>5, <1>6
<1>8. ASSUME NEW r \in DOMAIN rows' \ DOMAIN rows
      PROVE  r - Len(rows) \in DOMAIN g /\ rows'[r] = g[r - Len(rows)]
  BY <1>1, <1>3, <1>5, <1>6
<1>9. DOMAIN rows' \subseteq RowId
  BY <1>1, <1>3, <1>6, KitchenBoundAssumption DEF RowId
<1>10. ASSUME NEW r \in RowId
       PROVE  r - Len(rows) \in DOMAIN g <=> r \in DOMAIN rows' \ DOMAIN rows
  BY <1>1, <1>3, <1>6, KitchenBoundAssumption DEF RowId
<1> QED
  BY <1>3, <1>5, <1>6, <1>7, <1>8, <1>9, <1>10

\* A line added is wanted and not sent.
LEMMA AddItemStep ==
  ASSUME KitchenInv, NEW s \in Clerk, AddItem(s)
  PROVE  KitchenInv'
<1>1. PICK o \in Tab, d \in Dish, n \in Note, q \in 1..MaxQty :
        /\ Editable(o)
        /\ rows' = Append(rows, [ord |-> o, dish |-> d, note |-> n, qty |-> q,
                                 sent |-> 0, live |-> TRUE, carried |-> FALSE])
        /\ peak' = [peak EXCEPT ![Len(rows) + 1] = q]
  BY DEF AddItem
<1> DEFINE new == [ord |-> o, dish |-> d, note |-> n, qty |-> q,
                   sent |-> 0, live |-> TRUE, carried |-> FALSE]
           i == Len(rows) + 1
<1>2. /\ MayServe(s, "add") /\ Len(rows) < MaxRows /\ Edit /\ KitchenTypeOK
      /\ UNCHANGED <<tab, tickets, task, raced, told>>
  BY DEF AddItem, KitchenInv
<1>3. /\ new \in Row /\ new.qty = q /\ new.ord = o /\ new.sent = 0 /\ q \in 0..MaxQty
  BY KitchenBoundAssumption DEF Row
<1>4. /\ Len(rows) \in Nat /\ DOMAIN rows = 1..Len(rows) /\ DOMAIN rows \subseteq RowId
      /\ rows \in Seq(Row) /\ i \in RowId /\ i \notin DOMAIN rows
  BY <1>2, RowsListed, KitchenBoundAssumption DEF KitchenTypeOK, RowId
<1> HIDE DEF new
<1>5. /\ rows' \in Seq(Row) /\ Len(rows') = Len(rows) + 1
      /\ \A r \in 1..Len(rows) : rows'[r] = rows[r]
      /\ rows'[i] = new
  BY <1>1, <1>3, <1>4, AppendProperties DEF new
<1>6. DOMAIN rows' = DOMAIN rows \cup {i}
  <2>1. DOMAIN rows' = 1..(Len(rows) + 1)
    BY <1>5, LenProperties
  <2> QED
    BY <1>4, <2>1
<1>7. Keeps({})
  BY <1>2, KeepsAll
<1>8. peak[i] = 0
  BY <1>4, FreshHistory
<1>9. /\ peak' \in [RowId -> 0..MaxQty] /\ peak'[i] = q
      /\ \A r \in RowId : peak[r] <= peak'[r] /\ (r # i => peak'[r] = peak[r])
  <2>1. peak \in [RowId -> 0..MaxQty] /\ i \in RowId /\ peak' = [peak EXCEPT ![i] = q]
    BY <1>1, <1>2, <1>4 DEF KitchenTypeOK
  <2> HIDE DEF i
  <2> QED
    BY <1>3, <1>8, <2>1, KitchenBoundAssumption
<1> HIDE DEF i
<1>10. Lines({})
  <2>1. \A r \in DOMAIN rows : /\ rows[r].live => rows[r].qty <= peak[r]
                               /\ rows[r].live /\ ~rows[r].carried => rows[r].sent <= History(r)
    BY DEF KitchenInv, ToldInv, SentIsOnTickets
  <2>2. \A r \in DOMAIN rows : rows'[r] = rows[r] /\ peak'[r] = peak[r]
    BY <1>4, <1>5, <1>9
  <2>3. \A r \in DOMAIN rows' \ DOMAIN rows : r = i
    BY <1>6
  <2>4. Len(rows') <= MaxRows
    BY <1>2, <1>4, <1>5, KitchenBoundAssumption
  <2>5. \A r \in RowId \ DOMAIN rows' : peak'[r] = peak[r]
    BY <1>6, <1>9
  <2>6. rows'[i].qty <= peak'[i] /\ rows'[i].sent = 0
    BY <1>3, <1>5, <1>9
  <2> QED
    BY <1>5, <1>6, <1>9, <2>1, <2>2, <2>3, <2>4, <2>5, <2>6 DEF Lines
<1>11. /\ Fits(s)' /\ JoinsMakers(s) /\ DOMAIN task' = Clerk /\ \A t \in Clerk : task'[t] \in Task
  BY <1>2, ServeSets
<1>12. /\ tab' \in [Tab -> TabRow] /\ (\A u \in Tab : Exists(u) => Exists(u)')
       /\ edits' \in 0..MaxEdits
  BY <1>2, KitchenBoundAssumption DEF KitchenTypeOK, Exists, Edit
<1>13. (\A r \in DOMAIN rows : Exists(rows[r].ord))'
  BY <1>1, <1>2, <1>3, <1>4, <1>5, <1>6 DEF KitchenInv, KnownInv, Exists, Editable, OfOrder, Making
<1> QED
  BY <1>2, <1>7, <1>10, <1>11, <1>12, <1>13, LinesWrite

\* A finite set is listed by a sequence.
LEMMA SetToSeqIs ==
  ASSUME NEW S, IsFiniteSet(S)
  PROVE  SetToSeq(S) \in Seq(S)
<1>1. Cardinality(S) \in Nat /\ ExistsBijection(1..Cardinality(S), S)
  BY FS_CardinalityType
<1>2. \E f \in [1..Cardinality(S) -> S] : IsInjective(f)
  BY <1>1 DEF ExistsBijection, Bijection, Injection
<1>3. SetToSeq(S) \in [1..Cardinality(S) -> S]
  BY <1>2 DEF SetToSeq
<1> QED
  BY <1>1, <1>3, SeqDef

\* The rows of a new order, or those an order gets.
LEMMA NewRowsAre ==
  ASSUME NEW o \in Tab, NEW want \in [Dish \X Note -> 0..MaxQty]
  PROVE  /\ NewRows(o, want) \in Seq(Row)
         /\ \A i \in DOMAIN NewRows(o, want) :
              /\ NewRows(o, want)[i].ord = o /\ NewRows(o, want)[i].sent = 0
              /\ NewRows(o, want)[i].qty \in 1..MaxQty
<1> DEFINE S == {k \in Dish \X Note : want[k] > 0}
           keys == SetToSeq(S)
           new == [i \in DOMAIN keys |->
                     [ord |-> o, dish |-> keys[i][1], note |-> keys[i][2],
                      qty |-> want[keys[i]], sent |-> 0, live |-> TRUE, carried |-> FALSE]]
<1>1. IsFiniteSet(S)
  <2>1. IsFiniteSet(Dish \X Note)
    BY MenuAssumption, FS_Product
  <2> QED
    BY <2>1, FS_Subset
<1>2. keys \in Seq(S)
  BY <1>1, SetToSeqIs
<1>3. Len(keys) \in Nat /\ DOMAIN keys = 1..Len(keys) /\ \A i \in DOMAIN keys : keys[i] \in S
  BY <1>2, LenProperties, ElementOfSeq
<1>4. \A k \in S : k[1] \in Dish /\ k[2] \in Note /\ want[k] \in 1..MaxQty
  BY KitchenBoundAssumption
<1> HIDE DEF S, keys
<1>5. \A i \in DOMAIN keys : new[i] \in Row
  BY <1>3, <1>4, KitchenBoundAssumption DEF Row
<1>6. new \in [1..Len(keys) -> Row]
  BY <1>3, <1>5
<1>7. new \in Seq(Row)
  BY <1>3, <1>6, SeqDef
<1>8. \A i \in DOMAIN new : new[i].ord = o /\ new[i].sent = 0 /\ new[i].qty \in 1..MaxQty
  BY <1>3, <1>4
<1>9. NewRows(o, want) = new
  BY DEF NewRows, keys, S
<1> HIDE DEF new
<1> QED
  BY <1>7, <1>8, <1>9

\* The rows a step inserts after those there are, and their quantities.
Inserts(f, g, new) ==
  /\ f \in [DOMAIN rows -> Row] /\ new \in Seq(Row)
  /\ \A i \in DOMAIN new : new[i].qty \in 1..MaxQty
  /\ DOMAIN g = DOMAIN new /\ g = [i \in DOMAIN new |-> g[i]]
  /\ \A i \in DOMAIN new : g[i] \in Row
  /\ Len(rows) + Len(new) <= MaxRows /\ rows' = f \o g

LEMMA Inserted ==
  ASSUME KitchenTypeOK, NEW f, NEW g, NEW new, NEW items, Inserts(f, g, new),
         items = Quantities(new, Len(rows))
  PROVE  /\ rows' \in Seq(Row) /\ Len(rows') <= MaxRows
         /\ DOMAIN rows \subseteq DOMAIN rows' /\ DOMAIN rows' \subseteq RowId
         /\ \A r \in DOMAIN rows : rows'[r] = f[r]
         /\ \A r \in DOMAIN rows' \ DOMAIN rows :
              /\ r - Len(rows) \in DOMAIN new /\ rows'[r] = g[r - Len(rows)]
              /\ items[r] = new[r - Len(rows)].qty
         /\ items \in [RowId -> 0..MaxQty]
         /\ \A r \in RowId : r \notin DOMAIN rows' \ DOMAIN rows => items[r] = 0
<1>1. /\ f \in [DOMAIN rows -> Row] /\ new \in Seq(Row) /\ DOMAIN g = DOMAIN new
      /\ g = [i \in DOMAIN new |-> g[i]]
      /\ \A i \in DOMAIN new : g[i] \in Row /\ new[i].qty \in 1..MaxQty
      /\ Len(rows) + Len(new) <= MaxRows /\ rows' = f \o g
  BY DEF Inserts
<1>2. Len(new) \in Nat /\ DOMAIN new = 1..Len(new)
  BY <1>1, LenProperties
<1>3. g \in [1..Len(new) -> Row]
  BY <1>1, <1>2
<1>4. g \in Seq(Row)
  BY <1>2, <1>3, SeqDef
<1>5. Len(g) = Len(new)
  <2>1. Len(g) \in Nat /\ DOMAIN g = 1..Len(g)
    BY <1>4, LenProperties
  <2> QED
    BY <1>1, <1>2, <2>1
<1>6. Len(rows) + Len(g) <= MaxRows
  BY <1>1, <1>5
<1>7. /\ rows' \in Seq(Row) /\ Len(rows') <= MaxRows
      /\ DOMAIN rows \subseteq DOMAIN rows' /\ DOMAIN rows' \subseteq RowId
      /\ \A r \in DOMAIN rows : rows'[r] = f[r]
      /\ \A r \in DOMAIN rows' \ DOMAIN rows :
           r - Len(rows) \in DOMAIN g /\ rows'[r] = g[r - Len(rows)]
      /\ \A r \in RowId : r - Len(rows) \in DOMAIN g <=> r \in DOMAIN rows' \ DOMAIN rows
  BY <1>1, <1>4, <1>6, RowsMore
<1>8. ASSUME NEW r \in RowId
      PROVE  /\ items[r] \in 0..MaxQty
             /\ r \in DOMAIN rows' \ DOMAIN rows => items[r] = new[r - Len(rows)].qty
             /\ r \notin DOMAIN rows' \ DOMAIN rows => items[r] = 0
  <2>1. items[r] = IF r - Len(rows) \in DOMAIN new THEN new[r - Len(rows)].qty ELSE 0
    BY DEF Quantities
  <2>2. r - Len(rows) \in DOMAIN new <=> r \in DOMAIN rows' \ DOMAIN rows
    BY <1>1, <1>7
  <2>3. r - Len(rows) \in DOMAIN new => new[r - Len(rows)].qty \in 1..MaxQty
    BY <1>1
  <2> QED
    BY <2>1, <2>2, <2>3, KitchenBoundAssumption
<1>9. items \in [RowId -> 0..MaxQty]
  BY <1>8 DEF Quantities
<1> QED
  BY <1>1, <1>7, <1>8, <1>9

\* The peak of new rows is what they are created with.
LEMMA Peaks ==
  ASSUME KitchenInv, NEW items, NEW up, items \in [RowId -> 0..MaxQty], up \subseteq RowId \ DOMAIN rows,
         \A r \in RowId : r \notin up => items[r] = 0,
         peak' = [r \in RowId |-> peak[r] + items[r]]
  PROVE  /\ peak' \in [RowId -> 0..MaxQty]
         /\ \A r \in RowId : peak[r] <= peak'[r] /\ (r \notin up => peak'[r] = peak[r])
         /\ \A r \in up : peak'[r] = items[r]
<1>1. \A r \in RowId : peak[r] \in 0..MaxQty /\ items[r] \in 0..MaxQty
  BY DEF KitchenInv, KitchenTypeOK
<1>2. \A r \in up : peak[r] = 0 /\ r \in RowId
  BY FreshHistory
<1>3. ASSUME NEW r \in RowId
      PROVE  /\ peak'[r] \in 0..MaxQty /\ peak[r] <= peak'[r]
             /\ r \notin up => peak'[r] = peak[r]
             /\ r \in up => peak'[r] = items[r]
  <2>1. peak'[r] = peak[r] + items[r]
    OBVIOUS
  <2>2. CASE r \in up
    BY <1>1, <1>2, <2>1, <2>2, KitchenBoundAssumption
  <2>3. CASE r \notin up
    <3>1. items[r] = 0
      BY <2>3
    <3> QED
      BY <1>1, <2>1, <2>3, <3>1, KitchenBoundAssumption
  <2> QED
    BY <2>2, <2>3
<1>4. peak' \in [RowId -> 0..MaxQty]
  BY <1>3
<1> QED
  BY <1>2, <1>3, <1>4

\* The rows of an order that did not exist, and the peak they are created with.
Creates(o, g, new, items) ==
  /\ ~Exists(o) /\ Inserts(rows, g, new) /\ items = Quantities(new, Len(rows))
  /\ \A i \in DOMAIN new : g[i].ord = o /\ g[i].qty = new[i].qty
  /\ tab' = [tab EXCEPT ![o].status = "PENDING"]
  /\ peak' = [r \in RowId |-> peak[r] + items[r]]

LEMMA Created ==
  ASSUME KitchenInv, NEW o \in Tab, NEW g, NEW new, NEW items, Creates(o, g, new, items)
  PROVE  /\ rows' \in Seq(Row) /\ Len(rows') <= MaxRows
         /\ DOMAIN rows \subseteq DOMAIN rows' /\ DOMAIN rows' \subseteq RowId
         /\ \A r \in DOMAIN rows : rows'[r] = rows[r] /\ items[r] = 0 /\ peak'[r] = peak[r]
         /\ \A r \in DOMAIN rows' \ DOMAIN rows :
              /\ r - Len(rows) \in DOMAIN new /\ rows'[r] = g[r - Len(rows)]
              /\ rows'[r].ord = o /\ rows'[r].qty = items[r] /\ peak'[r] = items[r]
         /\ items \in [RowId -> 0..MaxQty]
         /\ \A r \in RowId : r \notin DOMAIN rows' \ DOMAIN rows => items[r] = 0
         /\ peak' \in [RowId -> 0..MaxQty] /\ \A r \in RowId : peak[r] <= peak'[r]
         /\ \A r \in RowId \ DOMAIN rows' : peak'[r] = peak[r]
         /\ tab' \in [Tab -> TabRow] /\ \A u \in Tab : Exists(u) => Exists(u)'
         /\ Exists(o)' /\ (\A r \in DOMAIN rows : Exists(rows[r].ord))'
<1>1. KitchenTypeOK /\ Inserts(rows, g, new) /\ items = Quantities(new, Len(rows))
  BY DEF Creates, KitchenInv
<1>2. /\ rows' \in Seq(Row) /\ Len(rows') <= MaxRows
      /\ DOMAIN rows \subseteq DOMAIN rows' /\ DOMAIN rows' \subseteq RowId
      /\ \A r \in DOMAIN rows : rows'[r] = rows[r]
      /\ \A r \in DOMAIN rows' \ DOMAIN rows :
           /\ r - Len(rows) \in DOMAIN new /\ rows'[r] = g[r - Len(rows)]
           /\ items[r] = new[r - Len(rows)].qty
      /\ items \in [RowId -> 0..MaxQty]
      /\ \A r \in RowId : r \notin DOMAIN rows' \ DOMAIN rows => items[r] = 0
  BY <1>1, Inserted
<1>3. /\ peak' \in [RowId -> 0..MaxQty]
      /\ \A r \in RowId : /\ peak[r] <= peak'[r]
                          /\ r \notin DOMAIN rows' \ DOMAIN rows => peak'[r] = peak[r]
      /\ \A r \in DOMAIN rows' \ DOMAIN rows : peak'[r] = items[r]
  <2>1. peak' = [r \in RowId |-> peak[r] + items[r]]
    BY DEF Creates
  <2>2. DOMAIN rows' \ DOMAIN rows \subseteq RowId \ DOMAIN rows
    BY <1>2
  <2> QED
    BY <1>2, <2>1, <2>2, Peaks
<1>4. \A r \in DOMAIN rows' \ DOMAIN rows : rows'[r].ord = o /\ rows'[r].qty = items[r]
  BY <1>2 DEF Creates
<1>5. /\ tab' \in [Tab -> TabRow] /\ (\A u \in Tab : Exists(u) => Exists(u)') /\ Exists(o)'
  <2>1. tab \in [Tab -> TabRow] /\ tab' = [tab EXCEPT ![o].status = "PENDING"]
    BY <1>1 DEF Creates, KitchenTypeOK
  <2> QED
    BY <2>1 DEF TabRow, Exists
<1>6. (\A r \in DOMAIN rows : Exists(rows[r].ord))'
  <2>1. ASSUME NEW r \in DOMAIN rows' PROVE (Exists(rows[r].ord))'
    <3>1. CASE r \in DOMAIN rows
      <4>1. rows'[r] = rows[r] /\ Exists(rows[r].ord) /\ rows[r].ord \in Tab
        BY <1>1, <1>2, <3>1, RowsListed DEF KitchenInv, KnownInv, Row, OfOrder, Making
      <4> QED
        BY <1>5, <4>1 DEF Exists
    <3>2. CASE r \notin DOMAIN rows
      BY <1>4, <1>5, <3>2 DEF Exists
    <3> QED
      BY <3>1, <3>2
  <2> QED
    BY <2>1
<1> QED
  BY <1>2, <1>3, <1>4, <1>5, <1>6

\* A new order with no ticket yet.
LEMMA CreatedBare ==
  ASSUME KitchenInv, NEW s \in Clerk, NEW o \in Tab, NEW new, NEW items,
         Creates(o, new, new, items), \A i \in DOMAIN new : new[i].sent = 0,
         UNCHANGED <<tickets, told, edits, raced>>,
         \A t \in Clerk : task'[t] \in Task, DOMAIN task' = Clerk,
         \A t \in Clerk \ {s} : task'[t] = task[t], Fits(s)', JoinsMakers(s)
  PROVE  KitchenInv'
<1>1. KitchenTypeOK
  BY DEF KitchenInv
<1>2. Keeps({})
  BY <1>1, KeepsAll
<1>3. Lines({})
  <2>1. \A r \in DOMAIN rows : /\ rows[r].live => rows[r].qty <= peak[r]
                               /\ rows[r].live /\ ~rows[r].carried => rows[r].sent <= History(r)
    BY DEF KitchenInv, ToldInv, SentIsOnTickets
  <2>2. /\ rows' \in Seq(Row) /\ Len(rows') <= MaxRows
        /\ DOMAIN rows \subseteq DOMAIN rows'
        /\ \A r \in DOMAIN rows : rows'[r] = rows[r] /\ peak'[r] = peak[r]
        /\ \A r \in DOMAIN rows' \ DOMAIN rows :
             /\ r - Len(rows) \in DOMAIN new /\ rows'[r] = new[r - Len(rows)]
             /\ rows'[r].qty = items[r] /\ peak'[r] = items[r]
        /\ items \in [RowId -> 0..MaxQty] /\ DOMAIN rows' \subseteq RowId
        /\ peak' \in [RowId -> 0..MaxQty] /\ \A r \in RowId : peak[r] <= peak'[r]
        /\ \A r \in RowId \ DOMAIN rows' : peak'[r] = peak[r]
    BY Created
  <2>3. \A r \in DOMAIN rows' \ DOMAIN rows : rows'[r].qty <= peak'[r] /\ rows'[r].sent = 0
    BY <2>2, KitchenBoundAssumption
  <2>4. \A r \in DOMAIN rows :
          /\ rows'[r].ord = rows[r].ord
          /\ rows'[r].live => rows[r].live /\ rows'[r].qty <= peak'[r]
          /\ rows[r].carried => rows'[r].carried
          /\ rows'[r].live /\ ~rows'[r].carried => rows'[r].sent <= History(r)
    BY <2>1, <2>2
  <2> QED
    BY <2>2, <2>3, <2>4 DEF Lines
<1>4. /\ tab' \in [Tab -> TabRow] /\ (\A u \in Tab : Exists(u) => Exists(u)')
      /\ (\A r \in DOMAIN rows : Exists(rows[r].ord))'
  BY Created
<1>5. edits' \in 0..MaxEdits /\ raced' = raced /\ told' = told /\ {} \in SUBSET DOMAIN rows
  BY <1>1 DEF KitchenTypeOK
<1> QED
  BY <1>2, <1>3, <1>4, <1>5, LinesWrite

\* A new order whose ticket is made with it.
LEMMA CreatedTold ==
  ASSUME KitchenInv, NEW s \in Clerk, NEW o \in Tab, NEW g, NEW new, NEW items,
         Creates(o, g, new, items), \A i \in DOMAIN new : g[i].sent = new[i].qty,
         Len(tickets) < MaxTickets, PutOut(o, items),
         UNCHANGED <<edits, raced>>,
         \A t \in Clerk : task'[t] \in Task, DOMAIN task' = Clerk,
         \A t \in Clerk \ {s} : task'[t] = task[t], Fits(s)', JoinsMakers(s)
  PROVE  KitchenInv'
<1>1. KitchenTypeOK /\ DOMAIN rows \subseteq RowId /\ \A r \in DOMAIN rows : rows[r] \in Row
  BY RowsListed DEF KitchenInv
<1>2. /\ rows' \in Seq(Row) /\ Len(rows') <= MaxRows
      /\ DOMAIN rows \subseteq DOMAIN rows' /\ DOMAIN rows' \subseteq RowId
      /\ \A r \in DOMAIN rows : rows'[r] = rows[r] /\ items[r] = 0 /\ peak'[r] = peak[r]
      /\ \A r \in DOMAIN rows' \ DOMAIN rows :
           /\ r - Len(rows) \in DOMAIN new /\ rows'[r] = g[r - Len(rows)]
           /\ rows'[r].qty = items[r] /\ peak'[r] = items[r]
      /\ items \in [RowId -> 0..MaxQty]
      /\ \A r \in RowId : r \notin DOMAIN rows' \ DOMAIN rows => items[r] = 0
      /\ peak' \in [RowId -> 0..MaxQty] /\ \A r \in RowId : peak[r] <= peak'[r]
      /\ \A r \in RowId \ DOMAIN rows' : peak'[r] = peak[r]
      /\ tab' \in [Tab -> TabRow] /\ (\A u \in Tab : Exists(u) => Exists(u)')
      /\ (\A r \in DOMAIN rows : Exists(rows[r].ord))'
  BY Created
<1>3. ASSUME NEW r \in DOMAIN rows' \ DOMAIN rows PROVE rows'[r].sent = items[r]
  <2>1. PICK i : i = r - Len(rows)
    OBVIOUS
  <2>2. i \in DOMAIN new /\ rows'[r] = g[i] /\ rows'[r].qty = items[r]
    BY <1>2, <2>1
  <2>3. g[i].qty = new[i].qty /\ g[i].sent = new[i].qty
    BY <2>2 DEF Creates
  <2> QED
    BY <2>2, <2>3
<1>4. /\ tickets' \in Seq(Ticket) /\ Len(tickets') <= MaxTickets /\ told' \in [RowId -> Nat]
      /\ DOMAIN tickets' = DOMAIN tickets \cup {Len(tickets) + 1}
      /\ \A k \in DOMAIN tickets : tickets'[k] = tickets[k]
      /\ tickets'[Len(tickets) + 1].items = items
      /\ \A r \in RowId : History(r)' = History(r) + items[r] /\ told'[r] = told[r] + items[r]
  BY <1>1, <1>2, PutsOut
<1>5. \A r \in RowId : History(r) \in Nat /\ told[r] \in Nat /\ items[r] \in Nat /\ peak[r] \in Nat
  BY <1>1, <1>2, HistoryNat, KitchenBoundAssumption DEF KitchenTypeOK
<1>6. \A r \in DOMAIN rows : History(r)' = History(r) /\ told'[r] = told[r] /\ History(r) \in Nat
  BY <1>1, <1>2, <1>4, <1>5
<1>7. \A r \in DOMAIN rows' \ DOMAIN rows :
        History(r)' = items[r] /\ told'[r] = items[r] /\ items[r] \in Nat
  <2>1. ASSUME NEW r \in DOMAIN rows' \ DOMAIN rows
        PROVE  History(r)' = items[r] /\ told'[r] = items[r] /\ items[r] \in Nat
    <3>1. r \in RowId \ DOMAIN rows
      BY <1>2
    <3>2. History(r) = 0 /\ told[r] = 0
      BY <3>1, FreshHistory
    <3> QED
      BY <1>4, <1>5, <3>1, <3>2
  <2> QED
    BY <2>1
<1>8. KitchenTypeOK'
  BY <1>1, <1>2, <1>4 DEF KitchenTypeOK
<1>9. Grows(s)
  <2>1. \A r \in DOMAIN rows : rows'[r] = rows[r] /\ History(r) <= History(r)'
    BY <1>2, <1>6
  <2>2. \A r \in RowId : told'[r] # told[r] => r \notin DOMAIN rows
    BY <1>6
  <2> QED
    BY <1>2, <1>4, <2>1, <2>2 DEF Grows
<1>10. FreshInv'
  <2> SUFFICES ASSUME NEW r \in RowId \ DOMAIN rows'
               PROVE  /\ told'[r] = 0 /\ peak'[r] = 0
                      /\ \A k \in DOMAIN tickets' : tickets'[k].items[r] = 0
    BY DEF FreshInv
  <2>1. r \notin DOMAIN rows /\ items[r] = 0 /\ peak'[r] = peak[r]
    BY <1>2
  <2>2. told[r] = 0 /\ peak[r] = 0 /\ \A k \in DOMAIN tickets : tickets[k].items[r] = 0
    BY <2>1 DEF KitchenInv, FreshInv
  <2>3. \A k \in DOMAIN tickets' : tickets'[k].items[r] = 0
    BY <1>4, <2>1, <2>2
  <2> QED
    BY <1>4, <2>1, <2>2, <2>3
<1>11. ToldInv'
  <2>1. \A r \in DOMAIN rows : rows[r].live => told[r] = History(r) /\ rows[r].qty <= peak[r]
    BY DEF KitchenInv, ToldInv
  <2>2. ASSUME NEW r \in DOMAIN rows', rows'[r].live
        PROVE  told'[r] = History(r)' /\ rows'[r].qty <= peak'[r]
    <3>1. CASE r \in DOMAIN rows
      BY <1>2, <1>6, <2>1, <2>2, <3>1
    <3>2. CASE r \notin DOMAIN rows
      BY <1>2, <1>7, <3>2
    <3> QED
      BY <3>1, <3>2
  <2> QED
    BY <2>2 DEF ToldInv
<1>12. NothingSentTwice'
  <2>1. ASSUME NEW r \in DOMAIN rows', rows'[r].ord \notin raced PROVE told'[r] <= peak'[r]
    <3>1. CASE r \in DOMAIN rows
      BY <1>2, <1>6, <2>1, <3>1 DEF KitchenInv, NothingSentTwice
    <3>2. CASE r \notin DOMAIN rows
      BY <1>2, <1>7, <3>2
    <3> QED
      BY <3>1, <3>2
  <2> QED
    BY <2>1 DEF NothingSentTwice
<1>13. SentIsOnTickets'
  <2>1. ASSUME NEW r \in DOMAIN rows', rows'[r].live, ~rows'[r].carried
        PROVE  rows'[r].sent <= History(r)'
    <3>1. CASE r \in DOMAIN rows
      BY <1>2, <1>6, <2>1, <3>1 DEF KitchenInv, SentIsOnTickets
    <3>2. CASE r \notin DOMAIN rows
      BY <1>3, <1>7, <3>2
    <3> QED
      BY <3>1, <3>2
  <2> QED
    BY <2>1 DEF SentIsOnTickets
<1> QED
  BY <1>2, <1>8, <1>9, <1>10, <1>11, <1>12, <1>13, WriteStep

LEMMA CreateOrderStep ==
  ASSUME KitchenInv, NEW s \in Clerk, CreateOrder(s)
  PROVE  KitchenInv'
<1>1. PICK o \in Tab, want \in Wanted :
        LET new   == NewRows(o, want)
            items == Quantities(new, Len(rows))
        IN
        /\ ~Exists(o)
        /\ Len(rows) + Len(new) <= MaxRows
        /\ tab' = [tab EXCEPT ![o].status = "PENDING"]
        /\ peak' = [r \in RowId |-> peak[r] + items[r]]
        /\ \/ /\ Len(tickets) < MaxTickets
              /\ rows' = rows \o [i \in DOMAIN new |-> [new[i] EXCEPT !.sent = new[i].qty]]
              /\ PutOut(o, items)
              /\ UNCHANGED task
           \/ /\ rows' = rows \o new
              /\ Ask(s, [NoTask EXCEPT !.op = "create", !.phase = "opened",
                           !.ord = o, !.take = items])
              /\ UNCHANGED <<tickets, told>>
           \/ /\ rows' = rows \o new
              /\ UNCHANGED <<tickets, told, task>>
  BY DEF CreateOrder
<1> DEFINE new == NewRows(o, want)
           items == Quantities(new, Len(rows))
           g == [i \in DOMAIN new |-> [new[i] EXCEPT !.sent = new[i].qty]]
           w == [NoTask EXCEPT !.op = "create", !.phase = "opened", !.ord = o, !.take = items]
<1>2. MayServe(s, "create") /\ UNCHANGED <<edits, raced>> /\ KitchenTypeOK
  BY DEF CreateOrder, KitchenInv
<1>3. /\ new \in Seq(Row)
      /\ \A i \in DOMAIN new : new[i].ord = o /\ new[i].sent = 0 /\ new[i].qty \in 1..MaxQty
  BY NewRowsAre DEF Wanted
<1>4. /\ ~Exists(o) /\ Len(rows) + Len(new) <= MaxRows
      /\ tab' = [tab EXCEPT ![o].status = "PENDING"]
      /\ peak' = [r \in RowId |-> peak[r] + items[r]]
      /\ \/ /\ Len(tickets) < MaxTickets /\ rows' = rows \o g /\ PutOut(o, items)
            /\ task' = task
         \/ rows' = rows \o new /\ Ask(s, w) /\ tickets' = tickets /\ told' = told
         \/ rows' = rows \o new /\ tickets' = tickets /\ told' = told /\ task' = task
  BY <1>1
<1>5. \A i \in DOMAIN new : new[i] \in Row
  BY <1>3, LenProperties, ElementOfSeq
<1>6. rows \in [DOMAIN rows -> Row]
  <2>1. Len(rows) \in Nat /\ rows \in [1..Len(rows) -> Row] /\ DOMAIN rows = 1..Len(rows)
    BY <1>2, LenProperties DEF KitchenTypeOK
  <2> QED
    BY <2>1
<1>7. /\ DOMAIN g = DOMAIN new /\ g = [i \in DOMAIN new |-> g[i]]
      /\ \A i \in DOMAIN new : /\ g[i] \in Row /\ g[i].ord = o /\ g[i].qty = new[i].qty
                               /\ g[i].sent = new[i].qty
  <2>1. DOMAIN g = DOMAIN new /\ \A i \in DOMAIN new : g[i] = [new[i] EXCEPT !.sent = new[i].qty]
    OBVIOUS
  <2>2. g = [i \in DOMAIN new |-> g[i]]
    OBVIOUS
  <2> HIDE DEF g, new
  <2>3. ASSUME NEW i \in DOMAIN new
        PROVE  /\ g[i] \in Row /\ g[i].ord = o /\ g[i].qty = new[i].qty
               /\ g[i].sent = new[i].qty
    <3>1. new[i] \in Row /\ new[i].qty \in 0..MaxQty /\ new[i].ord = o
      BY <1>3, <1>5, KitchenBoundAssumption
    <3>2. g[i] = [new[i] EXCEPT !.sent = new[i].qty]
      BY <2>1
    <3> QED
      BY <3>1, <3>2 DEF Row
  <2> QED
    BY <2>1, <2>2, <2>3
<1>8. new = [i \in DOMAIN new |-> new[i]]
  <2>1. new \in [1..Len(new) -> Row] /\ DOMAIN new = 1..Len(new)
    BY <1>3, LenProperties
  <2> HIDE DEF new
  <2> QED
    BY <2>1
<1> HIDE DEF new, g, w
<1>9. CASE Len(tickets) < MaxTickets /\ rows' = rows \o g /\ PutOut(o, items) /\ task' = task
  <2>1. Inserts(rows, g, new)
    BY <1>3, <1>4, <1>6, <1>7, <1>9 DEF Inserts
  <2>2. Creates(o, g, new, items)
    BY <1>4, <1>7, <2>1 DEF Creates
  <2>3. /\ Fits(s)' /\ JoinsMakers(s) /\ DOMAIN task' = Clerk /\ \A t \in Clerk : task'[t] \in Task
    BY <1>2, <1>9, ServeSets
  <2> HIDE DEF items
  <2> QED
    BY <1>2, <1>7, <1>9, <2>2, <2>3, CreatedTold
<1>10. ASSUME rows' = rows \o new PROVE Creates(o, new, new, items)
  <2>1. Inserts(rows, new, new)
    BY <1>3, <1>4, <1>5, <1>6, <1>8, <1>10 DEF Inserts
  <2> QED
    BY <1>3, <1>4, <2>1 DEF Creates
<1>11. CASE rows' = rows \o new /\ tickets' = tickets /\ told' = told /\ task' = task
  <2>1. /\ Fits(s)' /\ JoinsMakers(s) /\ DOMAIN task' = Clerk /\ \A t \in Clerk : task'[t] \in Task
    BY <1>2, <1>11, ServeSets
  <2>2. Creates(o, new, new, items)
    BY <1>10, <1>11
  <2> HIDE DEF items
  <2> QED
    BY <1>2, <1>3, <1>11, <2>1, <2>2, CreatedBare
<1>12. CASE rows' = rows \o new /\ Ask(s, w) /\ tickets' = tickets /\ told' = told
  <2>1. Creates(o, new, new, items)
    BY <1>10, <1>12
  <2> HIDE DEF items
  <2>2. /\ DOMAIN rows' \subseteq RowId
        /\ \A r \in DOMAIN rows' \ DOMAIN rows : rows'[r].ord = o /\ peak'[r] = items[r]
        /\ items \in [RowId -> 0..MaxQty]
        /\ \A r \in RowId : r \notin DOMAIN rows' \ DOMAIN rows => items[r] = 0
        /\ Exists(o)'
    BY <2>1, Created
  <2>3. /\ w \in Task /\ w.op = "create" /\ w.phase = "opened" /\ w.ord = o /\ w.take = items
    BY <2>2, NoTaskType DEF w, Task, NoTask, AllKitchenOps
  <2>4. task'[s] = w /\ DOMAIN task' = Clerk /\ \A t \in Clerk \ {s} : task'[t] = task[t]
    BY <1>12, AskSets
  <2>5. \A t \in Clerk : task'[t] \in Task
    BY <1>2, <2>3, <2>4 DEF KitchenTypeOK
  <2>6. Fits(s)'
    <3>1. ASSUME NEW r \in RowId, items[r] > 0
          PROVE  /\ r \in DOMAIN rows' /\ rows'[r].ord = o /\ told'[r] + items[r] <= peak'[r]
      <4>1. r \in DOMAIN rows' \ DOMAIN rows /\ items[r] \in Nat
        BY <2>2, <3>1, KitchenBoundAssumption
      <4>2. told[r] = 0
        BY <4>1, FreshHistory
      <4> QED
        BY <1>12, <2>2, <4>1, <4>2
    <3>2. TakeOK(s)'
      BY <2>3, <2>4, <3>1 DEF TakeOK
    <3>3. /\ AutoOK(s)' /\ AskedOK(s)' /\ EditOK(s)' /\ IdleOK(s)'
      BY <2>3, <2>4 DEF AutoOK, AskedOK, EditOK, IdleOK, Making
    <3> QED
      BY <2>2, <2>3, <2>4, <3>2, <3>3 DEF Fits, Exists
  <2>7. JoinsMakers(s)
    <3>1. ASSUME NEW t \in Clerk \ {s}, Making(t), task[t].ord = o PROVE FALSE
      BY <1>4, <3>1 DEF KitchenInv, KnownInv, OfOrder, Making
    <3> QED
      BY <2>3, <2>4, <3>1 DEF JoinsMakers, Making
  <2> QED
    BY <1>2, <1>3, <1>12, <2>1, <2>4, <2>5, <2>6, <2>7, CreatedBare
<1> QED
  BY <1>4, <1>9, <1>11, <1>12

\* What was read as sent of a dish is added up.
LEMMA SentOfNat ==
  ASSUME KitchenTypeOK, NEW s \in Clerk, NEW d
  PROVE  SentOf(s, d) \in Nat
<1> DEFINE D == DOMAIN rows
           q == [r \in D |-> r]
           w == [r \in D |-> IF rows[r].dish = d THEN task[s].base[r] ELSE 0]
           c == [u \in SUBSET D |-> Max(u)]
           f == CHOOSE h : h = [u \in SUBSET DOMAIN q |->
                  IF u = {} THEN 0
                  ELSE h[u \ {Max(u)}] + IF rows[q[Max(u)]].dish = d
                                         THEN task[s].base[q[Max(u)]] ELSE 0]
<1>1. SentOf(s, d) = f[DOMAIN q]
  BY DEF SentOf, FoldLeft, MapThenFoldSet
<1>2. IsFiniteSet(D) /\ D \subseteq Nat /\ D \subseteq RowId
  <2>1. D = 1..Len(rows) /\ Len(rows) \in Nat /\ D \subseteq RowId
    BY RowsListed
  <2> QED
    BY <2>1, FS_Interval, SMTT(30)
<1>3. Picks(c, D)
  <2>1. ASSUME NEW u \in SUBSET D, u # {} PROVE Max(u) \in u
    <3>1. IsFiniteSet(u) /\ u \subseteq Nat
      BY <1>2, FS_Subset
    <3> QED
      BY <2>1, <3>1, LargestExists DEF Max
  <2> QED
    BY <2>1 DEF Picks
<1>4. \A r \in D : w[r] \in Nat
  <2>1. \A r \in D : task[s].base[r] \in Nat
    BY <1>2 DEF KitchenTypeOK, Task
  <2> QED
    BY <2>1
<1>5. ASSUME NEW h
      PROVE  AddsTo(h, D, w, c) <=>
               h = [u \in SUBSET DOMAIN q |->
                      IF u = {} THEN 0
                      ELSE h[u \ {Max(u)}] + IF rows[q[Max(u)]].dish = d
                                             THEN task[s].base[q[Max(u)]] ELSE 0]
  <2>1. ASSUME NEW u \in SUBSET D, u # {}
        PROVE  /\ c[u] = Max(u) /\ q[Max(u)] = Max(u)
               /\ w[c[u]] = IF rows[q[Max(u)]].dish = d THEN task[s].base[q[Max(u)]] ELSE 0
    BY <1>3, <2>1 DEF Picks
  <2>2. DOMAIN q = D
    OBVIOUS
  <2> HIDE DEF D, w, c, q
  <2> QED
    BY <2>1, <2>2 DEF AddsTo
<1>6. AddsTo(f, D, w, c)
  <2>1. \A r \in D : w[r] \in Int
    BY <1>4
  <2> HIDE DEF D, w, c, q
  <2> QED
    BY <1>2, <1>3, <2>1, <1>5, FoldExists
<1>7. f[D] = Total(D, w)
  <2>1. \A r \in D : w[r] \in Int
    BY <1>4
  <2> HIDE DEF D, w, c, f
  <2> QED
    BY <1>2, <1>3, <2>1, <1>6, FoldIs
<1>8. DOMAIN q = D
  OBVIOUS
<1> HIDE DEF D, w, c, f, q
<1>9. Total(D, w) \in Nat
  BY <1>2, <1>4, TotalNat
<1> QED
  BY <1>1, <1>7, <1>8, <1>9

\* Capped at a quantity, it fits a row.
LEMMA SentFits ==
  ASSUME KitchenTypeOK, NEW s \in Clerk, NEW d, NEW q \in 1..MaxQty
  PROVE  AtMost(SentOf(s, d), q) \in 0..MaxQty
BY SentOfNat, KitchenBoundAssumption DEF AtMost

\* updateOrder: rows kept in place, deleted and inserted.
LEMMA ReplaceStep ==
  ASSUME KitchenInv, NEW s \in Clerk, Replace(s)
  PROVE  KitchenInv'
<1> DEFINE o == task[s].ord
           Key(r) == <<rows[r].dish, rows[r].note>>
           first == {r \in RowsOf(o) : \A q \in RowsOf(o) : Key(q) = Key(r) => r <= q}
           Sent(d, q) == AtMost(SentOf(s, d), q)
<1>1. PICK want \in Wanted :
        LET kept == {r \in first : want[Key(r)] > 0}
            gone == RowsOf(o) \ kept
            new  == NewRows(o, [k \in Dish \X Note |->
                      IF \E r \in kept : Key(r) = k THEN 0 ELSE want[k]])
            add  == Quantities(new, Len(rows))
        IN
        /\ Len(rows) + Len(new) <= MaxRows
        /\ rows' = [r \in DOMAIN rows |->
                      CASE r \in kept -> [rows[r] EXCEPT !.qty = want[Key(r)],
                             !.sent = Sent(rows[r].dish, want[Key(r)]),
                             !.carried = TRUE]
                        [] r \in gone -> [rows[r] EXCEPT !.live = FALSE]
                        [] OTHER -> rows[r]]
                   \o [i \in DOMAIN new |-> [new[i] EXCEPT
                         !.sent = Sent(new[i].dish, new[i].qty),
                         !.carried = TRUE]]
        /\ tickets' = WithoutRows(tickets, gone)
        /\ peak' = [r \in RowId |->
                      IF r \in kept /\ want[Key(r)] > peak[r] THEN want[Key(r)]
                      ELSE peak[r] + add[r]]
  BY DEF Replace
<1> DEFINE kept == {r \in first : want[Key(r)] > 0}
           gone == RowsOf(o) \ kept
           rest == [k \in Dish \X Note |-> IF \E r \in kept : Key(r) = k THEN 0 ELSE want[k]]
           new  == NewRows(o, rest)
           add  == Quantities(new, Len(rows))
           f == [r \in DOMAIN rows |->
                   CASE r \in kept -> [rows[r] EXCEPT !.qty = want[Key(r)],
                          !.sent = Sent(rows[r].dish, want[Key(r)]),
                          !.carried = TRUE]
                     [] r \in gone -> [rows[r] EXCEPT !.live = FALSE]
                     [] OTHER -> rows[r]]
           g == [i \in DOMAIN new |-> [new[i] EXCEPT !.sent = Sent(new[i].dish, new[i].qty),
                                                     !.carried = TRUE]]
<1>2. /\ task[s].op = "replace" /\ Reply(s) /\ UNCHANGED <<tab, edits, raced, told>>
      /\ KitchenTypeOK /\ o \in Tab /\ Exists(o)
  BY DEF Replace, KitchenInv, KnownInv, OfOrder
<1>3. /\ Len(rows) + Len(new) <= MaxRows /\ rows' = f \o g
      /\ tickets' = WithoutRows(tickets, gone)
      /\ peak' = [r \in RowId |->
                    IF r \in kept /\ want[Key(r)] > peak[r] THEN want[Key(r)]
                    ELSE peak[r] + add[r]]
  BY <1>1
<1>4. DOMAIN rows \subseteq RowId /\ \A r \in DOMAIN rows : rows[r] \in Row
  BY <1>2, RowsListed
<1>5. \A r \in DOMAIN rows : want[Key(r)] \in 0..MaxQty
  <2>1. want \in [Dish \X Note -> 0..MaxQty]
    BY DEF Wanted
  <2>2. \A r \in DOMAIN rows : Key(r) \in Dish \X Note
    BY <1>4 DEF Row
  <2> QED
    BY <2>1, <2>2
<1>6. /\ kept \subseteq DOMAIN rows /\ gone \subseteq DOMAIN rows /\ kept \cap gone = {}
      /\ \A r \in kept : /\ rows[r].live /\ rows[r].ord = o
                         /\ want[Key(r)] \in 1..MaxQty
      /\ \A r \in gone : rows[r].live
  <2>1. RowsOf(o) \subseteq DOMAIN rows /\ \A r \in RowsOf(o) : rows[r].live /\ rows[r].ord = o
    BY DEF RowsOf
  <2>2. kept \subseteq RowsOf(o) /\ \A r \in kept : want[Key(r)] > 0
    OBVIOUS
  <2>3. \A r \in kept : want[Key(r)] \in 1..MaxQty
    <3> HIDE DEF kept, Key
    <3> QED
      BY <1>5, <2>1, <2>2, KitchenBoundAssumption
  <2> HIDE DEF kept, Key, o
  <2> QED
    BY <2>1, <2>2, <2>3
<1>7. /\ new \in Seq(Row)
      /\ \A i \in DOMAIN new : new[i].ord = o /\ new[i].qty \in 1..MaxQty
  <2>1. rest \in [Dish \X Note -> 0..MaxQty]
    <3>1. want \in [Dish \X Note -> 0..MaxQty]
      BY DEF Wanted
    <3> HIDE DEF kept, Key
    <3> QED
      BY <3>1, KitchenBoundAssumption
  <2> HIDE DEF rest, o
  <2> QED
    BY <1>2, <2>1, NewRowsAre
<1>8. \A i \in DOMAIN new : new[i] \in Row
  BY <1>7, LenProperties, ElementOfSeq
<1> HIDE DEF kept, gone, rest, new, o, first, Key
<1>9. ASSUME NEW r \in DOMAIN rows
      PROVE  /\ f[r] \in Row /\ f[r].ord = rows[r].ord
             /\ f[r].live => rows[r].live /\ r \notin gone
             /\ rows[r].carried => f[r].carried
             /\ r \in kept => f[r].qty = want[Key(r)] /\ f[r].carried
             /\ r \notin kept => f[r].qty = rows[r].qty /\ f[r].sent = rows[r].sent
                                 /\ f[r].carried = rows[r].carried
  <2>1. CASE r \in kept
    <3> DEFINE q == want[Key(r)]
               z == Sent(rows[r].dish, q)
    <3>1. f[r] = [rows[r] EXCEPT !.qty = q, !.sent = z, !.carried = TRUE]
      BY <1>6, <2>1
    <3>2. q \in 1..MaxQty /\ r \notin gone
      BY <1>6, <2>1
    <3>3. z \in 0..MaxQty
      BY <1>2, <3>2, SentFits
    <3>4. rows[r] \in Row
      BY <1>4
    <3> HIDE DEF q, z, f
    <3>5. f[r] \in Row /\ f[r].ord = rows[r].ord /\ f[r].live = rows[r].live
          /\ f[r].qty = q /\ f[r].carried
      BY <3>1, <3>2, <3>3, <3>4 DEF Row
    <3> QED
      BY <2>1, <3>2, <3>5 DEF q
  <2>2. CASE r \in gone
    <3>1. f[r] = [rows[r] EXCEPT !.live = FALSE] /\ r \notin kept
      BY <1>6, <2>2
    <3>2. rows[r] \in Row
      BY <1>4
    <3> HIDE DEF f
    <3> QED
      BY <3>1, <3>2 DEF Row
  <2>3. CASE r \notin kept /\ r \notin gone
    <3>1. f[r] = rows[r]
      BY <2>3
    <3>2. rows[r] \in Row
      BY <1>4
    <3> HIDE DEF f
    <3> QED
      BY <2>3, <3>1, <3>2 DEF Row
  <2> QED
    BY <2>1, <2>2, <2>3
<1>10. f \in [DOMAIN rows -> Row]
  BY <1>9
<1>11. /\ DOMAIN g = DOMAIN new /\ g = [i \in DOMAIN new |-> g[i]]
       /\ \A i \in DOMAIN new : g[i] \in Row /\ g[i].ord = o /\ g[i].qty = new[i].qty /\ g[i].carried
  <2>1. DOMAIN g = DOMAIN new /\ g = [i \in DOMAIN new |-> g[i]]
    OBVIOUS
  <2>2. ASSUME NEW i \in DOMAIN new
        PROVE  g[i] \in Row /\ g[i].ord = o /\ g[i].qty = new[i].qty /\ g[i].carried
    <3> DEFINE z == Sent(new[i].dish, new[i].qty)
    <3>1. g[i] = [new[i] EXCEPT !.sent = z, !.carried = TRUE]
      OBVIOUS
    <3>2. z \in 0..MaxQty
      BY <1>2, <1>7, SentFits
    <3>3. new[i] \in Row /\ new[i].ord = o
      BY <1>7, <1>8
    <3> HIDE DEF z, g
    <3> QED
      BY <3>1, <3>2, <3>3 DEF Row
  <2> HIDE DEF g
  <2> QED
    BY <2>1, <2>2
<1> HIDE DEF f, g
<1>12. Inserts(f, g, new) /\ add = Quantities(new, Len(rows))
  BY <1>3, <1>7, <1>10, <1>11 DEF Inserts
<1> HIDE DEF add
<1>13. /\ rows' \in Seq(Row) /\ Len(rows') <= MaxRows
       /\ DOMAIN rows \subseteq DOMAIN rows' /\ DOMAIN rows' \subseteq RowId
       /\ \A r \in DOMAIN rows : rows'[r] = f[r]
       /\ \A r \in DOMAIN rows' \ DOMAIN rows :
            /\ r - Len(rows) \in DOMAIN new /\ rows'[r] = g[r - Len(rows)]
            /\ add[r] = new[r - Len(rows)].qty
       /\ add \in [RowId -> 0..MaxQty]
       /\ \A r \in RowId : r \notin DOMAIN rows' \ DOMAIN rows => add[r] = 0
  BY <1>2, <1>12, Inserted
<1>14. ASSUME NEW r \in DOMAIN rows' \ DOMAIN rows
       PROVE  rows'[r].ord = o /\ rows'[r].qty = add[r] /\ rows'[r].carried
  <2>1. PICK i : i = r - Len(rows)
    OBVIOUS
  <2>2. i \in DOMAIN new /\ rows'[r] = g[i] /\ add[r] = new[i].qty
    BY <1>13, <2>1
  <2> QED
    BY <1>11, <2>2
<1>15. ASSUME NEW r \in RowId
       PROVE  /\ peak'[r] \in 0..MaxQty /\ peak[r] <= peak'[r]
              /\ r \in kept => want[Key(r)] <= peak'[r]
              /\ r \in RowId \ DOMAIN rows' => peak'[r] = peak[r]
              /\ r \in DOMAIN rows' \ DOMAIN rows => peak'[r] = add[r]
  <2>1. peak'[r] = IF r \in kept /\ want[Key(r)] > peak[r] THEN want[Key(r)]
                   ELSE peak[r] + add[r]
    BY <1>3
  <2>2. peak[r] \in 0..MaxQty /\ add[r] \in 0..MaxQty
    BY <1>2, <1>13 DEF KitchenTypeOK
  <2>3. CASE r \in DOMAIN rows
    <3>1. add[r] = 0
      BY <1>13, <2>3
    <3>2. r \in kept => want[Key(r)] \in 1..MaxQty
      BY <1>6
    <3>3. r \in DOMAIN rows'
      BY <1>13, <2>3
    <3> QED
      BY <2>1, <2>2, <2>3, <3>1, <3>2, <3>3, KitchenBoundAssumption
  <2>4. CASE r \notin DOMAIN rows
    <3>1. peak[r] = 0 /\ r \notin kept
      BY <1>6, <2>4, FreshHistory
    <3>2. r \notin DOMAIN rows' => add[r] = 0
      BY <1>13
    <3> QED
      BY <2>1, <2>2, <2>4, <3>1, <3>2, KitchenBoundAssumption
  <2> QED
    BY <2>3, <2>4
<1>16. Keeps(gone)
  <2>1. gone \subseteq RowId
    BY <1>4, <1>6
  <2> QED
    BY <1>2, <1>3, <2>1, WithoutIs
<1>17. Lines(gone)
  <2>1. peak' \in [RowId -> 0..MaxQty]
    BY <1>3, <1>15
  <2>2. ASSUME NEW r \in DOMAIN rows
        PROVE  /\ rows'[r].ord = rows[r].ord
               /\ rows'[r].live => rows[r].live /\ r \notin gone /\ rows'[r].qty <= peak'[r]
               /\ rows[r].carried => rows'[r].carried
               /\ rows'[r].live /\ ~rows'[r].carried => rows'[r].sent <= History(r)
    <3>1. rows'[r] = f[r] /\ r \in RowId
      BY <1>4, <1>13
    <3>2. rows[r].live => rows[r].qty <= peak[r]
      BY DEF KitchenInv, ToldInv
    <3>3. rows[r].live /\ ~rows[r].carried => rows[r].sent <= History(r)
      BY DEF KitchenInv, SentIsOnTickets
    <3>4. rows[r].qty \in Nat /\ peak[r] \in Nat /\ peak'[r] \in Nat /\ peak[r] <= peak'[r]
      BY <1>2, <1>4, <1>15, <3>1, KitchenBoundAssumption DEF KitchenTypeOK, Row
    <3>5. CASE r \in kept
      BY <1>9, <1>15, <3>1, <3>5
    <3>6. CASE r \notin kept
      BY <1>9, <3>1, <3>2, <3>3, <3>4, <3>6
    <3> QED
      BY <3>5, <3>6
  <2>3. \A r \in DOMAIN rows' \ DOMAIN rows : rows'[r].qty <= peak'[r] /\ rows'[r].carried
    <3>1. ASSUME NEW r \in DOMAIN rows' \ DOMAIN rows PROVE rows'[r].qty <= peak'[r]
      <4>1. r \in RowId /\ peak'[r] = add[r] /\ peak'[r] \in 0..MaxQty
        BY <1>13, <1>15
      <4> QED
        BY <1>14, <4>1, KitchenBoundAssumption
    <3> QED
      BY <1>14, <3>1
  <2>4. \A r \in RowId : peak[r] <= peak'[r]
    BY <1>15
  <2>5. \A r \in RowId \ DOMAIN rows' : peak'[r] = peak[r]
    BY <1>15
  <2> QED
    BY <1>13, <2>1, <2>2, <2>3, <2>4, <2>5 DEF Lines
<1>18. (\A r \in DOMAIN rows : Exists(rows[r].ord))'
  <2>1. ASSUME NEW r \in DOMAIN rows' PROVE tab[rows'[r].ord].status # "NONE"
    <3>1. CASE r \in DOMAIN rows
      <4>1. rows'[r].ord = rows[r].ord
        BY <1>9, <1>13, <3>1
      <4> QED
        BY <3>1, <4>1 DEF KitchenInv, KnownInv, Exists
    <3>2. CASE r \notin DOMAIN rows
      <4>1. rows'[r].ord = o
        BY <1>14, <3>2
      <4> QED
        BY <1>2, <4>1 DEF Exists
    <3> QED
      BY <3>1, <3>2
  <2> QED
    BY <1>2, <2>1 DEF Exists
<1>19. /\ \A t \in Clerk : task'[t] \in Task
       /\ DOMAIN task' = Clerk /\ \A t \in Clerk \ {s} : task'[t] = task[t]
       /\ Fits(s)' /\ JoinsMakers(s)
  BY <1>2, ReplySets
<1>20. /\ tab' \in [Tab -> TabRow] /\ (\A u \in Tab : Exists(u) => Exists(u)')
       /\ edits' \in 0..MaxEdits /\ raced' = raced /\ told' = told
  BY <1>2 DEF KitchenTypeOK, Exists
<1> QED
  BY <1>6, <1>16, <1>17, <1>18, <1>19, <1>20, LinesWrite

-----------------------------------------------------------------------------
(* The theorems *)

\* At first nothing was ordered, told or asked.
LEMMA KitchenStarts ==
  ASSUME KitchenInit
  PROVE  KitchenInv
<1>1. /\ rows = <<>> /\ tickets = <<>> /\ DOMAIN rows = {} /\ DOMAIN tickets = {}
      /\ Len(rows) = 0 /\ Len(tickets) = 0 /\ DOMAIN task = Clerk
      /\ \A s \in Clerk : task[s] = NoTask
  BY DEF KitchenInit
<1>2. KitchenTypeOK
  <2>1. tab \in [Tab -> TabRow] /\ raced \subseteq Tab /\ edits \in 0..MaxEdits
    BY KitchenBoundAssumption DEF KitchenInit, TabRow
  <2>2. told \in [RowId -> Nat] /\ peak \in [RowId -> 0..MaxQty] /\ \A s \in Clerk : task[s] \in Task
    BY <1>1, NoTaskType DEF KitchenInit
  <2>3. rows \in Seq(Row) /\ tickets \in Seq(Ticket)
    BY <1>1, EmptySeq
  <2> QED
    BY <1>1, <2>1, <2>2, <2>3, KitchenBoundAssumption DEF KitchenTypeOK
<1>3. FreshInv
  BY <1>1, NoTaskType DEF FreshInv, KitchenInit
<1>4. /\ ToldInv /\ NothingSentTwice /\ SentIsOnTickets
  BY <1>1 DEF ToldInv, NothingSentTwice, SentIsOnTickets
<1>5. \A s \in Clerk : task[s].op = "none" /\ task[s].phase = "idle"
  BY <1>1 DEF NoTask
<1>6. KnownInv /\ OneInv
  BY <1>1, <1>5 DEF KnownInv, OneInv, Making, OfOrder
<1>7. TaskInv
  BY <1>1, <1>5 DEF TaskInv, TakeOK, AutoOK, AskedOK, EditOK, IdleOK, Making
<1> QED
  BY <1>1, <1>2, <1>3, <1>4, <1>6, <1>7 DEF KitchenInv

\* Every operation keeps what the kitchen relies on.
LEMMA KitchenSteps ==
  ASSUME KitchenInv, KitchenNext
  PROVE  KitchenInv'
<1>1. PICK s \in Clerk :
        \/ CreateOrder(s) \/ DrawNumber(s) \/ AutoTicket(s) \/ AutoItems(s)
        \/ AutoSent(s) \/ AskTicket(s) \/ ReadRows(s) \/ ReadHistory(s)
        \/ SendTicket(s) \/ GiveUp(s) \/ AddItem(s) \/ ReadForSetQty(s) \/ SetQty(s)
        \/ ReadForRemove(s) \/ RemoveItem(s) \/ ReadForReplace(s) \/ Replace(s)
        \/ ReadForPay(s) \/ Pay(s) \/ SetOrderStatus(s) \/ SetTicketStatus(s)
        \/ ReadForCancelTicket(s) \/ ReadForCancelAll(s) \/ CancelTickets(s)
  BY DEF KitchenNext
<1>2. CASE CreateOrder(s)
  BY <1>2, CreateOrderStep
<1>3. CASE DrawNumber(s)
  BY <1>3, DrawNumberStep
<1>4. CASE AutoTicket(s)
  BY <1>4, AutoTicketStep
<1>5. CASE AutoItems(s)
  BY <1>5, AutoItemsStep
<1>6. CASE AutoSent(s)
  BY <1>6, AutoSentStep
<1>7. CASE AskTicket(s)
  BY <1>7, AskTicketStep
<1>8. CASE ReadRows(s)
  BY <1>8, ReadRowsStep
<1>9. CASE ReadHistory(s)
  BY <1>9, ReadHistoryStep
<1>10. CASE SendTicket(s)
  BY <1>10, SendTicketStep
<1>11. CASE GiveUp(s)
  BY <1>11, GiveUpStep
<1>12. CASE AddItem(s)
  BY <1>12, AddItemStep
<1>13. CASE ReadForSetQty(s)
  BY <1>13, ReadForSetQtyStep
<1>14. CASE SetQty(s)
  BY <1>14, SetQtyStep
<1>15. CASE ReadForRemove(s)
  BY <1>15, ReadForRemoveStep
<1>16. CASE RemoveItem(s)
  BY <1>16, RemoveItemStep
<1>17. CASE ReadForReplace(s)
  BY <1>17, ReadForReplaceStep
<1>18. CASE Replace(s)
  BY <1>18, ReplaceStep
<1>19. CASE ReadForPay(s)
  BY <1>19, ReadForPayStep
<1>20. CASE Pay(s)
  BY <1>20, KitchenPayStep
<1>21. CASE SetOrderStatus(s)
  BY <1>21, SetOrderStatusStep
<1>22. CASE SetTicketStatus(s)
  BY <1>22, SetTicketStatusStep
<1>23. CASE ReadForCancelTicket(s)
  BY <1>23, ReadForCancelTicketStep
<1>24. CASE ReadForCancelAll(s)
  BY <1>24, ReadForCancelAllStep
<1>25. CASE CancelTickets(s)
  BY <1>25, CancelTicketsStep
<1> QED
  BY <1>1, <1>2, <1>3, <1>4, <1>5, <1>6, <1>7, <1>8, <1>9, <1>10, <1>11, <1>12, <1>13,
     <1>14, <1>15, <1>16, <1>17, <1>18, <1>19, <1>20, <1>21, <1>22, <1>23, <1>24, <1>25

\* So does doing nothing.
LEMMA KitchenStutters ==
  ASSUME KitchenInv, UNCHANGED kitchenVars
  PROVE  KitchenInv'
<1>1. /\ tab' = tab /\ rows' = rows /\ tickets' = tickets /\ task' = task /\ edits' = edits
      /\ raced' = raced /\ told' = told /\ peak' = peak
  BY DEF kitchenVars
<1>2. \A r : History(r)' = History(r)
  BY <1>1, HistoryIs
<1>3. KitchenTypeOK' /\ DOMAIN task' = Clerk
  BY <1>1 DEF KitchenInv, KitchenTypeOK
<1>4. FreshInv' /\ KnownInv' /\ OneInv' /\ NothingSentTwice'
  BY <1>1 DEF KitchenInv, FreshInv, KnownInv, OneInv, NothingSentTwice, Making, OfOrder, Exists
<1>5. ToldInv' /\ SentIsOnTickets'
  BY <1>1, <1>2 DEF KitchenInv, ToldInv, SentIsOnTickets
<1>6. ASSUME NEW s \in Clerk
      PROVE  TakeOK(s)' /\ AutoOK(s)' /\ AskedOK(s)' /\ EditOK(s)' /\ IdleOK(s)'
  <2>1. TakeOK(s) /\ AutoOK(s) /\ AskedOK(s) /\ EditOK(s) /\ IdleOK(s)
    BY DEF KitchenInv, TaskInv
  <2>2. TakeOK(s)' /\ IdleOK(s)'
    BY <1>1, <2>1 DEF TakeOK, IdleOK, Making, NoTask, Nothing
  <2>3. AutoOK(s)'
    BY <1>1, <1>2, <2>1 DEF AutoOK, Nothing
  <2>4. AskedOK(s)'
    BY <1>1, <1>2, <2>1 DEF AskedOK, Nothing, LiveRow
  <2>5. EditOK(s)'
    BY <1>1, <1>2, <2>1 DEF EditOK
  <2> QED
    BY <2>2, <2>3, <2>4, <2>5
<1>7. TaskInv'
  BY <1>6 DEF TaskInv
<1> QED
  BY <1>3, <1>4, <1>5, <1>7 DEF KitchenInv

THEOREM KitchenInvariant == KitchenSpec => []KitchenInv
<1>1. KitchenInit => KitchenInv
  BY KitchenStarts
<1>2. KitchenInv /\ [KitchenNext]_kitchenVars => KitchenInv'
  BY KitchenSteps, KitchenStutters
<1> QED
  BY <1>1, <1>2, PTL DEF KitchenSpec

\* Orders, lines and tickets keep their types (schema.prisma).
THEOREM KitchenTypeCorrect == KitchenSpec => []KitchenTypeOK
<1>1. KitchenInv => KitchenTypeOK
  BY DEF KitchenInv
<1> QED
  BY <1>1, KitchenInvariant, PTL

\* What createOrder, createKOT and the line edits write never sends a unit twice, unless
\* two ticket makers of an order overlap, and never shows as sent what is on no ticket:
\* for any number of orders, dishes, notes, requests, lines and tickets.
THEOREM TicketsAreTrueAlways == KitchenSpec => []TicketsAreTrue
<1>1. KitchenInv => TicketsAreTrue
  BY DEF KitchenInv, TicketsAreTrue
<1> QED
  BY <1>1, KitchenInvariant, PTL

\* A ticket answered covers what was read.
LEMMA AnswerCovers ==
  ASSUME KitchenInv, NEW s \in Clerk, TicketAnswered(s), NEW r \in DOMAIN rows, rows'[r].live
  PROVE  History(r)' >= task[s].want[r]
<1>1. KitchenTypeOK /\ r \in RowId /\ task[s] \in Task
  BY RowsListed DEF KitchenInv, KitchenTypeOK
<1>2. History(r) \in Nat /\ task[s].want[r] \in 0..MaxQty /\ task[s].want[r] \in Nat
  BY <1>1, HistoryNat, KitchenBoundAssumption DEF Task
<1>3. CASE SendTicket(s)
  <2> DEFINE due == {q \in RowId : task[s].take[q] > 0}
  <2>1. /\ task[s].op = "ticket" /\ task[s].phase = "drawn" /\ NumberIsFree(s) /\ Making(s)
        /\ \A q \in due : LiveRow(q)
        /\ rows' = [q \in DOMAIN rows |-> IF q \notin due THEN rows[q] ELSE
                      [rows[q] EXCEPT !.sent = task[s].base[q] + task[s].take[q]]]
        /\ PutOut(task[s].ord, task[s].take)
    BY <1>3 DEF SendTicket, Making
  <2>2. task[s].ord \in Tab /\ task[s].take \in [RowId -> 0..MaxQty] /\ AskedOK(s)
    BY <1>1, <2>1 DEF KitchenInv, KnownInv, OfOrder, TaskInv, Task
  <2>3. History(r)' = History(r) + task[s].take[r]
    BY <1>1, <2>1, <2>2, FreeIs, PutsOut
  <2>4. LiveRow(r)
    <3>1. CASE r \in due
      BY <2>1, <3>1
    <3>2. CASE r \notin due
      BY <2>1, <3>2 DEF LiveRow
    <3> QED
      BY <3>1, <3>2
  <2>5. task[s].want[r] <= History(r) + task[s].take[r]
    BY <1>1, <2>1, <2>2, <2>4 DEF AskedOK
  <2> QED
    BY <2>3, <2>5
<1>4. CASE ReadHistory(s) /\ task'[s] = NoTask
  <2> DEFINE due == [q \in RowId |-> Pending(q, task[s].want[q])]
             w == [task[s] EXCEPT !.phase = "pending", !.take = due,
                     !.base = [q \in RowId |-> IF due[q] > 0 THEN History(q) ELSE 0]]
  <2>1. /\ tickets' = tickets
        /\ due = Nothing \/ Ask(s, w)
    BY <1>4 DEF ReadHistory
  <2>2. w.phase = "pending"
    BY <1>1 DEF Task
  <2>3. due = Nothing
    <3> HIDE DEF w, due
    <3>1. ASSUME Ask(s, w) PROVE FALSE
      <4>1. task'[s] = w
        BY <3>1, AskSets
      <4> QED
        BY <1>4, <2>2, <4>1 DEF NoTask
    <3> QED
      BY <2>1, <3>1
  <2>4. Pending(r, task[s].want[r]) = 0
    BY <1>1, <2>3 DEF Nothing
  <2>5. task[s].want[r] <= History(r)
    BY <1>1, <1>2, <2>4, PendingIs
  <2>6. History(r)' = History(r)
    BY <2>1, HistoryIs
  <2> QED
    BY <1>2, <2>5, <2>6
<1> QED
  BY <1>3, <1>4 DEF TicketAnswered

\* createKOT leaves nothing behind: a request answered with a ticket, or with "no new
\* items", has every line it read on tickets up to the quantity it read, unless the line
\* was deleted meanwhile.
THEOREM TicketCoversAlways == KitchenSpec => TicketCovers
<1> DEFINE Covers == \A s \in Clerk : TicketAnswered(s) =>
                       \A r \in DOMAIN rows :
                         rows'[r].live => History(r)' >= task[s].want[r]
<1>1. KitchenInv => Covers
  BY AnswerCovers
<1>2. KitchenInv /\ [KitchenNext]_kitchenVars => [Covers]_kitchenVars
  BY <1>1
<1> QED
  BY <1>2, KitchenInvariant, PTL DEF TicketCovers, KitchenSpec

-----------------------------------------------------------------------------
(* Floor and kitchen together *)

LEMMA ServiceStarts == MCInit => FloorInv /\ KitchenInv
<1> SUFFICES ASSUME MCInit PROVE FloorInv /\ KitchenInv
  OBVIOUS
<1>1. KitchenInv
  BY KitchenStarts DEF MCInit
<1>2. CASE FloorInit
  BY <1>1, <1>2, FloorStarts
<1>3. CASE PairInit
  BY <1>1, <1>3, EmptyFloor DEF PairInit
<1> QED
  BY <1>2, <1>3 DEF MCInit

LEMMA ServiceSteps ==
  ASSUME FloorInv, KitchenInv, [MCNext]_<<floorVars, kitchenVars, vars, mix>>
  PROVE  FloorInv' /\ KitchenInv'
<1>1. [FloorNext]_floorVars /\ [KitchenNext]_kitchenVars
  BY DEF MCNext, FloorStep, CollectStep, KitchenStep
<1>2. FloorInv'
  BY <1>1, FloorKeeps
<1>3. KitchenInv'
  BY <1>1, KitchenSteps, KitchenStutters
<1> QED
  BY <1>2, <1>3

\* Tables, orders, groups, lines and tickets keep their types, for any number of each, also
\* where some of the tables do not exist.
THEOREM ServiceTypesAlways == MCSpec => []ServiceTypeOK
<1>1. FloorInv /\ KitchenInv => ServiceTypeOK
  BY DEF ServiceTypeOK, FloorInv, RowsInv, KitchenInv
<1>2. MCInit => FloorInv /\ KitchenInv
  BY ServiceStarts
<1>3. FloorInv /\ KitchenInv /\ [MCNext]_<<floorVars, kitchenVars, vars, mix>>
        => FloorInv' /\ KitchenInv'
  BY ServiceSteps
<1> QED
  BY <1>1, <1>2, <1>3, PTL DEF MCSpec
=============================================================================
