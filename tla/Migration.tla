------------------------------- MODULE Migration -------------------------------
(***************************************************************************)
(* A restaurant's rows leave the shared public schema for a schema of its  *)
(* own: scripts/migrate-public-data-to-tenants.js with                     *)
(* utils/tenantSchema.js, migrate-staff-to-tenants.js and                  *)
(* fix-tenant-sequences.js, while the application that                     *)
(* config/tenantPrisma.js lets in already works there.                     *)
(*                                                                         *)
(* The scripts run statement by statement, each committed alone; one may   *)
(* stop after any of them, by a crash or an error, and be run again.  The  *)
(* application inserts in a transaction: the row holds its id and its key  *)
(* before others see it, and a statement that wants either waits for it.   *)
(***************************************************************************)
EXTENDS Integers, Sequences, FiniteSets, FiniteSetsExt, SequencesExt

CONSTANTS
  Tables,   \* the tables in the order they are copied, "User" last
  Refers,   \* the table a table's rows refer to, or NoTable
  Source,   \* the public rows of each table: id -> [key, parent]
  NewKeys,  \* natural keys (a category's name, a user's e-mail) the application uses
  Scripts,  \* the scripts that are run
  NoTable, NoKey,
  MaxId,    \* bound on the ids drawn
  MaxEdits  \* bound on what the application does

Table == ToSet(Tables)
Key == NewKeys \cup UNION {{Source[t][i].key : i \in DOMAIN Source[t]} : t \in Table}

ASSUME MigrationAssumption ==
  /\ NoKey \notin Key /\ NoTable \notin Table /\ "User" \in Table
  /\ MaxId \in Nat \ {0} /\ MaxEdits \in Nat
  /\ DOMAIN Source = Table /\ \A t \in Table : DOMAIN Source[t] \subseteq 1..MaxId
  /\ Scripts \subseteq {"data", "staff", "sequences"}

\* The tables (schema.prisma): none is copied twice, the users, who refer to no table
\* that is copied, come last, and a row's key is unique in its table.
ASSUME TablesAssumption ==
  /\ Tables \in Seq(Table) /\ IsInjective(Tables) /\ Tables[Len(Tables)] = "User"
  /\ Refers \in [Table -> Table \cup {NoTable}] /\ Refers["User"] = NoTable
  /\ \A t \in Table : \A i \in DOMAIN Source[t] :
       /\ Source[t][i] \in [key : Key, parent : 0..MaxId]
       /\ \A j \in DOMAIN Source[t] : Source[t][j].key = Source[t][i].key => j = i

VARIABLES
  public,  \* the rows of the public schema: id -> [key, parent]
  tenant,  \* the committed rows of the restaurant's schema
  seq,     \* the last id each table's sequence gave out, 0: none
  schema,  \* the schema: "none", "bare" without tables, or "ready"
  linked,  \* Restaurant.tenantSchema is set
  job,     \* the script that runs and where it is
  app,     \* the row an open transaction of the application has inserted
  edits,   \* what the application did so far
  quiet,   \* ghost: the application did nothing since the script was started
  settled, \* ghost: tables whose sequence a data run has reset
  gone     \* ghost: people the restaurant dismissed

migrationVars == <<public, tenant, seq, schema, linked, job, app, edits, quiet,
                   settled, gone>>

-----------------------------------------------------------------------------
(* Rows.  who is the thing or person a row stands for, whatever its key became; *)
(* by says whose last write it is: a script's, an edit of the application, or   *)
(* the insert of it, "early" when no script had reset the sequence yet.         *)

Origin == {"script", "edit", "early", "own"}
Row == [key : Key, who : Key, parent : 0..MaxId, by : Origin]
Copied(r) == [key |-> r.key, who |-> r.key, parent |-> r.parent, by |-> "script"]

NoJob == [script |-> "none", at |-> "off", n |-> 0, list |-> <<>>, seen |-> 0, last |-> 0]
NoInsert == [table |-> NoTable, id |-> 0, row |-> [key |-> NoKey, parent |-> 0]]

Ids(t) == DOMAIN tenant[t]
Highest(t) == Max({0} \cup Ids(t))
Here == Tables[job.n]
Without(f, i) == [j \in DOMAIN f \ {i} |-> f[j]]
With(f, i, r) == [j \in DOMAIN f \cup {i} |-> IF j = i THEN r ELSE f[j]]

\* UNIQUE(restaurantId, name), UNIQUE(email): the rows that hold a key.
Holders(t, k) == {i \in Ids(t) : tenant[t][i].key = k}
Waits(t, i, k) == app.table = t /\ (app.id = i \/ app.row.key = k)
Free(t, i, k) == i \notin Ids(t) /\ Holders(t, k) = {} /\ ~Waits(t, i, k)

MigrationTypeOK ==
  /\ \A t \in Table :
       /\ Ids(t) \subseteq 1..MaxId /\ \A i \in Ids(t) : tenant[t][i] \in Row
       /\ DOMAIN public[t] \subseteq DOMAIN Source[t]
       /\ \A i \in Ids(t) : Holders(t, tenant[t][i].key) = {i}
       /\ Refers[t] # NoTable =>
            \A i \in Ids(t) : tenant[t][i].parent \in Ids(Refers[t])
  /\ seq \in [Table -> 0..MaxId] /\ schema \in {"none", "bare", "ready"}
  /\ linked \in BOOLEAN /\ linked => schema = "ready"
  /\ job.script \in {"none"} \cup Scripts /\ job.n \in 0..Len(Tables)
  /\ job.list \in Seq(0..MaxId) /\ {job.seen, job.last} \subseteq 0..MaxId
  /\ edits \in 0..MaxEdits /\ quiet \in BOOLEAN
  /\ settled \subseteq Table /\ gone \subseteq Key

MigrationInit ==
  /\ public = Source
  /\ tenant = [t \in Table |-> <<>>]
  /\ seq = [t \in Table |-> 0]
  /\ schema = "none" /\ linked = FALSE
  /\ job = NoJob /\ app = NoInsert
  /\ edits = 0 /\ quiet = TRUE /\ settled = {} /\ gone = {}

Goto(at) == job' = [job EXCEPT !.at = at]
Stop(at) == job' = [NoJob EXCEPT !.script = job.script, !.at = at]
AppRests == UNCHANGED <<app, edits, quiet, gone>>
StoreRests == UNCHANGED <<public, tenant, seq, schema, linked, settled>>

Start(s) ==
  /\ job.at \in {"off", "done", "failed"}
  /\ job' = [NoJob EXCEPT !.script = s, !.at = "start", !.n = 1]
  /\ quiet' = (app = NoInsert)
  /\ UNCHANGED <<app, edits, gone>> /\ StoreRests

\* The process dies between two statements.
Crash == /\ job.at \notin {"off", "done", "failed"}
         /\ Stop("off") /\ AppRests /\ StoreRests

-----------------------------------------------------------------------------
(* migrate-public-data-to-tenants.js *)

DataAt(at) == job.script = "data" /\ job.at = at

\* A schema that exists is taken to be complete.
ensureTenantSchema ==
  /\ DataAt("start")
  /\ Goto(IF schema = "none" THEN "create" ELSE "copy")
  /\ AppRests /\ StoreRests

\* CREATE SCHEMA commits before the transaction that makes the tables.
CreateSchema_Links ==
  /\ DataAt("create")
  /\ schema' = "bare" /\ linked' = TRUE /\ Goto("ddl")
  /\ AppRests /\ UNCHANGED <<public, tenant, seq, settled>>

CreateSchema ==
  /\ DataAt("create")
  /\ schema' = "bare" /\ Goto("ddl")
  /\ AppRests /\ UNCHANGED <<public, tenant, seq, linked, settled>>

MakeTables ==
  /\ DataAt("ddl")
  /\ schema' = "ready" /\ Goto("link")
  /\ AppRests /\ UNCHANGED <<public, tenant, seq, linked, settled>>

LinkCreated ==
  /\ DataAt("link")
  /\ linked' = TRUE /\ Goto("copy")
  /\ AppRests /\ UNCHANGED <<public, tenant, seq, schema, settled>>

\* INSERT ... SELECT ... ON CONFLICT ("id") DO UPDATE
Upserted_Nothing(t) == [i \in Ids(t) \cup DOMAIN public[t] |->
                  IF i \in Ids(t) THEN tenant[t][i] ELSE Copied(public[t][i])]

Upserted(t) == [i \in Ids(t) \cup DOMAIN public[t] |->
                  IF i \in DOMAIN public[t] THEN Copied(public[t][i]) ELSE tenant[t][i]]

\* Another row holds the key of a public one (a row of the same statement counts,
\* though the order of the rows may let it through), or its parent is not there.
Refused(t) ==
  \/ schema # "ready"
  \/ \E i \in DOMAIN public[t] : Holders(t, public[t][i].key) \ {i} # {}
  \/ /\ Refers[t] # NoTable
     /\ \E i \in DOMAIN public[t] : public[t][i].parent \notin Ids(Refers[t])

copyTable ==
  /\ DataAt("copy")
  /\ \A i \in DOMAIN public[Here] : ~Waits(Here, i, public[Here][i].key)
  /\ IF Refused(Here) THEN Stop("failed") /\ UNCHANGED tenant
     ELSE /\ tenant' = [tenant EXCEPT ![Here] = Upserted(Here)]
          /\ Goto("reset")
  /\ AppRests /\ UNCHANGED <<public, seq, schema, linked, settled>>

\* setval(..., COALESCE(MAX(id), 1), true): of what is committed.
ResetTo(t) == IF Ids(t) = {} THEN 1 ELSE Highest(t)

resetSequence_Once ==
  /\ DataAt("reset")
  /\ IF job.n > 1 THEN UNCHANGED <<seq, settled>>
     ELSE seq' = [t \in Table |-> ResetTo(t)] /\ settled' = Table
  /\ job' = IF job.n < Len(Tables) THEN [job EXCEPT !.n = @ + 1, !.at = "copy"]
            ELSE [job EXCEPT !.n = 1, !.at = "staff"]
  /\ AppRests /\ UNCHANGED <<public, tenant, schema, linked>>

resetSequence ==
  /\ DataAt("reset")
  /\ seq' = [seq EXCEPT ![Here] = ResetTo(Here)]
  /\ settled' = settled \cup {Here}
  /\ job' = IF job.n < Len(Tables) THEN [job EXCEPT !.n = @ + 1, !.at = "copy"]
            ELSE [job EXCEPT !.n = 1, !.at = "staff"]
  /\ AppRests /\ UNCHANGED <<public, tenant, schema, linked>>

verifyStaffUsers ==
  /\ DataAt("staff")
  /\ IF DOMAIN public["User"] \subseteq Ids("User") THEN Goto("verify") ELSE Stop("failed")
  /\ AppRests /\ StoreRests

\* MIGRATION_TABLES does not list User, so its rows are not counted.
verifyMigration ==
  /\ DataAt("verify")
  /\ IF Here = "User" THEN Goto("accept")
     ELSE IF Cardinality(DOMAIN public[Here]) = Cardinality(Ids(Here))
          THEN job' = [job EXCEPT !.n = @ + 1] ELSE Stop("failed")
  /\ AppRests /\ StoreRests

LinkVerified ==
  /\ DataAt("accept")
  /\ linked' = TRUE /\ Stop("done")
  /\ AppRests /\ UNCHANGED <<public, tenant, seq, schema, settled>>

-----------------------------------------------------------------------------
(* migrate-staff-to-tenants.js *)

StaffAt(at) == job.script = "staff" /\ job.at = at
Member == Head(job.list)
Person == public["User"][Member]
Existing == Holders("User", Person.key)

\* The public staff of a linked restaurant, read once, in no particular order.
FindStaff ==
  /\ StaffAt("start")
  /\ \/ /\ linked
        /\ \E l \in SetToSeqs(DOMAIN public["User"]) :
             job' = [job EXCEPT !.at = "next", !.list = l]
     \/ ~linked /\ Stop("done")
  /\ AppRests /\ StoreRests

NextMember == job' = [job EXCEPT !.at = "next", !.list = Tail(@)]

StaffDone == /\ StaffAt("next") /\ job.list = <<>>
             /\ Stop("done") /\ AppRests /\ StoreRests

LookForMember ==
  /\ StaffAt("next") /\ job.list # <<>>
  /\ Goto(IF Existing # {} THEN "drop" ELSE "insert")
  /\ AppRests /\ StoreRests

AddUser(i) == tenant' = [tenant EXCEPT !["User"] = With(@, i, Copied(Person))]

\* With the id of the public row, and when something is not unique with the next
\* one; a second refusal leaves the member where it is.
InsertMember ==
  /\ StaffAt("insert") /\ ~Waits("User", Member, Person.key)
  /\ IF Free("User", Member, Person.key) THEN AddUser(Member) /\ Goto("check")
     ELSE UNCHANGED tenant /\ Goto("again")
  /\ AppRests /\ UNCHANGED <<public, seq, schema, linked, settled>>

InsertAgain_Drops ==
  /\ StaffAt("again") /\ seq["User"] < MaxId
  /\ ~Waits("User", seq["User"] + 1, Person.key)
  /\ seq' = [seq EXCEPT !["User"] = @ + 1]
  /\ IF Free("User", seq["User"] + 1, Person.key)
     THEN AddUser(seq["User"] + 1) ELSE UNCHANGED tenant
  /\ Goto("drop")
  /\ AppRests /\ UNCHANGED <<public, schema, linked, settled>>

InsertAgain ==
  /\ StaffAt("again") /\ seq["User"] < MaxId
  /\ ~Waits("User", seq["User"] + 1, Person.key)
  /\ seq' = [seq EXCEPT !["User"] = @ + 1]
  /\ IF Free("User", seq["User"] + 1, Person.key)
     THEN AddUser(seq["User"] + 1) /\ Goto("check")
     ELSE UNCHANGED tenant /\ NextMember
  /\ AppRests /\ UNCHANGED <<public, schema, linked, settled>>

\* The copy has to be found by its e-mail, with the role an edit may have changed.
VerifyMember ==
  /\ StaffAt("check")
  /\ \/ Existing # {} /\ Goto("drop")
     \/ (\A i \in Existing : tenant["User"][i].by = "edit") /\ NextMember
  /\ AppRests /\ StoreRests

DropMember ==
  /\ StaffAt("drop")
  /\ public' = [public EXCEPT !["User"] = Without(@, Member)]
  /\ NextMember
  /\ AppRests /\ UNCHANGED <<tenant, seq, schema, linked, settled>>

-----------------------------------------------------------------------------
(* fix-tenant-sequences.js *)

SeqAt(at) == job.script = "sequences" /\ job.at = at

FindSchema ==
  /\ SeqAt("start")
  /\ IF linked THEN Goto("max") ELSE Stop("done")
  /\ AppRests /\ StoreRests

getMaxId == /\ SeqAt("max")
            /\ job' = [job EXCEPT !.at = "last", !.seen = Highest(Here)]
            /\ AppRests /\ StoreRests

getCurrentSequenceValue ==
  /\ SeqAt("last")
  /\ job' = [job EXCEPT !.at = "fix", !.last = seq[Here]]
  /\ AppRests /\ StoreRests

setSequenceValue ==
  /\ SeqAt("fix")
  /\ seq' = [seq EXCEPT ![Here] = IF job.last < job.seen THEN job.seen ELSE @]
  /\ IF job.n < Len(Tables) THEN job' = [job EXCEPT !.n = @ + 1, !.at = "max"]
     ELSE Stop("done")
  /\ AppRests /\ UNCHANGED <<public, tenant, schema, linked, settled>>

-----------------------------------------------------------------------------
(* The application, once tenantMiddleware lets the restaurant in *)

Acts == /\ linked /\ edits < MaxEdits
        /\ edits' = edits + 1 /\ quiet' = FALSE
        /\ UNCHANGED <<public, schema, linked, job, settled>>

\* A row gets the next id; an id or key that is taken refuses it, and the id is spent.
Insert(t, k, p) ==
  /\ Acts /\ app = NoInsert /\ seq[t] < MaxId
  /\ IF Refers[t] = NoTable THEN p = 0 ELSE p \in Ids(Refers[t])
  /\ seq' = [seq EXCEPT ![t] = @ + 1]
  /\ app' = IF Free(t, seq[t] + 1, k)
            THEN [table |-> t, id |-> seq[t] + 1, row |-> [key |-> k, parent |-> p]]
            ELSE NoInsert
  /\ UNCHANGED <<tenant, gone>>

Born(t) == IF t \in settled THEN "own" ELSE "early"

Commit ==
  /\ app # NoInsert
  /\ tenant' = [tenant EXCEPT ![app.table] = With(@, app.id,
       [key |-> app.row.key, who |-> app.row.key, parent |-> app.row.parent,
        by |-> Born(app.table)])]
  /\ app' = NoInsert /\ quiet' = FALSE
  /\ UNCHANGED <<public, seq, schema, linked, job, edits, settled, gone>>

Rollback ==
  /\ app # NoInsert /\ app' = NoInsert
  /\ UNCHANGED <<public, tenant, seq, schema, linked, job, edits, quiet, settled, gone>>

\* updateUser, updateCategory: the key may change with the rest, to a new one, or back.
Change(t, i, k) ==
  /\ Acts /\ i \in Ids(t) /\ k \in NewKeys \cup {tenant[t][i].who}
  /\ Holders(t, k) \subseteq {i} /\ ~Waits(t, 0, k)
  /\ tenant' = [tenant EXCEPT ![t][i].key = k,
                              ![t][i].by = IF @ = "own" THEN "own" ELSE "edit"]
  /\ UNCHANGED <<seq, app, gone>>

Referred(t, i) ==
  \/ \E u \in Table : Refers[u] = t /\ \E j \in Ids(u) : tenant[u][j].parent = i
  \/ app # NoInsert /\ Refers[app.table] = t /\ app.row.parent = i

\* deleteUser, deleteMenuItem, deleteCategory: a row that others refer to stays.
Delete(t, i) ==
  /\ Acts /\ i \in Ids(t) /\ ~Referred(t, i)
  /\ tenant' = [tenant EXCEPT ![t] = Without(@, i)]
  /\ gone' = gone \cup {tenant[t][i].who}
  /\ UNCHANGED <<seq, app>>

AppNext ==
  \/ \E t \in Table, k \in Key, p \in 0..MaxId : Insert(t, k, p)
  \/ Commit \/ Rollback
  \/ \E t \in Table, i \in 1..MaxId, k \in Key : Change(t, i, k)
  \/ \E t \in Table, i \in 1..MaxId : Delete(t, i)

ScriptNext ==
  \/ \E s \in Scripts : Start(s)
  \/ Crash
  \/ ensureTenantSchema \/ CreateSchema \/ MakeTables \/ LinkCreated
  \/ copyTable \/ resetSequence \/ verifyStaffUsers \/ verifyMigration \/ LinkVerified
  \/ FindStaff \/ LookForMember \/ InsertMember \/ InsertAgain \/ VerifyMember
  \/ DropMember \/ StaffDone
  \/ FindSchema \/ getMaxId \/ getCurrentSequenceValue \/ setSequenceValue

MigrationNext == ScriptNext \/ AppNext

MigrationSpec == MigrationInit /\ [][MigrationNext]_migrationVars
-----------------------------------------------------------------------------
(* Properties *)

\* A data run that reports success while nobody worked in the schema has brought
\* every public row over as it is, with no other row beside them where rows are
\* counted, and has linked the restaurant, whatever earlier runs died of and whatever
\* was done before them; and after it, as after a repair of the sequences, the next
\* row of every table gets an id that is free.
MigratedIsWhole ==
  quiet =>
    /\ DataAt("done") =>
         /\ linked
         /\ \A t \in Table :
              /\ \A i \in DOMAIN public[t] :
                   i \in Ids(t) /\ tenant[t][i] = Copied(public[t][i])
              /\ t # "User" => Ids(t) = DOMAIN public[t]
    /\ linked /\ (DataAt("done") \/ SeqAt("done")) => \A t \in Table : Highest(t) <= seq[t]

\* A row the restaurant created after a run had reset the table's sequence is never
\* overwritten or replaced by a run, though runs may be repeated while it works;
\* unless it has deleted rows a run had brought: the sequence is reset to the highest
\* id that is left.
OwnRowsStay ==
  [][\A t \in Table : \A i \in Ids(t) :
       tenant[t][i].by = "own" =>
         \/ i \in Ids(t)' /\ tenant'[t][i].by = "own"
         \/ tenant[t][i].who \in gone'
         \/ \E j \in DOMAIN Source[t] : Source[t][j].key \in gone]_migrationVars

\* Moving the staff never loses anybody: who was on the public staff is there or in
\* the restaurant's schema, unless the restaurant dismissed them, whatever a run
\* that copies, verifies and then deletes was interrupted by; as long as the data run
\* is not repeated once the restaurant has written rows of its own (README section 6),
\* and nobody is given the e-mail of another on the public staff.
NobodyIsLost ==
  \A i \in DOMAIN Source["User"] :
    \/ i \in DOMAIN public["User"]
    \/ Source["User"][i].key \in gone
    \/ \E j \in Ids("User") : tenant["User"][j].who = Source["User"][i].key
=============================================================================
