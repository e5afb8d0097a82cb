---------------------------- MODULE TenancyProofs ---------------------------
(*************************************************************************)
(* Theorems of a tenant's rows, pictures and accounts: that moving the   *)
(* staff into a schema of its own loses nobody; that a data run that     *)
(* reports success is whole, and that no run replaces the rows the       *)
(* restaurant made since; that the picture of a menu item is stored;     *)
(* that nobody is served who must not be; and the types of all three.    *)
(*************************************************************************)
EXTENDS MCTenants, Sums, FiniteSetTheorems, SequenceTheorems, TLAPS

-----------------------------------------------------------------------------
(* Moving the staff *)

StaffKeys == {Source["User"][i].key : i \in DOMAIN Source["User"]}

\* The application renames nobody to the e-mail of somebody on the public staff.
OwnNames == NewKeys \cap StaffKeys = {}

\* Rows are copied over only as long as the application has not written any.
CopiedFirst == copyTable => edits = 0

Known(i) ==
  \/ Source["User"][i].key \in gone
  \/ \E j \in Ids("User") : tenant["User"][j].who = Source["User"][i].key

IsRow(r) == r = [key |-> r.key, who |-> r.who, parent |-> r.parent, by |-> r.by]

\* Each user's row: whoever has a staff e-mail is that person, and ids do not collide.
Honest(r) == IsRow(r) /\ (r.key \in StaffKeys => r.who = r.key)

IsJob(j) == j = [script |-> j.script, at |-> j.at, n |-> j.n, list |-> j.list,
                 seen |-> j.seen, last |-> j.last]

RowsInv ==
  /\ edits \in Nat /\ IsJob(job)
  /\ DOMAIN public = Table /\ DOMAIN tenant = Table
  /\ \A i \in DOMAIN public["User"] :
       i \in DOMAIN Source["User"] /\ public["User"][i] = Source["User"][i]
  /\ \A j \in Ids("User") : Honest(tenant["User"][j])
  /\ app.table = "User" => app.id \notin Ids("User")

\* Until the application writes, the rows are the public ones with their ids.
OpenInv ==
  edits = 0 =>
    /\ app = NoInsert
    /\ \A j \in Ids("User") :
         j \in DOMAIN Source["User"] /\ tenant["User"][j] = Copied(Source["User"][j])
    /\ ~StaffAt("again")
    /\ StaffAt("insert") => Existing = {}

AtMember == {"insert", "again", "check", "drop"}

\* The members still to be moved are on the public staff; one that is to be dropped
\* from it is known in the restaurant's schema.
ListInv ==
  job.script = "staff" /\ job.at \in {"next"} \cup AtMember =>
    /\ job.list \in Seq(DOMAIN public["User"])
    /\ \A m, n \in 1..Len(job.list) : m # n => job.list[m] # job.list[n]
    /\ job.at # "next" => job.list # <<>>
    /\ job.at = "drop" => Known(Member)

LostInv == RowsInv /\ OpenInv /\ ListInv /\ NobodyIsLost

-----------------------------------------------------------------------------

LEMMA LostStart == ASSUME MigrationInit PROVE LostInv
<1> USE MigrationAssumption
<1>1. RowsInv
  BY DEF MigrationInit, RowsInv, NoInsert, Ids, IsJob, NoJob
<1>2. OpenInv /\ ListInv
  BY DEF MigrationInit, OpenInv, ListInv, NoJob, StaffAt, Ids
<1>3. NobodyIsLost
  BY DEF MigrationInit, NobodyIsLost
<1>4. QED
  BY <1>1, <1>2, <1>3 DEF LostInv

\* Everybody in the restaurant's schema is in it afterwards, or dismissed.
Remembers ==
  /\ gone \subseteq gone'
  /\ \A j \in Ids("User") :
       \/ tenant["User"][j].who \in gone'
       \/ \E k \in DOMAIN tenant'["User"] : tenant'["User"][k].who = tenant["User"][j].who

LEMMA StillKnown ==
  ASSUME Remembers, NEW i, Known(i)
  PROVE  Known(i)'
  BY DEF Remembers, Known, Ids

LEMMA NobodyLost ==
  ASSUME NobodyIsLost, Remembers,
         \A i \in DOMAIN public["User"] : i \in DOMAIN public'["User"] \/ Known(i)
  PROVE  NobodyIsLost'
<1> SUFFICES ASSUME NEW i \in DOMAIN Source["User"], ~(i \in DOMAIN public["User"])'
             PROVE  Known(i)'
  BY DEF NobodyIsLost, Known
<1>1. Known(i)
  BY DEF NobodyIsLost, Known
<1>2. QED
  BY <1>1, StillKnown

\* The steps that write no user's row and are not the staff script's.
LEMMA QuietStep ==
  ASSUME LostInv, UNCHANGED <<public, tenant, app, edits, gone>>, IsJob(job'),
         job'.script # "staff" \/ job'.at \in {"start", "off", "done", "failed"}
  PROVE  LostInv'
<1> USE DEF LostInv
<1>1. RowsInv'
  BY DEF RowsInv, Ids
<1>2. OpenInv'
  BY DEF OpenInv, StaffAt, Ids
<1>3. ListInv'
  BY DEF ListInv, AtMember
<1>4. NobodyIsLost'
  BY DEF NobodyIsLost, Ids
<1>5. QED
  BY <1>1, <1>2, <1>3, <1>4

LEMMA OtherScripts ==
  ASSUME LostInv,
         \/ \E s \in Scripts : Start(s)
         \/ Crash \/ ensureTenantSchema \/ CreateSchema \/ MakeTables \/ LinkCreated
         \/ resetSequence \/ verifyStaffUsers \/ verifyMigration \/ LinkVerified
         \/ FindSchema \/ getMaxId \/ getCurrentSequenceValue \/ setSequenceValue
         \/ StaffDone
  PROVE  LostInv'
<1>1. IsJob(job)
  BY DEF LostInv, RowsInv
<1>2. /\ UNCHANGED <<public, tenant>>
      /\ UNCHANGED <<app, edits, gone>>
  BY DEF Start, Crash, ensureTenantSchema, CreateSchema, MakeTables, LinkCreated,
     resetSequence, verifyStaffUsers, verifyMigration, LinkVerified, FindSchema, getMaxId,
     getCurrentSequenceValue, setSequenceValue, StaffDone, AppRests, StoreRests
<1>3. /\ IsJob(job')
      /\ job'.script # "staff" \/ job'.at \in {"start", "off", "done", "failed"}
  <2>1. CASE \E s \in Scripts : Start(s)
    BY <2>1 DEF Start, NoJob, IsJob
  <2>2. CASE Crash
    BY <2>2 DEF Crash, Stop, NoJob, IsJob
  <2>3. CASE ensureTenantSchema
    BY <2>3, <1>1 DEF ensureTenantSchema, DataAt, Goto, IsJob
  <2>4. CASE CreateSchema \/ MakeTables \/ LinkCreated
    BY <2>4, <1>1 DEF CreateSchema, MakeTables, LinkCreated, DataAt, Goto, IsJob
  <2>5. CASE resetSequence
    BY <2>5, <1>1 DEF resetSequence, DataAt, IsJob
  <2>6. CASE verifyStaffUsers
    BY <2>6, <1>1 DEF verifyStaffUsers, DataAt, Goto, Stop, NoJob, IsJob
  <2>7. CASE verifyMigration
    BY <2>7, <1>1 DEF verifyMigration, DataAt, Goto, Stop, NoJob, IsJob
  <2>8. CASE LinkVerified \/ StaffDone
    BY <2>8 DEF LinkVerified, StaffDone, Stop, NoJob, IsJob
  <2>9. CASE FindSchema
    BY <2>9, <1>1 DEF FindSchema, SeqAt, Goto, Stop, NoJob, IsJob
  <2>10. CASE getMaxId \/ getCurrentSequenceValue
    BY <2>10, <1>1 DEF getMaxId, getCurrentSequenceValue, SeqAt, IsJob
  <2>11. CASE setSequenceValue
    BY <2>11, <1>1 DEF setSequenceValue, SeqAt, Stop, NoJob, IsJob
  <2>12. QED
    BY <2>1, <2>2, <2>3, <2>4, <2>5, <2>6, <2>7, <2>8, <2>9, <2>10, <2>11
<1>4. QED
  BY <1>2, <1>3, QuietStep

LEMMA CopiedIsHonest == ASSUME NEW x PROVE Honest(Copied(x))
  BY DEF Honest, Copied, IsRow

\* The application is not at work in the data run, which writes the rows as they are.
LEMMA CopyStep == ASSUME LostInv, copyTable, CopiedFirst PROVE LostInv'
<1> USE MigrationAssumption DEF LostInv
<1>1. /\ edits = 0 /\ app = NoInsert
      /\ UNCHANGED <<public, app, edits, gone>>
  BY DEF CopiedFirst, copyTable, AppRests, OpenInv
<1>2. /\ IsJob(job')
      /\ job'.script = "data" \/ job'.at = "failed"
  BY DEF copyTable, DataAt, Goto, Stop, NoJob, IsJob, RowsInv
<1>3. DOMAIN tenant' = Table
  BY DEF copyTable, RowsInv
<1>4. tenant'["User"] = tenant["User"] \/ tenant'["User"] = Upserted("User")
  BY DEF copyTable, RowsInv
<1>5. \A j \in DOMAIN tenant'["User"] :
        j \in DOMAIN Source["User"] /\ tenant'["User"][j] = Copied(Source["User"][j])
  BY <1>1, <1>4 DEF OpenInv, RowsInv, Upserted, Ids
<1>6. Ids("User") \subseteq DOMAIN tenant'["User"]
  BY <1>4 DEF Upserted, Ids
<1>7. RowsInv'
  <2>1. \A j \in DOMAIN tenant'["User"] : Honest(tenant'["User"][j])
    BY <1>5, CopiedIsHonest
  <2>2. app'.table # "User"
    BY <1>1 DEF NoInsert
  <2>3. QED
    BY <1>1, <1>2, <1>3, <2>1, <2>2 DEF RowsInv, Ids
<1>8. OpenInv' /\ ListInv'
  BY <1>1, <1>2, <1>5 DEF OpenInv, ListInv, AtMember, StaffAt, Ids
<1>9. Remembers
  BY <1>1, <1>5, <1>6 DEF Remembers, OpenInv, Ids
<1>10. NobodyIsLost'
  BY <1>1, <1>9, NobodyLost
<1>11. QED
  BY <1>7, <1>8, <1>10

\* Who is looked for when the script is at a member.
LEMMA AtAMember ==
  ASSUME LostInv, job.script = "staff", job.at \in AtMember
  PROVE  /\ Member \in DOMAIN public["User"]
         /\ Person = Source["User"][Member] /\ Member \in DOMAIN Source["User"]
         /\ job.list # <<>> /\ job.list \in Seq(DOMAIN public["User"])
<1>1. job.list # <<>> /\ job.list \in Seq(DOMAIN public["User"])
  BY DEF LostInv, ListInv, AtMember
<1>2. Member \in DOMAIN public["User"]
  BY <1>1, HeadTailProperties DEF Member
<1>3. QED
  BY <1>1, <1>2 DEF LostInv, RowsInv, Person

\* The steps of the staff script that leave the rows alone.
LEMMA StaffGoesOn ==
  ASSUME LostInv, UNCHANGED <<public, tenant, app, edits, gone>>,
         IsJob(job'), ListInv', OpenInv'
  PROVE  LostInv'
<1>1. RowsInv'
  BY DEF LostInv, RowsInv, Ids
<1>2. NobodyIsLost'
  BY DEF LostInv, NobodyIsLost, Ids
<1>3. QED
  BY <1>1, <1>2 DEF LostInv

\* The members that remain when one has been seen to.
LEMMA RestOfList ==
  ASSUME NEW S, NEW l \in Seq(S), l # <<>>,
         \A m, n \in 1..Len(l) : m # n => l[m] # l[n]
  PROVE  /\ Tail(l) \in Seq(S \ {Head(l)})
         /\ \A m, n \in 1..Len(Tail(l)) : m # n => Tail(l)[m] # Tail(l)[n]
<1>1. /\ Tail(l) \in Seq(S) /\ Len(Tail(l)) = Len(l) - 1 /\ Len(l) \in Nat /\ Len(l) # 0
      /\ \A i \in 1..Len(Tail(l)) : Tail(l)[i] = l[i + 1]
      /\ Head(l) = l[1]
  BY HeadTailProperties, LenProperties, EmptySeq
<1>2. \A i \in 1..Len(Tail(l)) : Tail(l)[i] \in S \ {Head(l)}
  <2> SUFFICES ASSUME NEW i \in 1..Len(Tail(l)) PROVE Tail(l)[i] \in S \ {Head(l)}
    OBVIOUS
  <2>1. i + 1 \in 1..Len(l) /\ 1 \in 1..Len(l) /\ i + 1 # 1 /\ Tail(l)[i] = l[i + 1]
    BY <1>1
  <2>2. l[i + 1] \in S /\ l[i + 1] # l[1]
    BY <2>1, ElementOfSeq
  <2>3. QED
    BY <1>1, <2>1, <2>2
<1>3. \A m, n \in 1..Len(Tail(l)) : m # n => Tail(l)[m] # Tail(l)[n]
  <2> SUFFICES ASSUME NEW m \in 1..Len(Tail(l)), NEW n \in 1..Len(Tail(l)), m # n
               PROVE  Tail(l)[m] # Tail(l)[n]
    OBVIOUS
  <2>1. m + 1 \in 1..Len(l) /\ n + 1 \in 1..Len(l) /\ m + 1 # n + 1
    BY <1>1
  <2>2. QED
    BY <1>1, <2>1
<1>4. Tail(l) \in Seq(S \ {Head(l)})
  <2>1. Tail(l) \in [1..Len(Tail(l)) -> S] /\ Len(Tail(l)) \in Nat
    BY <1>1, LenProperties
  <2>2. Tail(l) \in [1..Len(Tail(l)) -> S \ {Head(l)}]
    BY <2>1, <1>2
  <2> DEFINE R == S \ {Head(l)}
  <2>3. Tail(l) \in [1..Len(Tail(l)) -> R]
    BY <2>2
  <2>4. Tail(l) \in Seq(R)
    <3> HIDE DEF R
    <3>1. QED
      BY <2>1, <2>3, SeqDef
  <2>5. QED
    BY <2>4
<1>5. QED
  BY <1>3, <1>4

LEMMA FindStaffStep == ASSUME LostInv, FindStaff PROVE LostInv'
<1> USE DEF LostInv
<1>1. UNCHANGED <<public, tenant, app, edits, gone>>
  BY DEF FindStaff, AppRests, StoreRests
<1>2. CASE Stop("done")
  <2>1. IsJob(job') /\ job'.at = "done"
    BY <1>2 DEF Stop, NoJob, IsJob
  <2>2. QED
    BY <1>1, <2>1, QuietStep
<1>3. CASE \E l \in SetToSeqs(DOMAIN public["User"]) :
             job' = [job EXCEPT !.at = "next", !.list = l]
  <2>1. PICK l \in SetToSeqs(DOMAIN public["User"]) :
          job' = [job EXCEPT !.at = "next", !.list = l]
    BY <1>3
  <2>2. DOMAIN public["User"] \subseteq 1..MaxId /\ MaxId \in Nat
    BY MigrationAssumption DEF RowsInv
  <2>3. Cardinality(DOMAIN public["User"]) \in Nat
    <3>1. IsFiniteSet(1..MaxId)
      BY <2>2, FS_Interval
    <3>2. IsFiniteSet(DOMAIN public["User"])
      BY <2>2, <3>1, FS_Subset
    <3>3. QED
      BY <3>2, FS_CardinalityType
  <2>4. /\ l \in [1..Cardinality(DOMAIN public["User"]) -> DOMAIN public["User"]]
        /\ \A i, j \in 1..Cardinality(DOMAIN public["User"]) : i # j => l[i] # l[j]
    BY DEF SetToSeqs
  <2>5. /\ l \in Seq(DOMAIN public["User"]) /\ Len(l) = Cardinality(DOMAIN public["User"])
    BY <2>3, <2>4, SeqDef, LenProperties
  <2>6. IsJob(job') /\ job'.at = "next" /\ job'.list = l
    BY <2>1 DEF RowsInv, IsJob
  <2>7. ListInv' /\ OpenInv'
    BY <1>1, <2>4, <2>5, <2>6 DEF ListInv, OpenInv, AtMember, StaffAt, Ids
  <2>8. QED
    BY <1>1, <2>6, <2>7, StaffGoesOn
<1>4. QED
  BY <1>2, <1>3 DEF FindStaff

LEMMA LookStep == ASSUME LostInv, LookForMember PROVE LostInv'
<1> USE DEF LostInv
<1>1. /\ UNCHANGED <<public, tenant, app, edits, gone>>
      /\ IsJob(job') /\ job'.list = job.list
      /\ job'.at = IF Existing # {} THEN "drop" ELSE "insert"
      /\ job.script = "staff" /\ job.at = "next" /\ job.list # <<>>
  BY DEF LookForMember, AppRests, StoreRests, StaffAt, Goto, RowsInv, IsJob
<1>2. Member \in DOMAIN public["User"]
  BY <1>1, HeadTailProperties DEF ListInv, Member
<1>3. ASSUME Existing # {} PROVE Known(Member)
  <2>1. PICK j \in Ids("User") : tenant["User"][j].key = Person.key
    BY <1>3 DEF Existing, Holders
  <2>2. Person.key = Source["User"][Member].key /\ Person.key \in StaffKeys
    BY <1>2 DEF Person, RowsInv, StaffKeys
  <2>3. QED
    BY <2>1, <2>2 DEF RowsInv, Honest, Known
<1>4. ListInv'
  BY <1>1, <1>3 DEF ListInv, AtMember, Known, Member, Ids
<1>5. OpenInv'
  BY <1>1 DEF OpenInv, StaffAt, Existing, Holders, Person, Member, Ids
<1>6. QED
  BY <1>1, <1>4, <1>5, StaffGoesOn

LEMMA VerifyStep == ASSUME LostInv, VerifyMember PROVE LostInv'
<1> USE DEF LostInv
<1>1. /\ UNCHANGED <<public, tenant, app, edits, gone>>
      /\ job.script = "staff" /\ job.at = "check" /\ IsJob(job)
  BY DEF VerifyMember, AppRests, StoreRests, StaffAt, RowsInv
<1>2. CASE NextMember
  <2>1. IsJob(job') /\ job'.list = Tail(job.list) /\ job'.at = "next"
    BY <1>1, <1>2 DEF NextMember, IsJob
  <2>2. /\ Tail(job.list) \in Seq(DOMAIN public["User"] \ {Head(job.list)})
        /\ \A m, n \in 1..Len(Tail(job.list)) : m # n => Tail(job.list)[m] # Tail(job.list)[n]
    BY <1>1, RestOfList DEF ListInv, AtMember
  <2>3. Tail(job.list) \in Seq(DOMAIN public["User"])
    BY <1>1, AtAMember, HeadTailProperties DEF AtMember
  <2>4. ListInv' /\ OpenInv'
    BY <1>1, <2>1, <2>2, <2>3 DEF ListInv, OpenInv, StaffAt, AtMember, Ids
  <2>5. QED
    BY <1>1, <2>1, <2>4, StaffGoesOn
<1>3. CASE Existing # {} /\ Goto("drop")
  <2>1. IsJob(job') /\ job'.list = job.list /\ job'.at = "drop"
    BY <1>1, <1>3 DEF Goto, IsJob
  <2>2. PICK j \in Ids("User") : tenant["User"][j].key = Person.key
    BY <1>3 DEF Existing, Holders
  <2>3. Person.key = Source["User"][Member].key /\ Person.key \in StaffKeys
    BY <1>1, AtAMember DEF StaffKeys, AtMember
  <2>4. Known(Member)
    BY <2>2, <2>3 DEF RowsInv, Honest, Known
  <2>5. ListInv' /\ OpenInv'
    BY <1>1, <2>1, <2>4 DEF ListInv, OpenInv, StaffAt, AtMember, Ids, Known, Member
  <2>6. QED
    BY <1>1, <2>1, <2>5, StaffGoesOn
<1>4. QED
  BY <1>2, <1>3 DEF VerifyMember

LEMMA DropStep == ASSUME LostInv, DropMember PROVE LostInv'
<1> USE MigrationAssumption DEF LostInv
<1>1. /\ UNCHANGED <<tenant, app, edits, gone>>
      /\ job.script = "staff" /\ job.at = "drop" /\ IsJob(job)
      /\ DOMAIN public = Table
  BY DEF DropMember, AppRests, StaffAt, RowsInv
<1>2. IsJob(job') /\ job'.list = Tail(job.list) /\ job'.at = "next"
  BY <1>1 DEF DropMember, NextMember, IsJob
<1>3. /\ DOMAIN public' = Table
      /\ DOMAIN public'["User"] = DOMAIN public["User"] \ {Member}
      /\ \A i \in DOMAIN public'["User"] : public'["User"][i] = public["User"][i]
  BY <1>1 DEF DropMember, Without
<1>4. RowsInv'
  BY <1>1, <1>2, <1>3 DEF RowsInv, Ids
<1>5. OpenInv'
  BY <1>1, <1>2 DEF OpenInv, StaffAt, Ids
<1>6. ListInv'
  <2>1. /\ Tail(job.list) \in Seq(DOMAIN public["User"] \ {Head(job.list)})
        /\ \A m, n \in 1..Len(Tail(job.list)) : m # n => Tail(job.list)[m] # Tail(job.list)[n]
    BY <1>1, RestOfList DEF ListInv, AtMember
  <2>2. QED
    BY <1>2, <1>3, <2>1 DEF ListInv, AtMember, Member
<1>7. Remembers
  BY <1>1 DEF Remembers, Ids
<1>8. NobodyIsLost'
  <2>1. Known(Member)
    BY <1>1 DEF ListInv, AtMember
  <2>2. QED
    BY <1>3, <1>7, <2>1, NobodyLost
<1>9. QED
  BY <1>4, <1>5, <1>6, <1>8

\* A row is added under an id that nobody has.
LEMMA RowAdded ==
  ASSUME LostInv, NEW i, NEW r, i \notin Ids("User"), Honest(r),
         tenant' = [tenant EXCEPT !["User"] = With(@, i, r)], UNCHANGED gone
  PROVE  /\ DOMAIN tenant' = Table
         /\ DOMAIN tenant'["User"] = Ids("User") \cup {i}
         /\ tenant'["User"][i] = r
         /\ \A j \in Ids("User") : tenant'["User"][j] = tenant["User"][j]
         /\ \A j \in DOMAIN tenant'["User"] : Honest(tenant'["User"][j])
         /\ Remembers
<1> USE MigrationAssumption DEF LostInv, RowsInv
<1>1. DOMAIN tenant' = Table /\ tenant'["User"] = With(tenant["User"], i, r)
  OBVIOUS
<1>2. /\ DOMAIN tenant'["User"] = Ids("User") \cup {i}
      /\ tenant'["User"][i] = r
      /\ \A j \in Ids("User") : tenant'["User"][j] = tenant["User"][j]
  BY <1>1 DEF With, Ids
<1>3. \A j \in DOMAIN tenant'["User"] : Honest(tenant'["User"][j])
  BY <1>2
<1>4. Remembers
  BY <1>2 DEF Remembers
<1>5. QED
  BY <1>1, <1>2, <1>3, <1>4

\* A step that keeps the public rows and loses nobody; the script is the same, where it
\* was or at a place that asks nothing more of it.
LEMMA RowsMove ==
  ASSUME LostInv, Remembers, RowsInv', OpenInv', UNCHANGED public,
         job'.script = job.script, job'.list = job.list, job'.at # "drop" \/ job' = job,
         job'.at # "next" \/ job' = job, job'.at \in AtMember => job.at \in AtMember
  PROVE  LostInv'
<1> USE DEF LostInv
<1>1. NobodyIsLost'
  BY NobodyLost
<1>2. ListInv'
  <2>1. CASE job' = job
    <3>1. ASSUME NEW i, Known(i) PROVE Known(i)'
      BY <3>1, StillKnown
    <3>2. (job.script = "staff" /\ job.at = "drop") => Known(Head(job.list))'
      BY <3>1, <2>1 DEF ListInv, AtMember, Member
    <3>3. QED
      BY <2>1, <3>2 DEF ListInv, AtMember, Member
  <2>2. CASE job' # job
    BY <2>2 DEF ListInv, AtMember
  <2>3. QED
    BY <2>1, <2>2
<1>3. QED
  BY <1>1, <1>2

LEMMA InsertMemberStep == ASSUME LostInv, InsertMember PROVE LostInv'
<1> USE MigrationAssumption DEF LostInv
<1>1. /\ UNCHANGED <<public, app, edits, gone>>
      /\ job.script = "staff" /\ job.at = "insert" /\ IsJob(job)
      /\ ~Waits("User", Member, Person.key)
  BY DEF InsertMember, AppRests, StaffAt, RowsInv
<1>2. Member \in DOMAIN Source["User"] /\ Person = Source["User"][Member]
  BY <1>1, AtAMember DEF AtMember
<1>3. CASE Free("User", Member, Person.key)
  <2>1. /\ tenant' = [tenant EXCEPT !["User"] = With(@, Member, Copied(Person))]
        /\ IsJob(job') /\ job'.at = "check" /\ job'.list = job.list /\ job'.script = "staff"
    BY <1>1, <1>3 DEF InsertMember, AddUser, Goto, IsJob
  <2>2. Member \notin Ids("User") /\ Honest(Copied(Person))
    BY <1>3, CopiedIsHonest DEF Free
  <2>3. /\ DOMAIN tenant' = Table
        /\ DOMAIN tenant'["User"] = Ids("User") \cup {Member}
        /\ tenant'["User"][Member] = Copied(Person)
        /\ \A j \in Ids("User") : tenant'["User"][j] = tenant["User"][j]
        /\ \A j \in DOMAIN tenant'["User"] : Honest(tenant'["User"][j])
        /\ Remembers
    BY <1>1, <2>1, <2>2, RowAdded
  <2>4. RowsInv'
    BY <1>1, <2>1, <2>3 DEF RowsInv, Ids, Waits
  <2>5. OpenInv'
    BY <1>1, <1>2, <2>1, <2>3 DEF OpenInv, StaffAt, Ids
  <2>6. QED
    BY <1>1, <2>1, <2>3, <2>4, <2>5, RowsMove DEF AtMember
<1>4. CASE ~Free("User", Member, Person.key)
  <2>1. /\ UNCHANGED tenant
        /\ IsJob(job') /\ job'.at = "again" /\ job'.list = job.list /\ job'.script = "staff"
    BY <1>1, <1>4 DEF InsertMember, Goto, IsJob
  <2>2. edits # 0
    <3> SUFFICES ASSUME edits = 0 PROVE FALSE
      OBVIOUS
    <3>1. Holders("User", Person.key) = {}
      BY <1>1 DEF OpenInv, StaffAt, Existing
    <3>2. Member \in Ids("User")
      BY <1>1, <1>4, <3>1 DEF Free
    <3>3. tenant["User"][Member] = Copied(Person)
      BY <1>2, <3>2 DEF OpenInv
    <3>4. Member \in Holders("User", Person.key)
      BY <3>2, <3>3 DEF Holders, Copied
    <3>5. QED
      BY <3>1, <3>4
  <2>3. RowsInv' /\ OpenInv'
    BY <1>1, <2>1, <2>2 DEF RowsInv, OpenInv, Ids
  <2>4. Remembers
    BY <1>1, <2>1 DEF Remembers, Ids
  <2>5. QED
    BY <1>1, <2>1, <2>3, <2>4, RowsMove DEF AtMember
<1>5. QED
  BY <1>3, <1>4

LEMMA InsertAgainStep == ASSUME LostInv, InsertAgain PROVE LostInv'
<1> USE MigrationAssumption DEF LostInv
<1> DEFINE id == seq["User"] + 1
<1>1. /\ UNCHANGED <<public, app, edits, gone>>
      /\ job.script = "staff" /\ job.at = "again" /\ IsJob(job) /\ edits # 0
      /\ ~Waits("User", id, Person.key)
  BY DEF InsertAgain, AppRests, StaffAt, RowsInv, OpenInv
<1>2. CASE Free("User", id, Person.key)
  <2>1. /\ tenant' = [tenant EXCEPT !["User"] = With(@, id, Copied(Person))]
        /\ IsJob(job') /\ job'.at = "check" /\ job'.list = job.list /\ job'.script = "staff"
    BY <1>1, <1>2 DEF InsertAgain, AddUser, Goto, IsJob
  <2>2. id \notin Ids("User") /\ Honest(Copied(Person))
    BY <1>2, CopiedIsHonest DEF Free
  <2>3. /\ DOMAIN tenant' = Table
        /\ DOMAIN tenant'["User"] = Ids("User") \cup {id}
        /\ \A j \in DOMAIN tenant'["User"] : Honest(tenant'["User"][j])
        /\ Remembers
    BY <1>1, <2>1, <2>2, RowAdded
  <2>4. RowsInv' /\ OpenInv'
    BY <1>1, <2>1, <2>3 DEF RowsInv, OpenInv, Ids, Waits
  <2>5. QED
    BY <1>1, <2>1, <2>3, <2>4, RowsMove DEF AtMember
<1>3. CASE ~Free("User", id, Person.key)
  <2>1. /\ UNCHANGED tenant /\ IsJob(job')
        /\ job'.script = "staff" /\ job'.at = "next" /\ job'.list = Tail(job.list)
    BY <1>1, <1>3 DEF InsertAgain, NextMember, IsJob
  <2>2. /\ \A m, n \in 1..Len(Tail(job.list)) : m # n => Tail(job.list)[m] # Tail(job.list)[n]
        /\ Tail(job.list) \in Seq(DOMAIN public["User"])
    BY <1>1, RestOfList, AtAMember, HeadTailProperties DEF ListInv, AtMember
  <2>3. ListInv' /\ OpenInv'
    BY <1>1, <2>1, <2>2 DEF ListInv, OpenInv, StaffAt, AtMember
  <2>4. QED
    BY <1>1, <2>1, <2>3, StaffGoesOn
<1>4. QED
  BY <1>2, <1>3

-----------------------------------------------------------------------------
(* The application *)

LEMMA InsertStep ==
  ASSUME LostInv, NEW t \in Table, NEW k, NEW p, Insert(t, k, p)
  PROVE  LostInv'
<1> USE DEF LostInv
<1>1. /\ UNCHANGED <<public, tenant, gone, job>> /\ edits' = edits + 1 /\ edits \in Nat
      /\ IsJob(job)
  BY DEF Insert, Acts, RowsInv
<1>2. app'.table = "User" => app'.id \notin Ids("User")
  <2>1. CASE Free(t, seq[t] + 1, k)
    BY <2>1 DEF Insert, Free
  <2>2. CASE ~Free(t, seq[t] + 1, k)
    BY <2>2, MigrationAssumption DEF Insert, NoInsert
  <2>3. QED
    BY <2>1, <2>2
<1>3. RowsInv' /\ OpenInv' /\ Remembers
  BY <1>1, <1>2 DEF RowsInv, OpenInv, Remembers, Ids
<1>4. QED
  BY <1>1, <1>3, RowsMove

LEMMA CommitStep == ASSUME LostInv, Commit PROVE LostInv'
<1> USE MigrationAssumption DEF LostInv
<1> DEFINE r == [key |-> app.row.key, who |-> app.row.key, parent |-> app.row.parent,
                 by |-> Born(app.table)]
<1>1. /\ UNCHANGED <<public, gone, job, edits>> /\ edits # 0 /\ edits \in Nat
      /\ IsJob(job) /\ app' = NoInsert
      /\ tenant' = [tenant EXCEPT ![app.table] = With(@, app.id, r)]
  BY DEF Commit, OpenInv, RowsInv
<1>2. Honest(r)
  BY DEF Honest, IsRow
<1>3. CASE app.table = "User"
  <2>1. app.id \notin Ids("User")
    BY <1>3 DEF RowsInv
  <2>2. tenant' = [tenant EXCEPT !["User"] = With(@, app.id, r)]
    BY <1>1, <1>3
  <2>3. /\ DOMAIN tenant' = Table
        /\ \A j \in DOMAIN tenant'["User"] : Honest(tenant'["User"][j])
        /\ Remembers
    <3> HIDE DEF r
    <3>1. QED
      BY <1>1, <1>2, <2>1, <2>2, RowAdded
  <2>4. RowsInv' /\ OpenInv'
    BY <1>1, <2>3 DEF RowsInv, OpenInv, NoInsert, Ids
  <2>5. QED
    BY <1>1, <2>3, <2>4, RowsMove
<1>4. CASE app.table # "User"
  <2>1. tenant'["User"] = tenant["User"] /\ DOMAIN tenant' = Table
    BY <1>1, <1>4 DEF RowsInv
  <2>2. RowsInv' /\ OpenInv' /\ Remembers
    BY <1>1, <2>1 DEF RowsInv, OpenInv, Remembers, NoInsert, Ids
  <2>3. QED
    BY <1>1, <2>2, RowsMove
<1>5. QED
  BY <1>3, <1>4

LEMMA RollbackStep == ASSUME LostInv, Rollback PROVE LostInv'
<1> USE MigrationAssumption DEF LostInv
<1>1. UNCHANGED <<public, tenant, gone, job, edits>> /\ app' = NoInsert /\ edits # 0
  BY DEF Rollback, OpenInv
<1>2. RowsInv' /\ OpenInv' /\ Remembers
  BY <1>1 DEF RowsInv, OpenInv, Remembers, NoInsert, Ids
<1>3. QED
  BY <1>1, <1>2, RowsMove

LEMMA ChangeStep ==
  ASSUME OwnNames, LostInv, NEW t \in Table, NEW i, NEW k, Change(t, i, k)
  PROVE  LostInv'
<1> USE MigrationAssumption DEF LostInv
<1> DEFINE r == tenant[t][i]
<1>1. /\ UNCHANGED <<public, gone, job, app>> /\ edits' = edits + 1 /\ edits \in Nat
      /\ IsJob(job) /\ DOMAIN tenant = Table
      /\ i \in Ids(t) /\ k \in NewKeys \cup {r.who}
  BY DEF Change, Acts, RowsInv
<1> DEFINE u == [tenant EXCEPT ![t][i].key = k]
<1>a. tenant' = [u EXCEPT ![t][i].by = IF @ = "own" THEN "own" ELSE "edit"]
  BY DEF Change
<1>2. DOMAIN u = Table /\ u[t] = [tenant[t] EXCEPT ![i] = [r EXCEPT !.key = k]]
      /\ \A x \in Table \ {t} : u[x] = tenant[x]
  BY <1>1
<1>b. /\ DOMAIN tenant' = Table
      /\ tenant'[t] = [u[t] EXCEPT ![i] = [u[t][i] EXCEPT !.by =
                        IF u[t][i].by = "own" THEN "own" ELSE "edit"]]
      /\ \A x \in Table \ {t} : tenant'[x] = tenant[x]
  <2> HIDE DEF u
  <2>1. QED
    BY <1>a, <1>2
<1>3. CASE t = "User"
  <2> DEFINE v == [r EXCEPT !.key = k]
             w == [v EXCEPT !.by = IF v.by = "own" THEN "own" ELSE "edit"]
  <2>1. /\ DOMAIN tenant' = Table
        /\ DOMAIN tenant'["User"] = Ids("User")
        /\ \A j \in Ids("User") \ {i} : tenant'["User"][j] = tenant["User"][j]
        /\ tenant'["User"][i] = w
    <3>1. u["User"] = [tenant["User"] EXCEPT ![i] = v]
      BY <1>2, <1>3
    <3>2. DOMAIN u["User"] = Ids("User") /\ u["User"][i] = v
          /\ \A j \in Ids("User") \ {i} : u["User"][j] = tenant["User"][j]
      <4> HIDE DEF u, v
      <4>1. QED
        BY <3>1, <1>1, <1>3 DEF Ids
    <3>3. tenant'["User"] = [u["User"] EXCEPT ![i] = w]
      <4> HIDE DEF u, v
      <4>1. QED
        BY <3>2, <1>b, <1>3
    <3> HIDE DEF u, v, w
    <3>4. QED
      BY <3>2, <3>3, <1>b, <1>1, <1>3
  <2>2. IsRow(r) /\ (r.key \in StaffKeys => r.who = r.key)
    BY <1>1, <1>3 DEF RowsInv, Honest
  <2>3. IsRow(w) /\ w.key = k /\ w.who = r.who
    <3> HIDE DEF r
    <3>1. v = [key |-> k, who |-> r.who, parent |-> r.parent, by |-> r.by]
      BY <2>2 DEF IsRow
    <3> HIDE DEF v
    <3>2. w = [key |-> k, who |-> r.who, parent |-> r.parent,
               by |-> IF r.by = "own" THEN "own" ELSE "edit"]
      BY <3>1
    <3> HIDE DEF w
    <3>3. QED
      BY <3>2 DEF IsRow
  <2>4. tenant'["User"][i].who = r.who /\ Honest(tenant'["User"][i])
    <3>1. k \in StaffKeys => k = r.who
      BY <1>1 DEF OwnNames
    <3> HIDE DEF r, v, w
    <3>2. QED
      BY <2>1, <2>3, <3>1 DEF Honest
  <2>5. RowsInv' /\ OpenInv'
    BY <1>1, <2>1, <2>4 DEF RowsInv, OpenInv, Ids
  <2>6. Remembers
    BY <1>1, <1>3, <2>1, <2>4 DEF Remembers, Ids
  <2>7. QED
    BY <1>1, <2>5, <2>6, RowsMove
<1>4. CASE t # "User"
  <2>1. tenant'["User"] = tenant["User"] /\ DOMAIN tenant' = Table
    BY <1>b, <1>4
  <2>2. RowsInv' /\ OpenInv' /\ Remembers
    BY <1>1, <2>1 DEF RowsInv, OpenInv, Remembers, Ids
  <2>3. QED
    BY <1>1, <2>2, RowsMove
<1>5. QED
  BY <1>3, <1>4

LEMMA DeleteStep == ASSUME LostInv, NEW t \in Table, NEW i, Delete(t, i) PROVE LostInv'
<1> USE MigrationAssumption DEF LostInv
<1>1. /\ UNCHANGED <<public, job, app>> /\ edits' = edits + 1 /\ edits \in Nat
      /\ IsJob(job) /\ DOMAIN tenant = Table
      /\ gone' = gone \cup {tenant[t][i].who}
      /\ tenant' = [tenant EXCEPT ![t] = Without(@, i)]
  BY DEF Delete, Acts, RowsInv
<1>2. CASE t = "User"
  <2>1. /\ DOMAIN tenant' = Table
        /\ DOMAIN tenant'["User"] = Ids("User") \ {i}
        /\ \A j \in Ids("User") \ {i} : tenant'["User"][j] = tenant["User"][j]
    BY <1>1, <1>2 DEF Without, Ids
  <2>2. RowsInv' /\ OpenInv'
    BY <1>1, <2>1 DEF RowsInv, OpenInv, Ids
  <2>3. Remembers
    BY <1>1, <1>2, <2>1 DEF Remembers, Ids
  <2>4. QED
    BY <1>1, <2>2, <2>3, RowsMove
<1>3. CASE t # "User"
  <2>1. tenant'["User"] = tenant["User"] /\ DOMAIN tenant' = Table
    BY <1>1, <1>3
  <2>2. RowsInv' /\ OpenInv' /\ Remembers
    BY <1>1, <2>1 DEF RowsInv, OpenInv, Remembers, Ids
  <2>3. QED
    BY <1>1, <2>2, RowsMove
<1>4. QED
  BY <1>2, <1>3

LEMMA LostStep ==
  ASSUME OwnNames, LostInv, [MigrationNext /\ CopiedFirst]_migrationVars
  PROVE  LostInv'
<1>1. CASE UNCHANGED migrationVars
  <2>1. IsJob(job)
    BY DEF LostInv, RowsInv
  <2>2. RowsInv' /\ OpenInv' /\ Remembers
    BY <1>1 DEF migrationVars, LostInv, RowsInv, OpenInv, Remembers, StaffAt, Existing,
                Holders, Person, Member, Ids
  <2>3. QED
    BY <1>1, <2>2, RowsMove DEF migrationVars
<1>2. CASE ScriptNext /\ CopiedFirst
  BY <1>2, OtherScripts, CopyStep, FindStaffStep, LookStep, InsertMemberStep,
     InsertAgainStep, VerifyStep, DropStep DEF ScriptNext
<1>3. CASE AppNext
  BY <1>3, InsertStep, CommitStep, RollbackStep, ChangeStep, DeleteStep DEF AppNext
<1>4. QED
  BY <1>1, <1>2, <1>3 DEF MigrationNext

\* For any tables, public rows and names: moving the staff loses nobody, wherever the
\* scripts die and are repeated and whatever the restaurant's application does beside
\* them.  Two conditions are needed: the application gives nobody the e-mail of another
\* member of the public staff, and rows are not copied again once the application has
\* written any.
THEOREM NobodyIsLostAlways ==
  ASSUME OwnNames
  PROVE  MigrationInit /\ [][MigrationNext /\ CopiedFirst]_migrationVars => []NobodyIsLost
<1>1. LostInv => NobodyIsLost
  BY DEF LostInv
<1>2. MigrationInit => LostInv
  BY LostStart
<1>3. LostInv /\ [MigrationNext /\ CopiedFirst]_migrationVars => LostInv'
  BY LostStep
<1>4. QED
  BY <1>1, <1>2, <1>3, PTL

-----------------------------------------------------------------------------
(* Moving the rows: what every table, and every script, keeps to *)

PublicInv ==
  /\ DOMAIN public = Table
  /\ \A t \in Table : \A i \in DOMAIN public[t] :
       i \in DOMAIN Source[t] /\ public[t][i] = Source[t][i]

\* Committed rows: their ids and types, unique keys, parents.
StoreInv ==
  /\ DOMAIN tenant = Table
  /\ \A t \in Table :
       /\ Ids(t) \subseteq 1..MaxId
       /\ \A i \in Ids(t) : tenant[t][i] \in Row
       /\ \A i, j \in Ids(t) : tenant[t][i].key = tenant[t][j].key => i = j
       /\ Refers[t] # NoTable =>
            \A i \in Ids(t) : tenant[t][i].parent \in Ids(Refers[t])

\* The row of the open transaction can be committed.
InsertInv ==
  app # NoInsert =>
    /\ app.table \in Table /\ app.id \in 1..MaxId /\ app.id \notin Ids(app.table)
    /\ app.row.key \in Key /\ Holders(app.table, app.row.key) = {}
    /\ app.row.parent \in 0..MaxId
    /\ Refers[app.table] # NoTable => app.row.parent \in Ids(Refers[app.table])

CountersInv ==
  /\ seq \in [Table -> 0..MaxId] /\ edits \in 0..MaxEdits /\ quiet \in BOOLEAN
  /\ settled \subseteq Table /\ gone \subseteq Key

Ended == {"off", "done", "failed"}

\* Where a script is, and what it relies on of the schema there.
ScriptInv ==
  /\ IsJob(job) /\ job.script \in {"none"} \cup Scripts
  /\ job.n \in 0..Len(Tables) /\ (job.at \notin Ended => job.n \in 1..Len(Tables))
  /\ job.list \in Seq(0..MaxId) /\ job.seen \in 0..MaxId /\ job.last \in 0..MaxId
  /\ schema \in {"none", "bare", "ready"}
  /\ linked \in BOOLEAN /\ (linked => schema = "ready")
  /\ DataAt("create") => schema = "none"
  /\ DataAt("ddl") => schema = "bare"
  /\ job.script = "data" /\ job.at \in {"link", "reset", "staff", "verify", "accept"}
       => schema = "ready"

\* The staff to be moved: whoever is still on the list is on the public staff.
MemberInv ==
  job.script = "staff" /\ job.at \in {"next"} \cup AtMember =>
    /\ job.list \in Seq(DOMAIN public["User"])
    /\ \A m, n \in 1..Len(job.list) : m # n => job.list[m] # job.list[n]
    /\ job.at # "next" => job.list # <<>>

SchemaInv == PublicInv /\ StoreInv /\ InsertInv /\ CountersInv /\ ScriptInv /\ MemberInv

-----------------------------------------------------------------------------

LEMMA TablesAre ==
  /\ Len(Tables) \in Nat /\ 1 \in 1..Len(Tables) /\ Tables[Len(Tables)] = "User"
  /\ \A n \in 1..Len(Tables) : Tables[n] \in Table
  /\ \A t \in Table : \E n \in 1..Len(Tables) : Tables[n] = t
  /\ \A m, n \in 1..Len(Tables) : Tables[m] = Tables[n] => m = n
<1>1. Tables \in Seq(Table) /\ IsInjective(Tables) /\ Tables[Len(Tables)] = "User"
  BY TablesAssumption
<1>2. Len(Tables) \in Nat /\ DOMAIN Tables = 1..Len(Tables)
      /\ \A n \in 1..Len(Tables) : Tables[n] \in Table
  BY <1>1
<1>3. Table = {Tables[n] : n \in 1..Len(Tables)}
  BY <1>2 DEF Table, ToSet
<1>4. 1 \in 1..Len(Tables)
  <2>1. PICK n \in 1..Len(Tables) : Tables[n] = "User"
    BY <1>3, MigrationAssumption
  <2> QED
    BY <1>2, <2>1
<1> QED
  BY <1>1, <1>2, <1>3, <1>4 DEF IsInjective

LEMMA JobMoves ==
  ASSUME NEW at
  PROVE  /\ Goto(at) /\ IsJob(job) =>
              /\ IsJob(job') /\ job'.script = job.script /\ job'.at = at /\ job'.n = job.n
              /\ job'.list = job.list /\ job'.seen = job.seen /\ job'.last = job.last
         /\ Stop(at) =>
              /\ IsJob(job') /\ job'.script = job.script /\ job'.at = at /\ job'.n = 0
              /\ job'.list = <<>> /\ job'.seen = 0 /\ job'.last = 0
BY DEF Goto, Stop, NoJob, IsJob

LEMMA SourceIs ==
  ASSUME NEW t \in Table, NEW i \in DOMAIN Source[t]
  PROVE  /\ i \in 1..MaxId /\ Source[t][i].key \in Key /\ Source[t][i].parent \in 0..MaxId
         /\ Copied(Source[t][i]) \in Row
         /\ \A j \in DOMAIN Source[t] : Source[t][j].key = Source[t][i].key => j = i
<1>1. Source[t][i].key \in Key /\ Source[t][i].parent \in 0..MaxId
      /\ \A j \in DOMAIN Source[t] : Source[t][j].key = Source[t][i].key => j = i
  BY TablesAssumption
<1> QED
  BY <1>1, MigrationAssumption DEF Copied, Row, Origin

\* The largest id in a table.
LEMMA HighestIs ==
  ASSUME NEW t \in Table, Ids(t) \subseteq 1..MaxId
  PROVE  /\ Highest(t) \in 0..MaxId /\ \A i \in Ids(t) : i <= Highest(t)
         /\ Highest(t) \in {0} \cup Ids(t)
<1> DEFINE S == {0} \cup Ids(t)
<1>0. MaxId \in Nat /\ MaxId \in Nat \ {0}
  BY MigrationAssumption
<1>1. S \subseteq 0..MaxId /\ S # {}
  BY <1>0
<1>2. IsFiniteSet(0..MaxId)
  BY <1>0, FS_Interval
<1>3. IsFiniteSet(S) /\ S \subseteq Nat
  BY <1>0, <1>1, <1>2, FS_Subset
<1>4. \E n \in S : \A m \in S : n >= m
  BY <1>1, <1>3, LargestExists
<1>5. Max(S) \in S /\ \A m \in S : Max(S) >= m
  BY <1>4 DEF Max
<1>6. Highest(t) = Max(S)
  BY DEF Highest
<1>7. \A i \in Ids(t) : i \in Nat /\ Max(S) >= i
  BY <1>3, <1>5
<1>8. Max(S) \in 0..MaxId /\ Max(S) \in Nat
  BY <1>1, <1>3, <1>5
<1> HIDE DEF S
<1>9. \A i \in Ids(t) : i <= Max(S)
  BY <1>7, <1>8
<1> QED
  BY <1>5, <1>6, <1>8, <1>9 DEF S

LEMMA ResetIs ==
  ASSUME NEW t \in Table, Ids(t) \subseteq 1..MaxId
  PROVE  ResetTo(t) \in 0..MaxId /\ Highest(t) <= ResetTo(t)
<1>0. MaxId \in Nat \ {0} /\ Highest(t) \in 0..MaxId /\ Highest(t) \in {0} \cup Ids(t)
  BY HighestIs, MigrationAssumption
<1>1. CASE Ids(t) = {}
  BY <1>0, <1>1 DEF ResetTo
<1>2. CASE Ids(t) # {}
  BY <1>0, <1>2 DEF ResetTo
<1> QED
  BY <1>1, <1>2

-----------------------------------------------------------------------------
(* How the rows change *)

LEMMA RowArrives ==
  ASSUME SchemaInv, NEW t \in Table, NEW i \in 1..MaxId, NEW r \in Row,
         i \notin Ids(t), Holders(t, r.key) = {},
         Refers[t] # NoTable => r.parent \in Ids(Refers[t]),
         tenant' = [tenant EXCEPT ![t] = With(@, i, r)]
  PROVE  /\ StoreInv'
         /\ \A u \in Table \ {t} : tenant'[u] = tenant[u]
         /\ DOMAIN tenant'[t] = Ids(t) \cup {i}
         /\ tenant'[t][i] = r /\ \A j \in Ids(t) : tenant'[t][j] = tenant[t][j]
<1> USE DEF SchemaInv, StoreInv
<1>1. DOMAIN tenant' = Table /\ tenant'[t] = With(tenant[t], i, r)
      /\ \A u \in Table \ {t} : tenant'[u] = tenant[u]
  OBVIOUS
<1>2. /\ DOMAIN tenant'[t] = Ids(t) \cup {i} /\ tenant'[t][i] = r
      /\ \A j \in Ids(t) : tenant'[t][j] = tenant[t][j]
  BY <1>1 DEF With, Ids
<1>3. \A j \in Ids(t) : tenant[t][j].key # r.key
  BY DEF Holders
<1>4. ASSUME NEW u \in Table
      PROVE  /\ DOMAIN tenant'[u] \subseteq 1..MaxId
             /\ \A j \in DOMAIN tenant'[u] : tenant'[u][j] \in Row
             /\ \A j, k \in DOMAIN tenant'[u] : tenant'[u][j].key = tenant'[u][k].key => j = k
             /\ Ids(u) \subseteq DOMAIN tenant'[u]
  BY <1>1, <1>2, <1>3 DEF Ids
<1>5. ASSUME NEW u \in Table, Refers[u] # NoTable, NEW j \in DOMAIN tenant'[u]
      PROVE  tenant'[u][j].parent \in DOMAIN tenant'[Refers[u]]
  <2>1. Refers[u] \in Table
    BY <1>5, TablesAssumption
  <2>2. tenant'[u][j].parent \in Ids(Refers[u])
    BY <1>1, <1>2, <1>5 DEF Ids
  <2> QED
    BY <1>4, <2>1, <2>2
<1> QED
  BY <1>1, <1>2, <1>4, <1>5 DEF Ids

\* The open transaction can still be committed.
LEMMA InsertWaits ==
  ASSUME SchemaInv, app' = app,
         \A u \in Table : Ids(u) \subseteq DOMAIN tenant'[u],
         app # NoInsert =>
           /\ app.id \notin DOMAIN tenant'[app.table]
           /\ \A j \in DOMAIN tenant'[app.table] : tenant'[app.table][j].key # app.row.key
  PROVE  InsertInv'
<1> SUFFICES ASSUME app # NoInsert PROVE InsertInv'
  BY DEF InsertInv, NoInsert
<1>1. /\ app.table \in Table /\ app.id \in 1..MaxId
      /\ app.row.key \in Key /\ app.row.parent \in 0..MaxId
      /\ Refers[app.table] # NoTable => app.row.parent \in Ids(Refers[app.table])
  BY DEF SchemaInv, InsertInv
<1>2. Refers[app.table] # NoTable => app.row.parent \in DOMAIN tenant'[Refers[app.table]]
  BY <1>1, TablesAssumption
<1> QED
  BY <1>1, <1>2 DEF InsertInv, Ids, Holders

LEMMA CopyRows ==
  ASSUME SchemaInv, copyTable, ~Refused(Here)
  PROVE  /\ StoreInv' /\ InsertInv' /\ Here \in Table
         /\ \A u \in Table \ {Here} : tenant'[u] = tenant[u]
         /\ DOMAIN tenant'[Here] = Ids(Here) \cup DOMAIN public[Here]
         /\ \A i \in DOMAIN tenant'[Here] :
              tenant'[Here][i] = IF i \in DOMAIN public[Here] THEN Copied(public[Here][i])
                                 ELSE tenant[Here][i]
<1> USE DEF SchemaInv, StoreInv, PublicInv
<1>0. Here \in Table
  <2>1. job.n \in 1..Len(Tables)
    BY DEF copyTable, DataAt, ScriptInv, Ended
  <2> QED
    BY <2>1, TablesAre DEF Here
<1> DEFINE t == Here
           P == DOMAIN public[t]
<1>1. /\ tenant' = [tenant EXCEPT ![t] = Upserted(t)] /\ app' = app
      /\ \A i \in P : ~Waits(t, i, public[t][i].key)
  BY DEF copyTable, AppRests
<1>2. /\ \A i \in P : \A j \in Ids(t) : tenant[t][j].key = public[t][i].key => j = i
      /\ Refers[t] # NoTable => \A i \in P : public[t][i].parent \in Ids(Refers[t])
  BY DEF Refused, Holders
<1>3. /\ DOMAIN tenant' = Table /\ tenant'[t] = Upserted(t)
      /\ \A u \in Table \ {t} : tenant'[u] = tenant[u]
  BY <1>0, <1>1
<1>4. /\ DOMAIN tenant'[t] = Ids(t) \cup P
      /\ \A i \in DOMAIN tenant'[t] :
           tenant'[t][i] = IF i \in P THEN Copied(public[t][i]) ELSE tenant[t][i]
  BY <1>3 DEF Upserted
<1> HIDE DEF t
<1>5. ASSUME NEW i \in P
      PROVE  /\ i \in 1..MaxId /\ tenant'[t][i] \in Row /\ i \in DOMAIN Source[t]
             /\ tenant'[t][i].key = Source[t][i].key
             /\ tenant'[t][i].parent = public[t][i].parent
             /\ public[t][i] = Source[t][i]
  <2>1. i \in DOMAIN Source[t] /\ public[t][i] = Source[t][i]
    BY <1>0 DEF t
  <2>2. tenant'[t][i] = Copied(Source[t][i])
    BY <1>4, <2>1
  <2>3. i \in 1..MaxId /\ Copied(Source[t][i]) \in Row
    BY <1>0, <2>1, SourceIs DEF t
  <2> QED
    BY <2>1, <2>2, <2>3 DEF Copied
<1>6. ASSUME NEW i \in Ids(t), i \notin P
      PROVE  i \in 1..MaxId /\ tenant'[t][i] \in Row /\ tenant'[t][i] = tenant[t][i]
  BY <1>0, <1>4, <1>6 DEF t
<1>7. /\ DOMAIN tenant'[t] \subseteq 1..MaxId
      /\ \A i \in DOMAIN tenant'[t] : tenant'[t][i] \in Row
  BY <1>4, <1>5, <1>6
<1>8. ASSUME NEW i \in DOMAIN tenant'[t], NEW j \in DOMAIN tenant'[t],
             tenant'[t][i].key = tenant'[t][j].key
      PROVE  i = j
  <2>1. CASE i \in P /\ j \in P
    BY <1>0, <1>5, <1>8, <2>1, SourceIs DEF t
  <2>2. CASE i \in P /\ j \notin P
    BY <1>2, <1>4, <1>5, <1>6, <1>8, <2>2
  <2>3. CASE i \notin P /\ j \in P
    BY <1>2, <1>4, <1>5, <1>6, <1>8, <2>3
  <2>4. CASE i \notin P /\ j \notin P
    BY <1>0, <1>4, <1>6, <1>8, <2>4 DEF t
  <2> QED
    BY <2>1, <2>2, <2>3, <2>4
<1>9. \A u \in Table : Ids(u) \subseteq DOMAIN tenant'[u]
  BY <1>3, <1>4 DEF Ids
<1>10. ASSUME NEW u \in Table, Refers[u] # NoTable, NEW j \in DOMAIN tenant'[u]
       PROVE  tenant'[u][j].parent \in DOMAIN tenant'[Refers[u]]
  <2>1. Refers[u] \in Table
    BY <1>10, TablesAssumption
  <2>2. tenant'[u][j].parent \in Ids(Refers[u])
    <3>1. CASE u # t
      BY <1>3, <1>10, <3>1 DEF Ids
    <3>2. CASE u = t /\ j \in P
      BY <1>2, <1>5, <1>10, <3>2
    <3>3. CASE u = t /\ j \notin P
      BY <1>4, <1>6, <1>10, <3>3
    <3> QED
      BY <3>1, <3>2, <3>3
  <2> QED
    BY <1>9, <2>1, <2>2
<1>11. StoreInv'
  <2>1. ASSUME NEW u \in Table
        PROVE  /\ DOMAIN tenant'[u] \subseteq 1..MaxId
               /\ \A j \in DOMAIN tenant'[u] : tenant'[u][j] \in Row
               /\ \A j, k \in DOMAIN tenant'[u] : tenant'[u][j].key = tenant'[u][k].key => j = k
    <3>1. CASE u # t
      BY <1>3, <3>1 DEF Ids
    <3>2. CASE u = t
      BY <1>7, <1>8, <3>2
    <3> QED
      BY <3>1, <3>2
  <2> QED
    BY <1>3, <1>10, <2>1 DEF Ids
<1>12. InsertInv'
  <2>1. ASSUME app # NoInsert
        PROVE  /\ app.id \notin DOMAIN tenant'[app.table]
               /\ \A j \in DOMAIN tenant'[app.table] :
                    tenant'[app.table][j].key # app.row.key
    <3>0. /\ app.table \in Table /\ app.id \notin Ids(app.table)
          /\ \A j \in Ids(app.table) : tenant[app.table][j].key # app.row.key
      BY <2>1 DEF InsertInv, Holders
    <3>1. CASE app.table # t
      BY <1>3, <3>0, <3>1 DEF Ids
    <3>2. CASE app.table = t
      <4>1. \A i \in P : app.id # i /\ app.row.key # public[t][i].key
        BY <1>1, <3>2 DEF Waits
      <4>2. \A i \in P : tenant'[t][i].key = public[t][i].key
        BY <1>5
      <4> QED
        BY <1>4, <1>6, <3>0, <3>2, <4>1, <4>2
    <3> QED
      BY <3>1, <3>2
  <2> QED
    BY <1>1, <1>9, <2>1, InsertWaits
<1> QED
  BY <1>0, <1>3, <1>4, <1>11, <1>12 DEF t

LEMMA RowChanges ==
  ASSUME SchemaInv, NEW t \in Table, NEW i \in 1..MaxId, NEW k \in Key, Change(t, i, k)
  PROVE  /\ StoreInv' /\ InsertInv' /\ i \in Ids(t)
         /\ \A u \in Table \ {t} : tenant'[u] = tenant[u]
         /\ DOMAIN tenant'[t] = Ids(t)
         /\ \A j \in Ids(t) \ {i} : tenant'[t][j] = tenant[t][j]
         /\ tenant'[t][i].who = tenant[t][i].who
         /\ tenant[t][i].by = "own" => tenant'[t][i].by = "own"
         /\ tenant'[t][i].by = "own" => tenant[t][i].by = "own"
<1> USE DEF SchemaInv, StoreInv
<1> DEFINE r == tenant[t][i]
           by1 == IF r.by = "own" THEN "own" ELSE "edit"
<1>1. /\ i \in Ids(t) /\ app' = app /\ Holders(t, k) \subseteq {i} /\ ~Waits(t, 0, k)
      /\ tenant' = [tenant EXCEPT ![t][i].key = k,
                              ![t][i].by = IF @ = "own" THEN "own" ELSE "edit"]
  BY DEF Change
<1>2. r \in Row /\ DOMAIN tenant = Table
  BY <1>1
<1>3. r = [key |-> r.key, who |-> r.who, parent |-> r.parent, by |-> r.by]
  BY <1>2 DEF Row
<1> DEFINE u == [tenant EXCEPT ![t][i].key = k]
<1>4. DOMAIN u = Table /\ u[t] = [tenant[t] EXCEPT ![i] = [r EXCEPT !.key = k]]
      /\ \A x \in Table \ {t} : u[x] = tenant[x]
  BY <1>2
<1>5. DOMAIN u[t] = Ids(t) /\ u[t][i] = [r EXCEPT !.key = k]
      /\ \A j \in Ids(t) \ {i} : u[t][j] = tenant[t][j]
  <2> HIDE DEF u
  <2> QED
    BY <1>1, <1>4 DEF Ids
<1>6. [r EXCEPT !.key = k] = [key |-> k, who |-> r.who, parent |-> r.parent, by |-> r.by]
  <2> HIDE DEF r
  <2> QED
    BY <1>3
<1>7. tenant' = [u EXCEPT ![t][i].by = IF @ = "own" THEN "own" ELSE "edit"]
  BY <1>1
<1> HIDE DEF u
<1>8. /\ DOMAIN tenant' = Table
      /\ tenant'[t] = [u[t] EXCEPT ![i] = [u[t][i] EXCEPT !.by =
                        IF u[t][i].by = "own" THEN "own" ELSE "edit"]]
      /\ \A x \in Table \ {t} : tenant'[x] = tenant[x]
  BY <1>4, <1>7
<1>9. /\ DOMAIN tenant'[t] = Ids(t) /\ \A j \in Ids(t) \ {i} : tenant'[t][j] = tenant[t][j]
      /\ tenant'[t][i] = [u[t][i] EXCEPT !.by =
                            IF u[t][i].by = "own" THEN "own" ELSE "edit"]
  <2>1. PICK f : f = u[t]
    OBVIOUS
  <2>2. PICK c : c = [f[i] EXCEPT !.by = IF f[i].by = "own" THEN "own" ELSE "edit"]
    OBVIOUS
  <2>3. tenant'[t] = [f EXCEPT ![i] = c]
    BY <1>8, <2>1, <2>2
  <2>4. i \in DOMAIN f /\ DOMAIN f = Ids(t) /\ \A j \in Ids(t) \ {i} : f[j] = tenant[t][j]
    BY <1>1, <1>5, <2>1
  <2> QED
    BY <2>1, <2>2, <2>3, <2>4
<1>10. tenant'[t][i] = [key |-> k, who |-> r.who, parent |-> r.parent, by |-> by1]
  <2>1. PICK v : v = u[t][i]
    OBVIOUS
  <2>2. v = [key |-> k, who |-> r.who, parent |-> r.parent, by |-> r.by]
    BY <1>5, <1>6, <2>1
  <2>3. tenant'[t][i] = [v EXCEPT !.by = IF v.by = "own" THEN "own" ELSE "edit"]
    BY <1>9, <2>1
  <2> HIDE DEF r
  <2> QED
    BY <2>2, <2>3
<1>11. tenant'[t][i] \in Row
  BY <1>2, <1>10 DEF Row, Origin
<1>12. \A j \in Ids(t) \ {i} : tenant[t][j].key # k
  BY <1>1 DEF Holders
<1>13. StoreInv'
  <2>1. ASSUME NEW x \in Table
        PROVE  /\ DOMAIN tenant'[x] = Ids(x)
               /\ \A j \in Ids(x) : tenant'[x][j] \in Row
                                    /\ tenant'[x][j].parent = tenant[x][j].parent
               /\ \A j, l \in Ids(x) : tenant'[x][j].key = tenant'[x][l].key => j = l
    <3>1. CASE x # t
      BY <1>8, <3>1 DEF Ids
    <3>2. CASE x = t
      <4>1. \A j \in Ids(t) : tenant'[t][j] \in Row
                              /\ tenant'[t][j].parent = tenant[t][j].parent
        BY <1>9, <1>10, <1>11
      <4>2. \A j, l \in Ids(t) : tenant'[t][j].key = tenant'[t][l].key => j = l
        <5>1. tenant'[t][i].key = k
          BY <1>10
        <5>2. \A j \in Ids(t) \ {i} : tenant'[t][j].key = tenant[t][j].key
          BY <1>9
        <5>3. \A j, l \in Ids(t) : tenant[t][j].key = tenant[t][l].key => j = l
          OBVIOUS
        <5> HIDE DEF SchemaInv, StoreInv
        <5> QED
          BY <1>12, <5>1, <5>2, <5>3
      <4> QED
        BY <1>9, <3>2, <4>1, <4>2
    <3> QED
      BY <3>1, <3>2
  <2>2. \A x \in Table : Refers[x] # NoTable =>
          \A j \in Ids(x) : tenant'[x][j].parent \in DOMAIN tenant'[Refers[x]]
    BY <2>1, TablesAssumption
  <2> QED
    BY <1>8, <2>1, <2>2 DEF Ids
<1>14. InsertInv'
  <2>1. \A x \in Table : Ids(x) \subseteq DOMAIN tenant'[x]
    BY <1>8, <1>9 DEF Ids
  <2>2. ASSUME app # NoInsert
        PROVE  /\ app.id \notin DOMAIN tenant'[app.table]
               /\ \A j \in DOMAIN tenant'[app.table] :
                    tenant'[app.table][j].key # app.row.key
    <3>0. /\ app.table \in Table /\ app.id \notin Ids(app.table)
          /\ \A j \in Ids(app.table) : tenant[app.table][j].key # app.row.key
      BY <2>2 DEF InsertInv, Holders
    <3>1. CASE app.table # t
      BY <1>8, <3>0, <3>1 DEF Ids
    <3>2. CASE app.table = t
      <4>1. app.row.key # k /\ tenant'[t][i].key = k
        BY <1>1, <1>10, <3>2 DEF Waits
      <4> QED
        BY <1>9, <3>0, <3>2, <4>1
    <3> QED
      BY <3>1, <3>2
  <2> QED
    BY <1>1, <2>1, <2>2, InsertWaits
<1>15. /\ tenant'[t][i].who = r.who
       /\ r.by = "own" => tenant'[t][i].by = "own"
       /\ tenant'[t][i].by = "own" => r.by = "own"
  <2> HIDE DEF r
  <2> QED
    BY <1>10
<1> QED
  BY <1>1, <1>8, <1>9, <1>13, <1>14, <1>15

LEMMA RowGoes ==
  ASSUME SchemaInv, NEW t \in Table, NEW i \in 1..MaxId, Delete(t, i)
  PROVE  /\ StoreInv' /\ InsertInv' /\ i \in Ids(t)
         /\ \A u \in Table \ {t} : tenant'[u] = tenant[u]
         /\ DOMAIN tenant'[t] = Ids(t) \ {i}
         /\ \A j \in Ids(t) \ {i} : tenant'[t][j] = tenant[t][j]
<1> USE DEF SchemaInv, StoreInv
<1>1. /\ i \in Ids(t) /\ ~Referred(t, i) /\ app' = app
      /\ tenant' = [tenant EXCEPT ![t] = Without(@, i)]
  BY DEF Delete
<1>2. /\ DOMAIN tenant' = Table /\ tenant'[t] = Without(tenant[t], i)
      /\ \A u \in Table \ {t} : tenant'[u] = tenant[u]
  BY <1>1
<1>3. /\ DOMAIN tenant'[t] = Ids(t) \ {i}
      /\ \A j \in Ids(t) \ {i} : tenant'[t][j] = tenant[t][j]
  BY <1>2 DEF Without, Ids
<1>4. ASSUME NEW u \in Table
      PROVE  /\ DOMAIN tenant'[u] \subseteq Ids(u)
             /\ \A j \in DOMAIN tenant'[u] : tenant'[u][j] = tenant[u][j]
             /\ \A j \in Ids(u) : u # t \/ j # i => j \in DOMAIN tenant'[u]
  BY <1>2, <1>3 DEF Ids
<1>5. ASSUME NEW u \in Table, Refers[u] # NoTable, NEW j \in DOMAIN tenant'[u]
      PROVE  tenant'[u][j].parent \in DOMAIN tenant'[Refers[u]]
  <2>1. Refers[u] \in Table /\ tenant'[u][j] = tenant[u][j] /\ j \in Ids(u)
    BY <1>4, <1>5, TablesAssumption
  <2>2. tenant[u][j].parent \in Ids(Refers[u])
    BY <1>5, <2>1
  <2>3. Refers[u] # t \/ tenant[u][j].parent # i
    BY <1>1, <2>1 DEF Referred
  <2> QED
    BY <1>4, <2>1, <2>2, <2>3
<1>6. StoreInv'
  <2>1. ASSUME NEW u \in Table
        PROVE  /\ DOMAIN tenant'[u] \subseteq 1..MaxId
               /\ \A j \in DOMAIN tenant'[u] : tenant'[u][j] \in Row
               /\ \A j, k \in DOMAIN tenant'[u] : tenant'[u][j].key = tenant'[u][k].key => j = k
    BY <1>4
  <2> QED
    BY <1>2, <1>5, <2>1 DEF Ids
<1>7. InsertInv'
  <2> SUFFICES ASSUME app # NoInsert PROVE InsertInv'
    BY <1>1 DEF InsertInv
  <2>1. /\ app.table \in Table /\ app.id \in 1..MaxId /\ app.id \notin Ids(app.table)
        /\ app.row.key \in Key /\ Holders(app.table, app.row.key) = {}
        /\ app.row.parent \in 0..MaxId
        /\ Refers[app.table] # NoTable => app.row.parent \in Ids(Refers[app.table])
    BY DEF InsertInv
  <2>2. Refers[app.table] # NoTable => app.row.parent \in DOMAIN tenant'[Refers[app.table]]
    <3>1. Refers[app.table] = t => app.row.parent # i
      BY <1>1 DEF Referred
    <3> QED
      BY <1>4, <2>1, <3>1, TablesAssumption
  <2>3. \A j \in DOMAIN tenant'[app.table] : tenant'[app.table][j].key # app.row.key
    BY <1>4, <2>1 DEF Holders
  <2>4. app.id \notin DOMAIN tenant'[app.table]
    BY <1>4, <2>1
  <2> QED
    BY <1>1, <2>1, <2>2, <2>3, <2>4 DEF InsertInv, Ids, Holders
<1> QED
  BY <1>1, <1>2, <1>3, <1>6, <1>7

-----------------------------------------------------------------------------
(* Who writes what *)

Changes == \E t \in Table, i \in 1..MaxId, k \in Key : Change(t, i, k)
Deletes == \E t \in Table, i \in 1..MaxId : Delete(t, i)
Inserts == \E t \in Table, k \in Key, p \in 0..MaxId : Insert(t, k, p)

LEMMA WhoWrites ==
  ASSUME MigrationNext
  PROVE  /\ DropMember \/ UNCHANGED public
         /\ copyTable \/ InsertMember \/ InsertAgain \/ Commit \/ Changes \/ Deletes
            \/ UNCHANGED tenant
         /\ resetSequence \/ InsertAgain \/ setSequenceValue \/ Inserts \/ UNCHANGED seq
         /\ Inserts \/ Commit \/ Rollback \/ UNCHANGED app
         /\ resetSequence \/ UNCHANGED settled
         /\ Deletes \/ UNCHANGED gone
         /\ ScriptNext \/ UNCHANGED <<job, schema, linked>>
<1>1. CASE \E s \in Scripts : Start(s)
  BY <1>1 DEF Start, StoreRests, ScriptNext
<1>2. CASE \/ Crash \/ ensureTenantSchema \/ CreateSchema \/ MakeTables \/ LinkCreated
           \/ verifyStaffUsers \/ verifyMigration \/ LinkVerified
  BY <1>2 DEF Crash, ensureTenantSchema, CreateSchema, MakeTables, LinkCreated,
     verifyStaffUsers, verifyMigration, LinkVerified, AppRests, StoreRests, ScriptNext
<1>3. CASE copyTable \/ resetSequence
  BY <1>3 DEF copyTable, resetSequence, AppRests, ScriptNext
<1>4. CASE FindStaff \/ LookForMember \/ VerifyMember \/ DropMember \/ StaffDone
  BY <1>4 DEF FindStaff, LookForMember, VerifyMember, DropMember, StaffDone, AppRests,
     StoreRests, ScriptNext
<1>5. CASE InsertMember \/ InsertAgain
  BY <1>5 DEF InsertMember, InsertAgain, AppRests, ScriptNext
<1>6. CASE FindSchema \/ getMaxId \/ getCurrentSequenceValue \/ setSequenceValue
  BY <1>6 DEF FindSchema, getMaxId, getCurrentSequenceValue, setSequenceValue, AppRests,
     StoreRests, ScriptNext
<1>7. CASE Inserts
  BY <1>7 DEF Inserts, Insert, Acts
<1>8. CASE Commit \/ Rollback
  BY <1>8 DEF Commit, Rollback
<1>9. CASE Changes
  BY <1>9 DEF Changes, Change, Acts
<1>10. CASE Deletes
  BY <1>10 DEF Deletes, Delete, Acts
<1> QED
  BY <1>1, <1>2, <1>3, <1>4, <1>5, <1>6, <1>7, <1>8, <1>9, <1>10
     DEF MigrationNext, ScriptNext, AppNext, Inserts, Changes, Deletes

\* The member a staff script is at.
LEMMA TheMember ==
  ASSUME SchemaInv, job.script = "staff", job.at \in AtMember
  PROVE  /\ Member \in DOMAIN public["User"] /\ Member \in 1..MaxId
         /\ Person = Source["User"][Member] /\ Copied(Person) \in Row
         /\ Person.key \in Key /\ Copied(Person).key = Person.key
         /\ job.list # <<>> /\ job.list \in Seq(DOMAIN public["User"])
<1>1. job.list # <<>> /\ job.list \in Seq(DOMAIN public["User"])
  BY DEF SchemaInv, MemberInv, AtMember
<1>2. Member \in DOMAIN public["User"]
  BY <1>1, HeadTailProperties DEF Member
<1>3. "User" \in Table
  BY MigrationAssumption
<1>4. Person = Source["User"][Member] /\ Member \in DOMAIN Source["User"]
  BY <1>2, <1>3 DEF SchemaInv, PublicInv, Person
<1>5. Member \in 1..MaxId /\ Copied(Person) \in Row /\ Person.key \in Key
  BY <1>3, <1>4, SourceIs
<1> QED
  BY <1>1, <1>2, <1>4, <1>5 DEF Copied

LEMMA PublicStep == ASSUME SchemaInv, MigrationNext PROVE PublicInv'
<1>1. CASE UNCHANGED public
  BY <1>1 DEF SchemaInv, PublicInv
<1>2. CASE DropMember
  <2>1. public' = [public EXCEPT !["User"] = Without(@, Member)] /\ DOMAIN public = Table
        /\ "User" \in Table
    BY <1>2, MigrationAssumption DEF DropMember, SchemaInv, PublicInv
  <2>2. /\ DOMAIN public' = Table
        /\ \A t \in Table : \A i \in DOMAIN public'[t] :
             i \in DOMAIN public[t] /\ public'[t][i] = public[t][i]
    BY <2>1 DEF Without
  <2> QED
    BY <2>2 DEF SchemaInv, PublicInv
<1> QED
  BY <1>1, <1>2, WhoWrites

LEMMA CountersStep == ASSUME SchemaInv, MigrationNext PROVE CountersInv'
<1> USE DEF SchemaInv, CountersInv
<1>0. MaxId \in Nat /\ MaxEdits \in Nat /\ "User" \in Table
  BY MigrationAssumption
<1>1. seq' \in [Table -> 0..MaxId]
  <2>1. CASE UNCHANGED seq
    BY <2>1
  <2>2. CASE resetSequence
    <3>1. Here \in Table /\ Ids(Here) \subseteq 1..MaxId
      <4>1. job.n \in 1..Len(Tables)
        BY <2>2 DEF resetSequence, DataAt, ScriptInv, Ended
      <4> QED
        BY <4>1, TablesAre DEF Here, StoreInv
    <3>2. ResetTo(Here) \in 0..MaxId
      BY <3>1, ResetIs
    <3> QED
      BY <2>2, <3>2 DEF resetSequence
  <2>3. CASE InsertAgain
    <3>1. seq["User"] \in 0..MaxId /\ seq["User"] < MaxId
      BY <1>0, <2>3 DEF InsertAgain
    <3>2. seq["User"] + 1 \in 0..MaxId
      BY <1>0, <3>1
    <3> QED
      BY <2>3, <3>2 DEF InsertAgain
  <2>4. CASE setSequenceValue
    BY <2>4 DEF setSequenceValue, ScriptInv
  <2>5. CASE Inserts
    <3>1. PICK t \in Table, k \in Key, p \in 0..MaxId : Insert(t, k, p)
      BY <2>5 DEF Inserts
    <3>2. seq[t] \in 0..MaxId /\ seq[t] < MaxId
      BY <3>1 DEF Insert
    <3>3. seq[t] + 1 \in 0..MaxId
      BY <1>0, <3>2
    <3> QED
      BY <3>1, <3>3 DEF Insert
  <2> QED
    BY <2>1, <2>2, <2>3, <2>4, <2>5, WhoWrites
<1>2. edits' \in 0..MaxEdits /\ quiet' \in BOOLEAN
  <2>1. CASE \E s \in Scripts : Start(s)
    BY <2>1 DEF Start
  <2>2. CASE ScriptNext /\ ~\E s \in Scripts : Start(s)
    BY <2>2 DEF ScriptNext, Crash, ensureTenantSchema, CreateSchema, MakeTables, LinkCreated,
       copyTable, resetSequence, verifyStaffUsers, verifyMigration, LinkVerified, FindStaff,
       LookForMember, InsertMember, InsertAgain, VerifyMember, DropMember, StaffDone,
       FindSchema, getMaxId, getCurrentSequenceValue, setSequenceValue, AppRests
  <2>3. CASE Commit \/ Rollback
    BY <2>3 DEF Commit, Rollback
  <2>4. CASE Acts
    <3>1. edits \in 0..MaxEdits /\ edits < MaxEdits /\ edits' = edits + 1 /\ quiet' = FALSE
      BY <2>4 DEF Acts
    <3>2. edits + 1 \in 0..MaxEdits
      <4> HIDE DEF SchemaInv, CountersInv
      <4> QED
        BY <1>0, <3>1
    <3> QED
      BY <3>1, <3>2
  <2>5. ASSUME Inserts \/ Changes \/ Deletes PROVE Acts
    BY <2>5 DEF Inserts, Changes, Deletes, Insert, Change, Delete
  <2> QED
    BY <2>1, <2>2, <2>3, <2>4, <2>5 DEF MigrationNext, AppNext, Inserts, Changes, Deletes
<1>3. settled' \subseteq Table
  <2>1. CASE resetSequence
    <3>1. job.n \in 1..Len(Tables)
      BY <2>1 DEF resetSequence, DataAt, ScriptInv, Ended
    <3> QED
      BY <2>1, <3>1, TablesAre DEF resetSequence, Here
  <2> QED
    BY <2>1, WhoWrites
<1>4. gone' \subseteq Key
  <2>1. CASE Deletes
    <3>1. PICK t \in Table, i \in 1..MaxId : Delete(t, i)
      BY <2>1 DEF Deletes
    <3>2. tenant[t][i].who \in Key
      BY <3>1 DEF Delete, StoreInv, Row
    <3> QED
      BY <3>1, <3>2 DEF Delete
  <2> QED
    BY <2>1, WhoWrites
<1> QED
  BY <1>1, <1>2, <1>3, <1>4

\* The public staff in some order.
LEMMA StaffList ==
  ASSUME PublicInv, NEW l \in SetToSeqs(DOMAIN public["User"])
  PROVE  /\ DOMAIN public["User"] \subseteq 0..MaxId
         /\ l \in Seq(DOMAIN public["User"])
         /\ \A i, j \in 1..Len(l) : i # j => l[i] # l[j]
<1>1. DOMAIN public["User"] \subseteq 1..MaxId /\ MaxId \in Nat
  BY MigrationAssumption DEF PublicInv
<1>2. Cardinality(DOMAIN public["User"]) \in Nat
  <2>1. IsFiniteSet(1..MaxId)
    BY <1>1, FS_Interval
  <2>2. IsFiniteSet(DOMAIN public["User"])
    BY <1>1, <2>1, FS_Subset
  <2> QED
    BY <2>2, FS_CardinalityType
<1>3. /\ l \in [1..Cardinality(DOMAIN public["User"]) -> DOMAIN public["User"]]
      /\ \A i, j \in 1..Cardinality(DOMAIN public["User"]) : i # j => l[i] # l[j]
  BY DEF SetToSeqs
<1>4. l \in Seq(DOMAIN public["User"]) /\ Len(l) = Cardinality(DOMAIN public["User"])
  BY <1>2, <1>3, SeqDef, LenProperties
<1> QED
  BY <1>1, <1>3, <1>4

-----------------------------------------------------------------------------
(* Where the scripts go *)

LEMMA ScriptStep == ASSUME SchemaInv, MigrationNext PROVE ScriptInv'
<1> USE DEF SchemaInv
<1>0. /\ IsJob(job) /\ job.script \in {"none"} \cup Scripts /\ job.n \in 0..Len(Tables)
      /\ job.at \notin Ended => job.n \in 1..Len(Tables)
      /\ job.list \in Seq(0..MaxId) /\ job.seen \in 0..MaxId /\ job.last \in 0..MaxId
      /\ schema \in {"none", "bare", "ready"} /\ linked \in BOOLEAN
      /\ linked => schema = "ready"
      /\ Len(Tables) \in Nat /\ 1 \in 1..Len(Tables) /\ 0 \in 0..Len(Tables)
      /\ MaxId \in Nat /\ 0 \in 0..MaxId /\ <<>> \in Seq(0..MaxId)
  BY TablesAre, MigrationAssumption DEF ScriptInv
<1>1. CASE \E s \in Scripts : Start(s)
  <2>1. PICK s \in Scripts : Start(s)
    BY <1>1
  <2>2. /\ IsJob(job') /\ job'.script = s /\ job'.at = "start" /\ job'.n = 1
        /\ job'.list = <<>> /\ job'.seen = 0 /\ job'.last = 0
        /\ UNCHANGED <<schema, linked>>
    BY <2>1 DEF Start, NoJob, IsJob, StoreRests
  <2> QED
    BY <1>0, <2>2 DEF ScriptInv, DataAt, Ended
<1>2. ASSUME IsJob(job'), job'.script = job.script, UNCHANGED <<schema, linked>>,
             job'.at \in Ended,
             job'.n = 0, job'.list = <<>>, job'.seen = 0, job'.last = 0
      PROVE  ScriptInv'
  BY <1>0, <1>2 DEF ScriptInv, DataAt, Ended
<1>3. ASSUME IsJob(job'), job'.script = job.script, UNCHANGED <<schema, linked>>,
             job'.n \in 1..Len(Tables), job'.list \in Seq(0..MaxId),
             job'.seen \in 0..MaxId, job'.last \in 0..MaxId,
             job.script = "data" =>
               \/ job'.at = "create" /\ schema = "none"
               \/ job'.at = "copy"
               \/ job'.at \in {"reset", "staff", "verify", "accept"} /\ schema = "ready"
      PROVE  ScriptInv'
  BY <1>0, <1>3 DEF ScriptInv, DataAt, Ended
<1>4. CASE Crash
  BY <1>2, <1>4 DEF Crash, Stop, NoJob, IsJob, StoreRests, Ended
<1>5. CASE ensureTenantSchema
  BY <1>0, <1>3, <1>5 DEF ensureTenantSchema, DataAt, Goto, IsJob, StoreRests, Ended
<1>6. CASE CreateSchema
  BY <1>0, <1>6 DEF CreateSchema, DataAt, Goto, IsJob, ScriptInv, Ended
<1>7. CASE MakeTables
  BY <1>0, <1>7 DEF MakeTables, DataAt, Goto, IsJob, ScriptInv, Ended
<1>8. CASE LinkCreated
  BY <1>0, <1>8 DEF LinkCreated, DataAt, Goto, IsJob, ScriptInv, Ended
<1>9. CASE copyTable
  <2>1. CASE Refused(Here)
    BY <1>2, <1>9, <2>1 DEF copyTable, Stop, NoJob, IsJob, Ended
  <2>2. CASE ~Refused(Here)
    <3>1. schema = "ready"
      BY <2>2 DEF Refused
    <3> QED
      BY <1>0, <1>3, <1>9, <2>2, <3>1 DEF copyTable, DataAt, Goto, IsJob, Ended
  <2> QED
    BY <2>1, <2>2
<1>10. CASE resetSequence
  <2>1. job.n \in 1..Len(Tables) /\ job.script = "data" /\ job.at = "reset"
        /\ UNCHANGED <<schema, linked>> /\ schema = "ready"
    BY <1>0, <1>10 DEF resetSequence, DataAt, Ended, ScriptInv
  <2>2. /\ IsJob(job') /\ job'.script = job.script /\ job'.list = job.list
        /\ job'.seen = job.seen /\ job'.last = job.last
        /\ \/ job'.n = job.n + 1 /\ job.n < Len(Tables) /\ job'.at = "copy"
           \/ job'.n = 1 /\ job'.at = "staff"
    BY <1>0, <1>10 DEF resetSequence, IsJob
  <2>3. job'.n \in 1..Len(Tables)
    BY <1>0, <2>1, <2>2
  <2> QED
    BY <1>0, <1>3, <2>1, <2>2, <2>3
<1>11. CASE verifyStaffUsers
  <2>1. job.n \in 1..Len(Tables) /\ job.script = "data" /\ job.at = "staff"
        /\ UNCHANGED <<schema, linked>> /\ schema = "ready"
    BY <1>0, <1>11 DEF verifyStaffUsers, DataAt, Ended, ScriptInv, StoreRests
  <2>2. CASE Goto("verify")
    BY <1>0, <1>3, <2>1, <2>2 DEF Goto, IsJob
  <2>3. CASE Stop("failed")
    BY <1>2, <2>1, <2>3 DEF Stop, NoJob, IsJob, Ended
  <2> QED
    BY <1>11, <2>2, <2>3 DEF verifyStaffUsers
<1>12. CASE verifyMigration
  <2>1. job.n \in 1..Len(Tables) /\ job.script = "data" /\ job.at = "verify"
        /\ UNCHANGED <<schema, linked>> /\ schema = "ready"
    BY <1>0, <1>12 DEF verifyMigration, DataAt, Ended, ScriptInv, StoreRests
  <2>2. CASE Goto("accept")
    BY <1>0, <1>3, <2>1, <2>2 DEF Goto, IsJob
  <2>3. CASE Stop("failed")
    BY <1>2, <2>1, <2>3 DEF Stop, NoJob, IsJob, Ended
  <2>4. CASE Here # "User" /\ job' = [job EXCEPT !.n = @ + 1]
    <3>1. job.n # Len(Tables)
      BY <2>4, TablesAre DEF Here
    <3>2. job.n + 1 \in 1..Len(Tables)
      BY <1>0, <2>1, <3>1
    <3>3. /\ IsJob(job') /\ job'.script = job.script /\ job'.list = job.list
          /\ job'.seen = job.seen /\ job'.last = job.last
          /\ job'.n = job.n + 1 /\ job'.at = "verify"
      BY <1>0, <2>1, <2>4 DEF IsJob
    <3> QED
      BY <1>0, <1>3, <2>1, <3>2, <3>3
  <2> QED
    BY <1>12, <2>2, <2>3, <2>4 DEF verifyMigration
<1>13. CASE LinkVerified
  <2>1. /\ IsJob(job') /\ job'.script = job.script /\ job'.at = "done" /\ job'.n = 0
        /\ job'.list = <<>> /\ job'.seen = 0 /\ job'.last = 0
        /\ linked' = TRUE /\ schema' = schema /\ schema = "ready"
    BY <1>0, <1>13 DEF LinkVerified, Stop, NoJob, IsJob, DataAt, ScriptInv
  <2> QED
    BY <1>0, <2>1 DEF ScriptInv, DataAt, Ended
<1>14. CASE StaffDone
  BY <1>2, <1>14 DEF StaffDone, Stop, NoJob, IsJob, StoreRests, Ended
<1>15. CASE FindStaff
  <2>1. UNCHANGED <<schema, linked>> /\ job.script = "staff" /\ job.n \in 1..Len(Tables)
    BY <1>0, <1>15 DEF FindStaff, StoreRests, StaffAt, Ended
  <2>2. CASE Stop("done")
    BY <1>2, <2>1, <2>2 DEF Stop, NoJob, IsJob, Ended
  <2>3. CASE \E l \in SetToSeqs(DOMAIN public["User"]) :
               job' = [job EXCEPT !.at = "next", !.list = l]
    <3>1. PICK l \in SetToSeqs(DOMAIN public["User"]) :
                 job' = [job EXCEPT !.at = "next", !.list = l]
      BY <2>3
    <3>2. l \in Seq(0..MaxId)
      <4>1. l \in Seq(DOMAIN public["User"]) /\ DOMAIN public["User"] \subseteq 0..MaxId
        BY StaffList
      <4>2. Len(l) \in Nat /\ l \in [1..Len(l) -> DOMAIN public["User"]]
        BY <4>1, LenProperties
      <4> DEFINE R == 0..MaxId
      <4>3. l \in [1..Len(l) -> R]
        BY <4>1, <4>2
      <4>4. l \in Seq(R)
        <5> HIDE DEF R
        <5> QED
          BY <4>2, <4>3, SeqDef
      <4> QED
        BY <4>4
    <3>3. /\ IsJob(job') /\ job'.script = job.script /\ job'.list = l
          /\ job'.seen = job.seen /\ job'.last = job.last
          /\ job'.n = job.n /\ job'.at = "next"
      BY <1>0, <3>1 DEF IsJob
    <3> QED
      BY <1>0, <1>3, <2>1, <3>2, <3>3
  <2> QED
    BY <1>15, <2>2, <2>3 DEF FindStaff
<1>16. ASSUME NEW at, Goto(at), UNCHANGED <<schema, linked>>, job.script # "data",
              job.at \notin Ended
       PROVE  ScriptInv'
  BY <1>0, <1>3, <1>16 DEF Goto, IsJob
<1>17. ASSUME NextMember, UNCHANGED <<schema, linked>>, job.script # "data",
              job.at \notin Ended, job.list # <<>>
       PROVE  ScriptInv'
  <2>1. Tail(job.list) \in Seq(0..MaxId)
    BY <1>0, <1>17, HeadTailProperties
  <2> QED
    BY <1>0, <1>3, <1>17, <2>1 DEF NextMember, IsJob
<1>18. CASE LookForMember \/ InsertMember \/ InsertAgain \/ VerifyMember \/ DropMember
  <2>1. UNCHANGED <<schema, linked>> /\ job.script # "data" /\ job.at \notin Ended
    BY <1>18 DEF LookForMember, InsertMember, InsertAgain, VerifyMember, DropMember,
       StaffAt, StoreRests, Ended
  <2>2. NextMember => job.list # <<>>
    <3>1. job.script = "staff" /\ (LookForMember \/ job.at \in AtMember)
      BY <1>18 DEF LookForMember, InsertMember, InsertAgain, VerifyMember, DropMember,
         StaffAt, AtMember
    <3> QED
      BY <3>1, TheMember DEF LookForMember
  <2>3. \/ NextMember
        \/ Goto("drop") \/ Goto("insert") \/ Goto("check") \/ Goto("again")
    BY <1>18 DEF LookForMember, InsertMember, InsertAgain, VerifyMember, DropMember
  <2> QED
    BY <1>16, <1>17, <2>1, <2>2, <2>3
<1>19. CASE FindSchema
  <2>1. UNCHANGED <<schema, linked>> /\ job.script # "data" /\ job.at \notin Ended
    BY <1>19 DEF FindSchema, SeqAt, StoreRests, Ended
  <2>2. CASE Stop("done")
    BY <1>2, <2>1, <2>2 DEF Stop, NoJob, IsJob, Ended
  <2> QED
    BY <1>16, <1>19, <2>1, <2>2 DEF FindSchema
<1>20. CASE getMaxId
  <2>1. job.n \in 1..Len(Tables)
    BY <1>0, <1>20 DEF getMaxId, SeqAt, Ended
  <2>2. Highest(Here) \in 0..MaxId
    BY <2>1, TablesAre, HighestIs DEF Here, StoreInv
  <2> QED
    BY <1>0, <1>3, <1>20, <2>1, <2>2 DEF getMaxId, SeqAt, IsJob, StoreRests
<1>21. CASE getCurrentSequenceValue
  <2>1. job.n \in 1..Len(Tables)
    BY <1>0, <1>21 DEF getCurrentSequenceValue, SeqAt, Ended
  <2>2. seq[Here] \in 0..MaxId
    BY <2>1, TablesAre DEF Here, CountersInv
  <2> QED
    BY <1>0, <1>3, <1>21, <2>1, <2>2 DEF getCurrentSequenceValue, SeqAt, IsJob, StoreRests
<1>22. CASE setSequenceValue
  <2>1. job.n \in 1..Len(Tables) /\ job.script # "data" /\ UNCHANGED <<schema, linked>>
    BY <1>0, <1>22 DEF setSequenceValue, SeqAt, Ended
  <2>2. CASE Stop("done")
    BY <1>2, <2>1, <2>2 DEF Stop, NoJob, IsJob, Ended
  <2>3. CASE job.n < Len(Tables) /\ job' = [job EXCEPT !.n = @ + 1, !.at = "max"]
    <3>1. job.n + 1 \in 1..Len(Tables)
      BY <1>0, <2>1, <2>3
    <3>2. /\ IsJob(job') /\ job'.script = job.script /\ job'.list = job.list
          /\ job'.seen = job.seen /\ job'.last = job.last
          /\ job'.n = job.n + 1 /\ job'.at = "max"
      BY <1>0, <2>3 DEF IsJob
    <3> QED
      BY <1>0, <1>3, <2>1, <3>1, <3>2
  <2> QED
    BY <1>22, <2>2, <2>3 DEF setSequenceValue
<1>23. CASE UNCHANGED <<job, schema, linked>>
  BY <1>23 DEF ScriptInv, DataAt
<1> QED
  BY <1>1, <1>4, <1>5, <1>6, <1>7, <1>8, <1>9, <1>10, <1>11, <1>12, <1>13, <1>14, <1>15,
     <1>18, <1>19, <1>20, <1>21, <1>22, <1>23, WhoWrites DEF ScriptNext

LEMMA MemberStep == ASSUME SchemaInv, MigrationNext PROVE MemberInv'
<1>0. IsJob(job)
  BY DEF SchemaInv, ScriptInv
<1>1. ASSUME job'.script # "staff" \/ job'.at \notin {"next"} \cup AtMember PROVE MemberInv'
  BY <1>1 DEF MemberInv
<1>2. ASSUME job'.script = job.script, job'.list = job.list, UNCHANGED public,
             job.at \in {"next"} \cup AtMember, job.list # <<>>
      PROVE  MemberInv'
  BY <1>2 DEF SchemaInv, MemberInv
<1>3. ASSUME NextMember, UNCHANGED public, job.script = "staff", job.at \in AtMember
      PROVE  MemberInv'
  <2>1. /\ job.list # <<>> /\ job.list \in Seq(DOMAIN public["User"])
        /\ \A m, n \in 1..Len(job.list) : m # n => job.list[m] # job.list[n]
    BY <1>3, TheMember DEF SchemaInv, MemberInv
  <2>2. /\ Tail(job.list) \in Seq(DOMAIN public["User"])
        /\ \A m, n \in 1..Len(Tail(job.list)) : m # n => Tail(job.list)[m] # Tail(job.list)[n]
    BY <2>1, RestOfList, HeadTailProperties
  <2>3. job'.list = Tail(job.list) /\ job'.at = "next"
    BY <1>0, <1>3 DEF NextMember, IsJob
  <2> QED
    BY <1>3, <2>2, <2>3 DEF MemberInv
<1>4. CASE \E s \in Scripts : Start(s)
  BY <1>1, <1>4 DEF Start, NoJob, AtMember
<1>5. CASE \/ Crash \/ StaffDone \/ LinkVerified
  BY <1>1, <1>5 DEF Crash, StaffDone, LinkVerified, Stop, NoJob, AtMember
<1>6. CASE \/ ensureTenantSchema \/ CreateSchema \/ MakeTables \/ LinkCreated \/ copyTable
           \/ resetSequence \/ verifyStaffUsers \/ verifyMigration
  <2>1. job'.script = "data"
    BY <1>0, <1>6 DEF ensureTenantSchema, CreateSchema, MakeTables, LinkCreated, copyTable,
       resetSequence, verifyStaffUsers, verifyMigration, DataAt, Goto, Stop, NoJob, IsJob
  <2> QED
    BY <1>1, <2>1
<1>7. CASE FindSchema \/ getMaxId \/ getCurrentSequenceValue \/ setSequenceValue
  <2>1. job'.script = "sequences"
    BY <1>0, <1>7 DEF FindSchema, getMaxId, getCurrentSequenceValue, setSequenceValue,
       SeqAt, Goto, Stop, NoJob, IsJob
  <2> QED
    BY <1>1, <2>1
<1>8. CASE FindStaff
  <2>1. CASE Stop("done")
    BY <1>1, <2>1 DEF Stop, NoJob, AtMember
  <2>2. CASE \E l \in SetToSeqs(DOMAIN public["User"]) :
               job' = [job EXCEPT !.at = "next", !.list = l]
    <3>1. PICK l \in SetToSeqs(DOMAIN public["User"]) :
                 job' = [job EXCEPT !.at = "next", !.list = l]
      BY <2>2
    <3>2. /\ l \in Seq(DOMAIN public["User"])
          /\ \A m, n \in 1..Len(l) : m # n => l[m] # l[n]
      BY StaffList DEF SchemaInv
    <3>3. job'.at = "next" /\ job'.list = l /\ UNCHANGED public
      BY <1>0, <1>8, <3>1 DEF IsJob, FindStaff, StoreRests
    <3> QED
      BY <3>2, <3>3 DEF MemberInv
  <2> QED
    BY <1>8, <2>1, <2>2 DEF FindStaff
<1>9. CASE LookForMember \/ InsertMember \/ InsertAgain \/ VerifyMember
  <2>1. /\ UNCHANGED public /\ job.script = "staff" /\ job.list # <<>>
        /\ job.at \in {"next"} \cup AtMember /\ (job.at \in AtMember \/ LookForMember)
    <3>1. UNCHANGED public /\ job.script = "staff"
          /\ job.at \in {"next"} \cup AtMember /\ (job.at \in AtMember \/ LookForMember)
      BY <1>9 DEF LookForMember, InsertMember, InsertAgain, VerifyMember, StaffAt, AtMember,
         StoreRests
    <3> QED
      BY <3>1, TheMember DEF LookForMember
  <2>2. CASE Goto("drop") \/ Goto("insert") \/ Goto("check") \/ Goto("again")
    <3>1. job'.script = job.script /\ job'.list = job.list
      BY <1>0, <2>2 DEF Goto, IsJob
    <3> QED
      BY <1>2, <2>1, <3>1
  <2>3. CASE NextMember /\ job.at \in AtMember
    BY <1>3, <2>1, <2>3
  <2>4. \/ Goto("drop") \/ Goto("insert") \/ Goto("check") \/ Goto("again")
        \/ NextMember /\ job.at \in AtMember
    BY <1>9, <2>1 DEF LookForMember, InsertMember, InsertAgain, VerifyMember, StaffAt, AtMember
  <2> QED
    BY <2>2, <2>3, <2>4
<1>10. CASE DropMember
  <2>1. /\ job.list # <<>> /\ job.list \in Seq(DOMAIN public["User"])
        /\ \A m, n \in 1..Len(job.list) : m # n => job.list[m] # job.list[n]
        /\ NextMember /\ public' = [public EXCEPT !["User"] = Without(@, Member)]
        /\ DOMAIN public = Table /\ "User" \in Table
    <3>1. job.script = "staff" /\ job.at \in AtMember
      BY <1>10 DEF DropMember, StaffAt, AtMember
    <3> QED
      BY <1>10, <3>1, TheMember, MigrationAssumption
      DEF SchemaInv, MemberInv, PublicInv, DropMember
  <2>2. /\ Tail(job.list) \in Seq(DOMAIN public["User"] \ {Head(job.list)})
        /\ \A m, n \in 1..Len(Tail(job.list)) : m # n => Tail(job.list)[m] # Tail(job.list)[n]
    BY <2>1, RestOfList
  <2>3. job'.list = Tail(job.list) /\ job'.at = "next"
    BY <1>0, <2>1 DEF NextMember, IsJob
  <2>4. DOMAIN public'["User"] = DOMAIN public["User"] \ {Head(job.list)}
    BY <2>1 DEF Without, Member
  <2> QED
    BY <2>2, <2>3, <2>4 DEF MemberInv
<1>11. CASE UNCHANGED <<job, public>>
  BY <1>11 DEF SchemaInv, MemberInv
<1>12. DropMember \/ UNCHANGED public
  BY WhoWrites
<1>13. ScriptNext \/ UNCHANGED job
  BY WhoWrites
<1> QED
  BY <1>4, <1>5, <1>6, <1>7, <1>8, <1>9, <1>10, <1>11, <1>12, <1>13 DEF ScriptNext, DropMember

-----------------------------------------------------------------------------
(* The rows, whoever writes them *)

\* A row comes in beside the open transaction.
LEMMA RowSlipsIn ==
  ASSUME SchemaInv, NEW t \in Table, NEW i \in 1..MaxId, NEW r \in Row,
         Free(t, i, r.key), Refers[t] = NoTable, app' = app,
         tenant' = [tenant EXCEPT ![t] = With(@, i, r)]
  PROVE  StoreInv' /\ InsertInv'
<1>1. i \notin Ids(t) /\ Holders(t, r.key) = {} /\ ~Waits(t, i, r.key)
  BY DEF Free
<1>2. /\ StoreInv'
      /\ \A u \in Table \ {t} : tenant'[u] = tenant[u]
      /\ DOMAIN tenant'[t] = Ids(t) \cup {i}
      /\ tenant'[t][i] = r /\ \A j \in Ids(t) : tenant'[t][j] = tenant[t][j]
  BY <1>1, RowArrives
<1>3. \A u \in Table : Ids(u) \subseteq DOMAIN tenant'[u]
  BY <1>2 DEF Ids
<1>4. ASSUME app # NoInsert
      PROVE  /\ app.id \notin DOMAIN tenant'[app.table]
             /\ \A j \in DOMAIN tenant'[app.table] : tenant'[app.table][j].key # app.row.key
  <2>1. /\ app.table \in Table /\ app.id \notin Ids(app.table)
        /\ \A j \in Ids(app.table) : tenant[app.table][j].key # app.row.key
    BY <1>4 DEF SchemaInv, InsertInv, Holders
  <2>2. CASE app.table # t
    BY <1>2, <2>1, <2>2 DEF Ids
  <2>3. CASE app.table = t
    BY <1>1, <1>2, <2>1, <2>3 DEF Waits
  <2> QED
    BY <2>2, <2>3
<1> QED
  BY <1>2, <1>3, <1>4, InsertWaits

\* What each writer of rows does to them.
LEMMA MemberArrives ==
  ASSUME SchemaInv, InsertMember \/ InsertAgain
  PROVE  /\ app' = app /\ UNCHANGED <<public, settled, gone>>
         /\ job.script = "staff"
         /\ \/ UNCHANGED tenant
            \/ \E i \in 1..MaxId : /\ Free("User", i, Person.key)
                                   /\ Copied(Person) \in Row /\ Copied(Person).key = Person.key
                                   /\ tenant' = [tenant EXCEPT !["User"] =
                                                   With(@, i, Copied(Person))]
<1>1. /\ app' = app /\ UNCHANGED <<public, settled, gone>>
      /\ job.script = "staff" /\ job.at \in AtMember
  BY DEF InsertMember, InsertAgain, AppRests, StaffAt, AtMember
<1>2. /\ Member \in 1..MaxId /\ Copied(Person) \in Row /\ Copied(Person).key = Person.key
  BY <1>1, TheMember
<1>3. CASE InsertMember
  BY <1>1, <1>2, <1>3 DEF InsertMember, AddUser
<1>4. CASE InsertAgain
  <2>1. seq["User"] \in 0..MaxId /\ seq["User"] < MaxId /\ MaxId \in Nat
    BY <1>4, MigrationAssumption DEF InsertAgain, SchemaInv, CountersInv
  <2>2. seq["User"] + 1 \in 1..MaxId
    BY <2>1
  <2> QED
    BY <1>1, <1>2, <1>4, <2>2 DEF InsertAgain, AddUser
<1> QED
  BY <1>3, <1>4

LEMMA InsertOpens ==
  ASSUME SchemaInv, NEW t \in Table, NEW k \in Key, NEW p \in 0..MaxId, Insert(t, k, p)
  PROVE  StoreInv' /\ InsertInv' /\ UNCHANGED tenant
<1>1. seq[t] \in 0..MaxId /\ seq[t] < MaxId /\ MaxId \in Nat /\ UNCHANGED tenant
  BY MigrationAssumption DEF Insert, SchemaInv, CountersInv
<1>2. seq[t] + 1 \in 1..MaxId
  BY <1>1
<1>3. StoreInv'
  BY <1>1 DEF SchemaInv, StoreInv, Ids
<1>4. CASE Free(t, seq[t] + 1, k)
  <2>1. PICK i \in 1..MaxId : i = seq[t] + 1
    BY <1>2
  <2>2. app' = [table |-> t, id |-> i, row |-> [key |-> k, parent |-> p]]
    BY <1>4, <2>1 DEF Insert
  <2>3. app'.table = t /\ app'.id = i /\ app'.row.key = k /\ app'.row.parent = p
    BY <2>2
  <2>4. i \notin Ids(t) /\ Holders(t, k) = {}
    BY <1>4, <2>1 DEF Free
  <2>5. Refers[t] # NoTable => p \in Ids(Refers[t])
    BY DEF Insert
  <2>6. \A u \in Table : DOMAIN tenant'[u] = DOMAIN tenant[u]
    BY <1>1
  <2>7. Holders(app.table, app.row.key)' = {}
    BY <1>1, <2>3, <2>4 DEF Holders, Ids
  <2> QED
    BY <1>1, <1>3, <2>3, <2>4, <2>5, <2>7 DEF InsertInv, Ids
<1>5. CASE ~Free(t, seq[t] + 1, k)
  BY <1>1, <1>3, <1>5 DEF Insert, InsertInv
<1> QED
  BY <1>4, <1>5

LEMMA CommitArrives ==
  ASSUME SchemaInv, Commit
  PROVE  /\ StoreInv' /\ InsertInv' /\ UNCHANGED <<public, settled, gone, job>>
         /\ app.table \in Table /\ app.id \notin Ids(app.table)
         /\ \A u \in Table \ {app.table} : tenant'[u] = tenant[u]
         /\ DOMAIN tenant'[app.table] = Ids(app.table) \cup {app.id}
         /\ tenant'[app.table][app.id].by = Born(app.table)
         /\ \A j \in Ids(app.table) : tenant'[app.table][j] = tenant[app.table][j]
<1> DEFINE r == [key |-> app.row.key, who |-> app.row.key, parent |-> app.row.parent,
                 by |-> Born(app.table)]
<1>1. /\ app.table \in Table /\ app.id \in 1..MaxId /\ app.id \notin Ids(app.table)
      /\ app.row.key \in Key /\ Holders(app.table, app.row.key) = {}
      /\ app.row.parent \in 0..MaxId
      /\ Refers[app.table] # NoTable => app.row.parent \in Ids(Refers[app.table])
  BY DEF Commit, SchemaInv, InsertInv
<1>2. Born(app.table) \in Origin
  BY DEF Born, Origin
<1>3. r \in Row /\ r.key = app.row.key /\ r.parent = app.row.parent /\ r.by = Born(app.table)
  BY <1>1, <1>2 DEF Row
<1>4. tenant' = [tenant EXCEPT ![app.table] = With(@, app.id, r)]
  BY DEF Commit
<1>5. PICK t \in Table, i \in 1..MaxId : t = app.table /\ i = app.id
  BY <1>1
<1> HIDE DEF r
<1>6. /\ StoreInv'
      /\ \A u \in Table \ {t} : tenant'[u] = tenant[u]
      /\ DOMAIN tenant'[t] = Ids(t) \cup {i}
      /\ tenant'[t][i] = r /\ \A j \in Ids(t) : tenant'[t][j] = tenant[t][j]
  <2>1. PICK w \in Row : w = r
    BY <1>3
  <2>2. /\ i \notin Ids(t) /\ Holders(t, w.key) = {}
        /\ Refers[t] # NoTable => w.parent \in Ids(Refers[t])
        /\ tenant' = [tenant EXCEPT ![t] = With(@, i, w)]
    BY <1>1, <1>3, <1>4, <1>5, <2>1
  <2>3. /\ StoreInv'
        /\ \A u \in Table \ {t} : tenant'[u] = tenant[u]
        /\ DOMAIN tenant'[t] = Ids(t) \cup {i}
        /\ tenant'[t][i] = w /\ \A j \in Ids(t) : tenant'[t][j] = tenant[t][j]
    BY <2>2, RowArrives
  <2> QED
    BY <2>1, <2>3
<1>7. InsertInv'
  BY DEF Commit, InsertInv
<1> QED
  BY <1>1, <1>3, <1>5, <1>6, <1>7 DEF Commit

LEMMA RowsStep == ASSUME SchemaInv, MigrationNext PROVE StoreInv' /\ InsertInv'
<1>1. ASSUME UNCHANGED tenant, app' = app \/ app' = NoInsert PROVE StoreInv' /\ InsertInv'
  BY <1>1 DEF SchemaInv, StoreInv, InsertInv, Ids, Holders
<1>2. CASE copyTable
  <2>1. CASE Refused(Here)
    BY <1>1, <1>2, <2>1 DEF copyTable, AppRests
  <2> QED
    BY <1>2, <2>1, CopyRows
<1>3. CASE InsertMember \/ InsertAgain
  <2>1. CASE UNCHANGED tenant
    BY <1>1, <1>3, <2>1, MemberArrives
  <2>2. CASE \E i \in 1..MaxId : /\ Free("User", i, Person.key)
                                 /\ Copied(Person) \in Row /\ Copied(Person).key = Person.key
                                 /\ tenant' = [tenant EXCEPT !["User"] =
                                                 With(@, i, Copied(Person))]
    <3>1. "User" \in Table /\ Refers["User"] = NoTable /\ app' = app
      BY <1>3, MemberArrives, MigrationAssumption, TablesAssumption
    <3>2. PICK r : r = Copied(Person)
      OBVIOUS
    <3> QED
      BY <2>2, <3>1, <3>2, RowSlipsIn
  <2> QED
    BY <1>3, <2>1, <2>2, MemberArrives
<1>4. CASE Commit
  BY <1>4, CommitArrives
<1>5. CASE Inserts
  BY <1>5, InsertOpens DEF Inserts
<1>6. CASE Changes
  BY <1>6, RowChanges DEF Changes
<1>7. CASE Deletes
  BY <1>7, RowGoes DEF Deletes
<1>8. CASE Rollback
  BY <1>1, <1>8 DEF Rollback
<1> QED
  BY <1>1, <1>2, <1>3, <1>4, <1>5, <1>6, <1>7, <1>8, WhoWrites

LEMMA SchemaStart == ASSUME MigrationInit PROVE SchemaInv
<1> USE MigrationAssumption DEF MigrationInit
<1>1. PublicInv /\ InsertInv
  BY DEF PublicInv, InsertInv
<1>2. StoreInv
  BY DEF StoreInv, Ids
<1>3. CountersInv
  BY DEF CountersInv
<1>4. ScriptInv /\ MemberInv
  <2>1. /\ IsJob(job) /\ job.script = "none" /\ job.at = "off" /\ job.n = 0
        /\ job.list = <<>> /\ job.seen = 0 /\ job.last = 0
    BY DEF NoJob, IsJob
  <2>2. <<>> \in Seq(0..MaxId) /\ 0 \in 0..MaxId /\ 0 \in 0..Len(Tables)
    BY TablesAre
  <2> QED
    BY <2>1, <2>2 DEF ScriptInv, MemberInv, DataAt, Ended
<1> QED
  BY <1>1, <1>2, <1>3, <1>4 DEF SchemaInv

LEMMA SchemaStep == ASSUME SchemaInv, [MigrationNext]_migrationVars PROVE SchemaInv'
<1>1. CASE MigrationNext
  BY <1>1, PublicStep, RowsStep, CountersStep, ScriptStep, MemberStep DEF SchemaInv
<1>2. CASE UNCHANGED migrationVars
  BY <1>2 DEF migrationVars, SchemaInv, PublicInv, StoreInv, InsertInv, CountersInv, ScriptInv,
     MemberInv, Ids, Holders, DataAt
<1> QED
  BY <1>1, <1>2

LEMMA SchemaIsTyped == SchemaInv => MigrationTypeOK
<1> SUFFICES ASSUME SchemaInv PROVE MigrationTypeOK
  OBVIOUS
<1> USE DEF SchemaInv
<1>1. ASSUME NEW t \in Table
      PROVE  /\ Ids(t) \subseteq 1..MaxId /\ \A i \in Ids(t) : tenant[t][i] \in Row
             /\ DOMAIN public[t] \subseteq DOMAIN Source[t]
             /\ \A i \in Ids(t) : Holders(t, tenant[t][i].key) = {i}
             /\ Refers[t] # NoTable =>
                  \A i \in Ids(t) : tenant[t][i].parent \in Ids(Refers[t])
  <2>1. \A i \in Ids(t) : Holders(t, tenant[t][i].key) = {i}
    BY DEF StoreInv, Holders
  <2> QED
    BY <2>1 DEF StoreInv, PublicInv
<1>2. /\ seq \in [Table -> 0..MaxId] /\ schema \in {"none", "bare", "ready"}
      /\ linked \in BOOLEAN /\ (linked => schema = "ready")
      /\ job.script \in {"none"} \cup Scripts /\ job.n \in 0..Len(Tables)
      /\ job.list \in Seq(0..MaxId) /\ job.seen \in 0..MaxId /\ job.last \in 0..MaxId
      /\ edits \in 0..MaxEdits /\ quiet \in BOOLEAN
      /\ settled \subseteq Table /\ gone \subseteq Key
  BY DEF CountersInv, ScriptInv
<1> QED
  BY <1>1, <1>2 DEF MigrationTypeOK

\* Whatever the scripts and the application do, and wherever a script dies: every row
\* has its types, its key is its table's only one, the row it refers to is there, nothing
\* comes to the public tables, and a linked restaurant's schema has its tables.
THEOREM MigrationTypeCorrect == MigrationSpec => []MigrationTypeOK
<1>1. MigrationInit => SchemaInv
  BY SchemaStart
<1>2. SchemaInv /\ [MigrationNext]_migrationVars => SchemaInv'
  BY SchemaStep
<1> QED
  BY <1>1, <1>2, SchemaIsTyped, PTL DEF MigrationSpec

-----------------------------------------------------------------------------
(* What a run that nobody worked beside has reached *)

Same(t) == \A i \in DOMAIN public[t] : i \in Ids(t) /\ tenant[t][i] = Copied(public[t][i])
Ahead(t) == Highest(t) <= seq[t]
Only(t) == Ids(t) = DOMAIN public[t]

QuietInv == quiet => app = NoInsert

\* How far a data run has come.
DataInv ==
  quiet /\ job.script = "data" =>
    /\ job.at \in {"start", "create", "ddl", "link"} => job.n = 1
    /\ job.at \in {"copy", "reset"} =>
         \A m \in 1..Len(Tables) : m < job.n => Same(Tables[m]) /\ Ahead(Tables[m])
    /\ job.at = "reset" => Same(Here)
    /\ job.at = "staff" => job.n = 1
    /\ job.at \in {"staff", "verify", "accept", "done"} => \A t \in Table : Same(t) /\ Ahead(t)
    /\ job.at = "verify" => \A m \in 1..Len(Tables) : m < job.n => Only(Tables[m])
    /\ job.at \in {"accept", "done"} => \A t \in Table \ {"User"} : Only(t)
    /\ job.at = "done" => linked

\* How far a repair of the sequences has come.
RepairInv ==
  quiet /\ job.script = "sequences" =>
    /\ job.at = "start" => job.n = 1
    /\ job.at \in {"max", "last", "fix"} =>
         \A m \in 1..Len(Tables) : m < job.n => Ahead(Tables[m])
    /\ job.at \in {"last", "fix"} => job.seen = Highest(Here)
    /\ job.at = "fix" => job.last = seq[Here]
    /\ job.at = "done" /\ linked => \A t \in Table : Ahead(t)

WholeInv == SchemaInv /\ QuietInv /\ DataInv /\ RepairInv

\* A step of no script's, or of one that ends nothing.
LEMMA NothingReached ==
  ASSUME QuietInv',
         ~quiet' \/ job'.at \in {"off", "failed"} \/ job'.script \notin {"data", "sequences"}
  PROVE  QuietInv' /\ DataInv' /\ RepairInv'
BY DEF DataInv, RepairInv

LEMMA WholeStart == ASSUME MigrationInit PROVE WholeInv
<1>1. QuietInv /\ job.script = "none"
  BY DEF MigrationInit, QuietInv, NoJob
<1> QED
  BY <1>1, SchemaStart DEF WholeInv, DataInv, RepairInv

\* Tables the step writes neither rows nor the sequence of stay as they are.
LEMMA ReachedStays ==
  ASSUME NEW t, UNCHANGED public, tenant'[t] = tenant[t]
  PROVE  /\ (Same(t) => Same(t)') /\ (Only(t) => Only(t)')
         /\ Highest(t)' = Highest(t)
         /\ seq'[t] = seq[t] => (Ahead(t) => Ahead(t)')
<1>1. Ids(t)' = Ids(t)
  BY DEF Ids
<1> QED
  BY <1>1 DEF Same, Only, Ahead, Highest

LEMMA DataRuns ==
  ASSUME WholeInv, job.script = "data", quiet,
         \/ ensureTenantSchema \/ CreateSchema \/ MakeTables \/ LinkCreated \/ copyTable
         \/ resetSequence \/ verifyStaffUsers \/ verifyMigration \/ LinkVerified
  PROVE  DataInv'
<1> USE DEF WholeInv
<1>0. /\ IsJob(job) /\ (job.at \notin Ended => job.n \in 1..Len(Tables))
      /\ Len(Tables) \in Nat /\ 1 \in 1..Len(Tables)
      /\ \A m \in 1..Len(Tables) : m \in Nat /\ ~(m < 1)
  BY TablesAre DEF SchemaInv, ScriptInv
<1>1. CASE ensureTenantSchema
  <2>1. /\ job.n = 1 /\ job'.n = 1 /\ job'.at \in {"create", "copy"}
    BY <1>0, <1>1 DEF ensureTenantSchema, DataAt, Goto, IsJob, DataInv
  <2> QED
    BY <1>0, <2>1 DEF DataInv
<1>2. CASE CreateSchema \/ MakeTables \/ LinkCreated
  <2>1. /\ job.n = 1 /\ job'.n = 1 /\ job'.at \in {"ddl", "link", "copy"}
    BY <1>0, <1>2 DEF CreateSchema, MakeTables, LinkCreated, DataAt, Goto, IsJob, DataInv
  <2> QED
    BY <1>0, <2>1 DEF DataInv
<1>3. CASE copyTable
  <2>1. CASE Refused(Here)
    BY <1>3, <2>1 DEF copyTable, Stop, NoJob, DataInv
  <2>2. CASE ~Refused(Here)
    <3>1. /\ job'.n = job.n /\ job'.at = "reset" /\ job.at = "copy"
          /\ job.n \in 1..Len(Tables) /\ UNCHANGED <<public, seq>>
      BY <1>0, <1>3, <2>2 DEF copyTable, DataAt, Goto, IsJob, Ended
    <3>2. /\ Here \in Table /\ \A u \in Table \ {Here} : tenant'[u] = tenant[u]
          /\ DOMAIN tenant'[Here] = Ids(Here) \cup DOMAIN public[Here]
          /\ \A i \in DOMAIN tenant'[Here] :
               tenant'[Here][i] = IF i \in DOMAIN public[Here] THEN Copied(public[Here][i])
                                  ELSE tenant[Here][i]
      BY <1>3, <2>2, CopyRows
    <3>3. \A i \in DOMAIN public[Here] :
            i \in DOMAIN tenant'[Here] /\ tenant'[Here][i] = Copied(public[Here][i])
      BY <3>2
    <3>4. PICK t \in Table : t = Here
      BY <3>2
    <3>5. Tables[job'.n] = t
      BY <3>1, <3>4 DEF Here
    <3>6. Same(Here)'
      BY <3>1, <3>3, <3>4, <3>5 DEF Same, Here, Ids
    <3>7. ASSUME NEW m \in 1..Len(Tables), m < job.n
          PROVE  Same(Tables[m])' /\ Ahead(Tables[m])'
      <4>1. Tables[m] \in Table /\ Tables[m] # Here
        BY <1>0, <3>1, <3>7, TablesAre DEF Here
      <4>2. PICK u \in Table : u = Tables[m]
        BY <4>1
      <4>3. Same(u) /\ Ahead(u)
        BY <3>1, <3>7, <4>2 DEF DataInv
      <4>4. Same(u)' /\ Ahead(u)'
        BY <3>1, <3>2, <4>1, <4>2, <4>3, ReachedStays
      <4> QED
        BY <4>2, <4>4
    <3> QED
      BY <3>1, <3>6, <3>7 DEF DataInv
  <2> QED
    BY <2>1, <2>2
<1>4. CASE resetSequence
  <2>1. /\ job.n \in 1..Len(Tables) /\ job.at = "reset" /\ UNCHANGED <<public, tenant>>
        /\ seq' = [seq EXCEPT ![Here] = ResetTo(Here)] /\ seq \in [Table -> 0..MaxId]
        /\ \/ job.n < Len(Tables) /\ job'.n = job.n + 1 /\ job'.at = "copy"
           \/ job.n = Len(Tables) /\ job'.n = 1 /\ job'.at = "staff"
    BY <1>0, <1>4 DEF resetSequence, DataAt, IsJob, Ended, SchemaInv, CountersInv
  <2>2. ASSUME NEW m \in 1..Len(Tables), m <= job.n
        PROVE  Same(Tables[m])' /\ Ahead(Tables[m])'
    <3>1. PICK u \in Table : u = Tables[m]
      BY TablesAre
    <3>2. (Same(u) => Same(u)') /\ (seq'[u] = seq[u] => (Ahead(u) => Ahead(u)'))
      BY <2>1, ReachedStays
    <3>3. Highest(u)' = Highest(u)
      BY <2>1, ReachedStays
    <3>4. CASE m = job.n
      <4>1. u = Here /\ Same(u)
        BY <2>1, <3>1, <3>4 DEF Here, DataInv
      <4>2. Ids(u) \subseteq 1..MaxId
        BY DEF SchemaInv, StoreInv
      <4>3. Highest(u) <= seq'[u]
        BY <2>1, <4>1, <4>2, ResetIs
      <4>4. Ahead(u)'
        BY <3>3, <4>3 DEF Ahead
      <4> QED
        BY <3>1, <3>2, <4>1, <4>4
    <3>5. CASE m # job.n
      <4>1. m < job.n
        BY <1>0, <2>1, <2>2, <3>5
      <4>2. Same(u) /\ Ahead(u)
        BY <2>1, <3>1, <4>1 DEF DataInv
      <4>3. u # Here
        BY <2>1, <3>1, <3>5, TablesAre DEF Here
      <4>4. seq'[u] = seq[u]
        BY <2>1, <4>3
      <4> QED
        BY <3>1, <3>2, <4>2, <4>4
    <3> QED
      BY <3>4, <3>5
  <2>3. CASE job'.at = "copy"
    <3>1. \A m \in 1..Len(Tables) : m < job'.n => m <= job.n
      BY <1>0, <2>1, <2>3
    <3> QED
      BY <2>1, <2>2, <2>3, <3>1 DEF DataInv
  <2>4. CASE job'.at = "staff"
    <3>1. \A m \in 1..Len(Tables) : m <= job.n
      BY <1>0, <2>1, <2>4
    <3>2. ASSUME NEW t \in Table PROVE Same(t)' /\ Ahead(t)'
      <4>1. PICK m \in 1..Len(Tables) : Tables[m] = t
        BY TablesAre
      <4> QED
        BY <2>2, <3>1, <4>1
    <3> QED
      BY <2>1, <2>4, <3>2 DEF DataInv
  <2> QED
    BY <2>1, <2>3, <2>4
<1>5. ASSUME UNCHANGED <<public, tenant, seq>>
      PROVE  /\ (\A t \in Table : Same(t) /\ Ahead(t)) => \A t \in Table : Same(t)' /\ Ahead(t)'
             /\ \A t \in Table : Only(t) => Only(t)'
  BY <1>5, ReachedStays
<1>6. CASE verifyStaffUsers
  <2>1. UNCHANGED <<public, tenant, seq>> /\ \A t \in Table : Same(t) /\ Ahead(t)
    BY <1>6 DEF verifyStaffUsers, StoreRests, DataAt, DataInv
  <2>2. job'.at = "failed" \/ (job'.at = "verify" /\ job'.n = 1)
    BY <1>0, <1>6 DEF verifyStaffUsers, DataAt, Goto, Stop, NoJob, IsJob, DataInv
  <2>3. \A t \in Table : Same(t)' /\ Ahead(t)'
    BY <1>5, <2>1
  <2> QED
    BY <1>0, <2>2, <2>3 DEF DataInv
<1>7. CASE verifyMigration
  <2>1. /\ UNCHANGED <<public, tenant, seq>> /\ \A t \in Table : Same(t) /\ Ahead(t)
        /\ \A m \in 1..Len(Tables) : m < job.n => Only(Tables[m])
        /\ job.n \in 1..Len(Tables)
    BY <1>0, <1>7 DEF verifyMigration, StoreRests, DataAt, DataInv, Ended
  <2>2. \A t \in Table : Same(t)' /\ Ahead(t)'
    BY <1>5, <2>1
  <2>3. CASE Here = "User"
    <3>1. job'.at = "accept"
      BY <1>0, <1>7, <2>3 DEF verifyMigration, Goto, IsJob
    <3>2. job.n = Len(Tables)
      BY <1>0, <2>1, <2>3, TablesAre DEF Here
    <3>3. ASSUME NEW t \in Table, t # "User" PROVE Only(t)'
      <4>1. PICK m \in 1..Len(Tables) : Tables[m] = t
        BY TablesAre
      <4>2. m # Len(Tables)
        BY <3>3, <4>1, TablesAre
      <4>3. m < job.n
        BY <1>0, <3>2, <4>2
      <4> QED
        BY <1>5, <2>1, <4>1, <4>3
    <3> QED
      BY <2>2, <3>1, <3>3 DEF DataInv
  <2>4. CASE Here # "User" /\ Cardinality(DOMAIN public[Here]) # Cardinality(Ids(Here))
    BY <1>7, <2>4 DEF verifyMigration, Stop, NoJob, DataInv
  <2>5. CASE Here # "User" /\ Cardinality(DOMAIN public[Here]) = Cardinality(Ids(Here))
    <3>1. job'.at = "verify" /\ job'.n = job.n + 1
      BY <1>0, <1>7, <2>5 DEF verifyMigration, DataAt, IsJob
    <3>2. PICK t \in Table : t = Here
      BY <2>1, TablesAre DEF Here
    <3>3. Only(t)
      <4>1. IsFiniteSet(Ids(t))
        <5>1. Ids(t) \subseteq 1..MaxId /\ MaxId \in Nat
          BY MigrationAssumption DEF SchemaInv, StoreInv
        <5>2. IsFiniteSet(1..MaxId)
          BY <5>1, FS_Interval
        <5> QED
          BY <5>1, <5>2, FS_Subset
      <4>2. DOMAIN public[t] \in SUBSET Ids(t)
        BY <2>1 DEF Same
      <4>3. Cardinality(Ids(t)) = Cardinality(DOMAIN public[t])
        BY <2>5, <3>2
      <4>4. Ids(t) = DOMAIN public[t]
        BY <4>1, <4>2, <4>3, FS_Subset
      <4> QED
        BY <4>4 DEF Only
    <3>4. ASSUME NEW m \in 1..Len(Tables), m < job.n + 1 PROVE Only(Tables[m])'
      <4>1. PICK u \in Table : u = Tables[m]
        BY TablesAre
      <4>2. m < job.n \/ m = job.n
        BY <1>0, <2>1, <3>4
      <4>3. Only(u)
        BY <2>1, <3>2, <3>3, <4>1, <4>2 DEF Here
      <4>4. Only(u)'
        BY <1>5, <2>1, <4>3
      <4> QED
        BY <4>1, <4>4
    <3> QED
      BY <2>2, <3>1, <3>4 DEF DataInv
  <2> QED
    BY <2>3, <2>4, <2>5
<1>8. CASE LinkVerified
  <2>1. /\ UNCHANGED <<public, tenant, seq>> /\ \A t \in Table : Same(t) /\ Ahead(t)
        /\ \A t \in Table \ {"User"} : Only(t)
        /\ linked' = TRUE /\ job'.at = "done"
    BY <1>8 DEF LinkVerified, DataAt, DataInv, Stop, NoJob
  <2>2. /\ \A t \in Table : Same(t)' /\ Ahead(t)'
        /\ \A t \in Table \ {"User"} : Only(t)'
    BY <1>5, <2>1
  <2> QED
    BY <2>1, <2>2 DEF DataInv
<1> QED
  BY <1>1, <1>2, <1>3, <1>4, <1>6, <1>7, <1>8

LEMMA RepairRuns ==
  ASSUME WholeInv, job.script = "sequences", quiet,
         FindSchema \/ getMaxId \/ getCurrentSequenceValue \/ setSequenceValue
  PROVE  RepairInv'
<1> USE DEF WholeInv
<1>0. /\ IsJob(job) /\ (job.at \notin Ended => job.n \in 1..Len(Tables))
      /\ Len(Tables) \in Nat /\ 1 \in 1..Len(Tables) /\ linked \in BOOLEAN
      /\ \A m \in 1..Len(Tables) : m \in Nat /\ ~(m < 1)
  BY TablesAre DEF SchemaInv, ScriptInv
<1>1. ASSUME UNCHANGED <<public, tenant, seq>>, job.n \in 1..Len(Tables),
             \A m \in 1..Len(Tables) : m < job.n => Ahead(Tables[m])
      PROVE  \A m \in 1..Len(Tables) : m < job.n => Ahead(Tables[m])'
  <2> SUFFICES ASSUME NEW m \in 1..Len(Tables), m < job.n PROVE Ahead(Tables[m])'
    OBVIOUS
  <2>1. PICK u \in Table : u = Tables[m]
    BY TablesAre
  <2>2. Ahead(u)'
    BY <1>1, <2>1, ReachedStays
  <2> QED
    BY <2>1, <2>2
<1>2. CASE FindSchema
  <2>1. /\ job.n = 1 /\ UNCHANGED linked
        /\ (job'.at = "max" /\ job'.n = 1) \/ (job'.at = "done" /\ ~linked)
    BY <1>0, <1>2 DEF FindSchema, SeqAt, Goto, Stop, NoJob, IsJob, RepairInv, StoreRests
  <2> QED
    BY <1>0, <2>1 DEF RepairInv
<1>3. CASE getMaxId
  <2>1. /\ job.at = "max" /\ job'.at = "last" /\ job'.n = job.n /\ job'.seen = Highest(Here)
        /\ job.n \in 1..Len(Tables) /\ UNCHANGED <<public, tenant, seq>>
    BY <1>0, <1>3 DEF getMaxId, SeqAt, IsJob, StoreRests, Ended
  <2>2. \A m \in 1..Len(Tables) : m < job.n => Ahead(Tables[m])'
    BY <1>1, <2>1 DEF RepairInv
  <2>3. PICK u \in Table : u = Here /\ u = Tables[job.n]
    BY <2>1, TablesAre DEF Here
  <2>4. Highest(u)' = Highest(u)
    BY <2>1, ReachedStays
  <2>5. job'.seen = Highest(Here)'
    BY <2>1, <2>3, <2>4 DEF Here
  <2> QED
    BY <2>1, <2>2, <2>5 DEF RepairInv
<1>4. CASE getCurrentSequenceValue
  <2>1. /\ job.at = "last" /\ job'.at = "fix" /\ job'.n = job.n /\ job'.seen = job.seen
        /\ job'.last = seq[Here] /\ job.seen = Highest(Here)
        /\ job.n \in 1..Len(Tables) /\ UNCHANGED <<public, tenant, seq>>
    BY <1>0, <1>4 DEF getCurrentSequenceValue, SeqAt, IsJob, StoreRests, Ended, RepairInv
  <2>2. \A m \in 1..Len(Tables) : m < job.n => Ahead(Tables[m])'
    BY <1>1, <2>1 DEF RepairInv
  <2>3. PICK u \in Table : u = Here /\ u = Tables[job.n]
    BY <2>1, TablesAre DEF Here
  <2>4. Highest(u)' = Highest(u)
    BY <2>1, ReachedStays
  <2>5. job'.seen = Highest(Here)' /\ job'.last = seq'[Here']
    BY <2>1, <2>3, <2>4 DEF Here
  <2> QED
    BY <2>1, <2>2, <2>5 DEF RepairInv
<1>5. CASE setSequenceValue
  <2>1. /\ job.at = "fix" /\ job.n \in 1..Len(Tables) /\ UNCHANGED <<public, tenant>>
        /\ seq' = [seq EXCEPT ![Here] = IF job.last < job.seen THEN job.seen ELSE @]
        /\ seq \in [Table -> 0..MaxId] /\ MaxId \in Nat
        /\ job.seen = Highest(Here) /\ job.last = seq[Here]
        /\ \A m \in 1..Len(Tables) : m < job.n => Ahead(Tables[m])
        /\ \/ job.n < Len(Tables) /\ job'.n = job.n + 1 /\ job'.at = "max"
           \/ job.n = Len(Tables) /\ job'.at = "done"
    <3>1. /\ job.at = "fix" /\ job.n \in 1..Len(Tables) /\ UNCHANGED <<public, tenant>>
          /\ seq' = [seq EXCEPT ![Here] = IF job.last < job.seen THEN job.seen ELSE @]
      BY <1>0, <1>5 DEF setSequenceValue, SeqAt, Ended
    <3>2. seq \in [Table -> 0..MaxId] /\ MaxId \in Nat
      BY MigrationAssumption DEF SchemaInv, CountersInv
    <3>3. /\ job.seen = Highest(Here) /\ job.last = seq[Here]
          /\ \A m \in 1..Len(Tables) : m < job.n => Ahead(Tables[m])
      BY <3>1 DEF RepairInv
    <3> HIDE DEF WholeInv
    <3>4. \/ job.n < Len(Tables) /\ job'.n = job.n + 1 /\ job'.at = "max"
          \/ job.n = Len(Tables) /\ job'.at = "done"
      <4>1. CASE job.n < Len(Tables)
        BY <1>0, <1>5, <4>1 DEF setSequenceValue, IsJob
      <4>2. CASE ~(job.n < Len(Tables))
        <5>1. job.n = Len(Tables)
          BY <1>0, <3>1, <4>2
        <5> QED
          BY <1>5, <4>2, <5>1 DEF setSequenceValue, Stop, NoJob
      <4> QED
        BY <4>1, <4>2
    <3> QED
      BY <3>1, <3>2, <3>3, <3>4
  <2>2. ASSUME NEW m \in 1..Len(Tables), m <= job.n PROVE Ahead(Tables[m])'
    <3>1. PICK u \in Table : u = Tables[m]
      BY TablesAre
    <3>2. (seq'[u] = seq[u] => (Ahead(u) => Ahead(u)')) /\ Highest(u)' = Highest(u)
      BY <2>1, ReachedStays
    <3>3. CASE m = job.n
      <4>1. u = Here
        BY <3>1, <3>3 DEF Here
      <4>2. Ids(u) \subseteq 1..MaxId
        BY DEF SchemaInv, StoreInv
      <4>3. Highest(u) \in 0..MaxId /\ seq[u] \in 0..MaxId
        BY <2>1, <4>2, HighestIs
      <4>4. seq'[u] = IF seq[u] < Highest(u) THEN Highest(u) ELSE seq[u]
        BY <2>1, <4>1
      <4>5. Highest(u) <= seq'[u]
        BY <2>1, <4>3, <4>4
      <4> QED
        BY <3>1, <3>2, <4>5 DEF Ahead
    <3>4. CASE m # job.n
      <4>1. m < job.n
        BY <1>0, <2>1, <2>2, <3>4
      <4>2. u # Here
        BY <2>1, <3>1, <3>4, TablesAre DEF Here
      <4>3. seq'[u] = seq[u] /\ Ahead(u)
        BY <2>1, <3>1, <4>1, <4>2
      <4> QED
        BY <3>1, <3>2, <4>3
    <3> QED
      BY <3>3, <3>4
  <2>3. CASE job'.at = "max"
    <3>1. \A m \in 1..Len(Tables) : m < job'.n => m <= job.n
      BY <1>0, <2>1, <2>3
    <3> QED
      BY <2>2, <2>3, <3>1 DEF RepairInv
  <2>4. CASE job'.at = "done"
    <3>1. \A m \in 1..Len(Tables) : m <= job.n
      BY <1>0, <2>1, <2>4
    <3>2. ASSUME NEW t \in Table PROVE Ahead(t)'
      <4>1. PICK m \in 1..Len(Tables) : Tables[m] = t
        BY TablesAre
      <4> QED
        BY <2>2, <3>1, <4>1
    <3> QED
      BY <2>4, <3>2 DEF RepairInv
  <2> QED
    BY <2>1, <2>3, <2>4
<1> QED
  BY <1>2, <1>3, <1>4, <1>5

LEMMA WholeStep == ASSUME WholeInv, [MigrationNext]_migrationVars PROVE WholeInv'
<1> USE DEF WholeInv
<1>1. SchemaInv' /\ IsJob(job)
  BY SchemaStep DEF SchemaInv, ScriptInv
<1>2. CASE UNCHANGED migrationVars
  <2>1. /\ \A t : Same(t)' = Same(t) /\ Only(t)' = Only(t) /\ Ahead(t)' = Ahead(t)
                  /\ Highest(t)' = Highest(t)
        /\ Here' = Here
    BY <1>2 DEF migrationVars, Same, Only, Ahead, Highest, Ids, Here
  <2> QED
    BY <1>1, <1>2, <2>1 DEF migrationVars, QuietInv, DataInv, RepairInv
<1>3. CASE \E s \in Scripts : Start(s)
  <2>1. PICK s \in Scripts : Start(s)
    BY <1>3
  <2>2. job'.at = "start" /\ job'.n = 1 /\ QuietInv'
    BY <2>1 DEF Start, NoJob, QuietInv
  <2> QED
    BY <1>1, <2>2 DEF DataInv, RepairInv
<1>4. CASE AppNext
  <2>1. QuietInv' /\ ~quiet'
    <3>1. CASE Rollback
      BY <3>1 DEF Rollback, QuietInv
    <3>2. CASE Commit
      BY <3>2 DEF Commit, QuietInv
    <3>3. CASE ~Rollback /\ ~Commit
      BY <1>4, <3>3 DEF AppNext, Insert, Change, Delete, Acts, QuietInv
    <3> QED
      BY <3>1, <3>2, <3>3
  <2> QED
    BY <1>1, <2>1, NothingReached
<1>5. ASSUME ScriptNext, ~\E s \in Scripts : Start(s)
      PROVE  QuietInv' /\ quiet' = quiet
  <2>1. UNCHANGED <<app, quiet>>
    BY <1>5 DEF ScriptNext, Crash, ensureTenantSchema, CreateSchema, MakeTables, LinkCreated,
       copyTable, resetSequence, verifyStaffUsers, verifyMigration, LinkVerified, FindStaff,
       LookForMember, InsertMember, InsertAgain, VerifyMember, DropMember, StaffDone,
       FindSchema, getMaxId, getCurrentSequenceValue, setSequenceValue, AppRests
  <2> QED
    BY <2>1 DEF QuietInv
<1>6. CASE ScriptNext /\ ~\E s \in Scripts : Start(s)
  <2>1. QuietInv' /\ quiet' = quiet
    BY <1>5, <1>6
  <2>2. CASE Crash
    BY <1>1, <2>1, <2>2, NothingReached DEF Crash, Stop, NoJob
  <2>3. CASE \/ ensureTenantSchema \/ CreateSchema \/ MakeTables \/ LinkCreated \/ copyTable
             \/ resetSequence \/ verifyStaffUsers \/ verifyMigration \/ LinkVerified
    <3>1. job.script = "data" /\ job'.script = "data"
      BY <1>1, <2>3 DEF ensureTenantSchema, CreateSchema, MakeTables, LinkCreated, copyTable,
         resetSequence, verifyStaffUsers, verifyMigration, LinkVerified, DataAt, Goto, Stop,
         NoJob, IsJob
    <3>2. CASE quiet
      BY <1>1, <2>1, <2>3, <3>1, <3>2, DataRuns DEF RepairInv
    <3>3. CASE ~quiet
      BY <1>1, <2>1, <3>3, NothingReached
    <3> QED
      BY <3>2, <3>3
  <2>4. CASE FindSchema \/ getMaxId \/ getCurrentSequenceValue \/ setSequenceValue
    <3>1. job.script = "sequences" /\ job'.script = "sequences"
      BY <1>1, <2>4 DEF FindSchema, getMaxId, getCurrentSequenceValue, setSequenceValue,
         SeqAt, Goto, Stop, NoJob, IsJob
    <3>2. CASE quiet
      BY <1>1, <2>1, <2>4, <3>1, <3>2, RepairRuns DEF DataInv
    <3>3. CASE ~quiet
      BY <1>1, <2>1, <3>3, NothingReached
    <3> QED
      BY <3>2, <3>3
  <2>5. CASE \/ FindStaff \/ LookForMember \/ InsertMember \/ InsertAgain \/ VerifyMember
             \/ DropMember \/ StaffDone
    <3>1. job'.script = "staff"
      BY <1>1, <2>5 DEF FindStaff, LookForMember, InsertMember, InsertAgain, VerifyMember,
         DropMember, StaffDone, StaffAt, Goto, Stop, NextMember, NoJob, IsJob
    <3> QED
      BY <1>1, <2>1, <3>1, NothingReached
  <2> QED
    BY <1>6, <2>2, <2>3, <2>4, <2>5 DEF ScriptNext
<1> QED
  BY <1>2, <1>3, <1>4, <1>6 DEF MigrationNext

\* For any tables, public rows and names: a data run that ended well with nobody at work
\* beside it has brought every row over unchanged, no other row with them where rows are
\* counted, and linked the restaurant; after it, or after a repair of the sequences, the
\* next id of every table is free; whatever earlier runs died of.
THEOREM MigratedIsWholeAlways == MigrationSpec => []MigratedIsWhole
<1>1. WholeInv => MigratedIsWhole
  BY DEF WholeInv, DataInv, RepairInv, MigratedIsWhole, Same, Ahead, Only, DataAt, SeqAt
<1>2. MigrationInit => WholeInv
  BY WholeStart
<1>3. WholeInv /\ [MigrationNext]_migrationVars => WholeInv'
  BY WholeStep
<1> QED
  BY <1>1, <1>2, <1>3, PTL DEF MigrationSpec

-----------------------------------------------------------------------------
(* The restaurant's own rows *)

SomeGone(t) == \E j \in DOMAIN Source[t] : Source[t][j].key \in gone

\* The public rows a run has copied are there, under their ids.
Arrived(t) == \A i \in DOMAIN public[t] : i \in Ids(t) /\ tenant[t][i].who = Source[t][i].key

Apart(t) == \A i \in Ids(t) : tenant[t][i].by = "own" => i \notin DOMAIN public[t]

\* A sequence that was reset lies beyond every public row, so that no row of the
\* restaurant's gets the id of one: as long as none of them was deleted.
ApartInv ==
  \A t \in Table :
    ~SomeGone(t) => /\ t \in settled \/ (DataAt("reset") /\ t = Here) => Arrived(t)
                    /\ Apart(t)

OwnInv == SchemaInv /\ ApartInv

LEMMA OwnStart == ASSUME MigrationInit PROVE OwnInv
<1>1. settled = {} /\ ~DataAt("reset") /\ \A t \in Table : Ids(t) = {}
  BY DEF MigrationInit, NoJob, DataAt, Ids
<1> QED
  BY <1>1, SchemaStart DEF OwnInv, ApartInv, Apart

\* What OwnRowsStay asks of a step about a table.
OwnStays(t) ==
  \A i \in Ids(t) :
    tenant[t][i].by = "own" =>
      \/ i \in DOMAIN tenant'[t] /\ tenant'[t][i].by = "own"
      \/ tenant[t][i].who \in gone'
      \/ SomeGone(t)

\* A table whose rows the step does not touch.
LEMMA TableRests ==
  ASSUME ApartInv, NEW t \in Table, tenant'[t] = tenant[t],
         DOMAIN public'[t] \subseteq DOMAIN public[t], gone \subseteq gone',
         t \in settled' \/ (job'.script = "data" /\ job'.at = "reset" /\ t = Here')
           => t \in settled \/ (DataAt("reset") /\ t = Here)
  PROVE  /\ ~SomeGone(t)' =>
              /\ t \in settled' \/ (DataAt("reset")' /\ t = Here') => Arrived(t)'
              /\ Apart(t)'
         /\ OwnStays(t)
<1>1. SomeGone(t) => SomeGone(t)'
  BY DEF SomeGone
<1>2. Ids(t)' = Ids(t)
  BY DEF Ids
<1>3. Arrived(t) => Arrived(t)'
  BY <1>2 DEF Arrived
<1>4. Apart(t) => Apart(t)'
  BY <1>2 DEF Apart
<1>5. OwnStays(t)
  BY DEF OwnStays, Ids
<1> QED
  BY <1>1, <1>3, <1>4, <1>5 DEF ApartInv, DataAt

\* A row comes to the table; a restaurant's own only if the sequence was reset.
LEMMA TableGains ==
  ASSUME ApartInv, NEW t \in Table, NEW i, i \notin Ids(t),
         DOMAIN tenant'[t] = Ids(t) \cup {i},
         \A j \in Ids(t) : tenant'[t][j] = tenant[t][j],
         tenant'[t][i].by = "own" => t \in settled,
         UNCHANGED <<public, settled, gone>>,
         DataAt("reset")' /\ t = Here' => DataAt("reset") /\ t = Here
  PROVE  /\ ~SomeGone(t)' =>
              /\ t \in settled' \/ (DataAt("reset")' /\ t = Here') => Arrived(t)'
              /\ Apart(t)'
         /\ OwnStays(t)
<1>1. SomeGone(t)' = SomeGone(t)
  BY DEF SomeGone
<1>2. Ids(t)' = Ids(t) \cup {i}
  BY DEF Ids
<1>3. Arrived(t) => Arrived(t)'
  BY <1>2 DEF Arrived
<1>4. t \in settled /\ ~SomeGone(t) => i \notin DOMAIN public[t]
  BY DEF ApartInv, Arrived
<1>5. Apart(t) /\ ~SomeGone(t) => Apart(t)'
  BY <1>2, <1>4 DEF Apart
<1>6. OwnStays(t)
  BY DEF OwnStays, Ids
<1> QED
  BY <1>1, <1>3, <1>5, <1>6 DEF ApartInv

OwnStep(t) ==
  /\ ~SomeGone(t)' => /\ t \in settled' \/ (DataAt("reset")' /\ t = Here') => Arrived(t)'
                      /\ Apart(t)'
  /\ OwnStays(t)

LEMMA CopyKeepsOwn == ASSUME OwnInv, copyTable, NEW t \in Table PROVE OwnStep(t)
<1> USE DEF OwnInv
<1>0. /\ UNCHANGED <<public, settled, gone>> /\ IsJob(job)
      /\ job.at = "copy" /\ job.script = "data"
  BY DEF copyTable, AppRests, DataAt, SchemaInv, ScriptInv
<1>1. CASE Refused(Here)
  <2>1. UNCHANGED tenant /\ job'.at = "failed"
    BY <1>1 DEF copyTable, Stop, NoJob
  <2> QED
    BY <1>0, <2>1, TableRests DEF OwnStep
<1>2. CASE ~Refused(Here)
  <2>1. /\ Here \in Table /\ \A u \in Table \ {Here} : tenant'[u] = tenant[u]
        /\ DOMAIN tenant'[Here] = Ids(Here) \cup DOMAIN public[Here]
        /\ \A i \in DOMAIN tenant'[Here] :
             tenant'[Here][i] = IF i \in DOMAIN public[Here] THEN Copied(public[Here][i])
                                ELSE tenant[Here][i]
    BY <1>2, CopyRows
  <2>2. job'.n = job.n
    BY <1>0, <1>2 DEF copyTable, Goto, IsJob
  <2>3. Here' = Here
    BY <2>2 DEF Here
  <2>4. CASE t # Here
    BY <1>0, <2>1, <2>3, <2>4, TableRests DEF OwnStep
  <2>5. CASE t = Here
    <3>1. /\ DOMAIN tenant'[t] = Ids(t) \cup DOMAIN public[t]
          /\ \A i \in DOMAIN tenant'[t] :
               tenant'[t][i] = IF i \in DOMAIN public[t] THEN Copied(public[t][i])
                               ELSE tenant[t][i]
      BY <2>1, <2>5
    <3>2. ASSUME NEW i \in DOMAIN public[t]
          PROVE  /\ i \in DOMAIN tenant'[t] /\ tenant'[t][i].who = Source[t][i].key
                 /\ tenant'[t][i].by = "script"
      <4>1. public[t][i] = Source[t][i]
        BY DEF SchemaInv, PublicInv
      <4>2. i \in DOMAIN tenant'[t] /\ tenant'[t][i] = Copied(public[t][i])
        BY <3>1
      <4>3. tenant'[t][i] = Copied(Source[t][i])
        BY <4>1, <4>2
      <4> HIDE DEF OwnInv
      <4>4. tenant'[t][i].who = Source[t][i].key /\ tenant'[t][i].by = "script"
        BY <4>3 DEF Copied
      <4> QED
        BY <4>2, <4>4
    <3>3. Arrived(t)'
      BY <1>0, <3>2 DEF Arrived, Ids
    <3>4. Apart(t)'
      BY <1>0, <3>2 DEF Apart, Ids
    <3>5. OwnStays(t)
      BY <3>1 DEF OwnStays, ApartInv, Apart
    <3> QED
      BY <3>3, <3>4, <3>5 DEF OwnStep
  <2> QED
    BY <2>4, <2>5
<1> QED
  BY <1>1, <1>2

LEMMA ResetKeepsOwn == ASSUME OwnInv, resetSequence, NEW t \in Table PROVE OwnStep(t)
<1>1. /\ UNCHANGED <<public, tenant, gone>> /\ settled' = settled \cup {Here}
      /\ DataAt("reset") /\ IsJob(job)
  BY DEF resetSequence, AppRests, OwnInv, SchemaInv, ScriptInv
<1>2. job'.at # "reset"
  BY <1>1 DEF resetSequence, IsJob
<1> QED
  BY <1>1, <1>2, TableRests DEF OwnStep, OwnInv

LEMMA MemberKeepsOwn ==
  ASSUME OwnInv, InsertMember \/ InsertAgain, NEW t \in Table PROVE OwnStep(t)
<1> USE DEF OwnInv
<1>1. /\ UNCHANGED <<public, settled, gone>> /\ job.script = "staff" /\ IsJob(job)
  BY MemberArrives DEF SchemaInv, ScriptInv
<1>2. job'.script = "staff"
  BY <1>1 DEF InsertMember, InsertAgain, Goto, NextMember, IsJob
<1>3. CASE tenant'[t] = tenant[t]
  BY <1>1, <1>2, <1>3, TableRests DEF OwnStep
<1>4. CASE tenant'[t] # tenant[t]
  <2>1. PICK i \in 1..MaxId :
          /\ Free("User", i, Person.key) /\ Copied(Person) \in Row
          /\ tenant' = [tenant EXCEPT !["User"] = With(@, i, Copied(Person))]
    BY <1>4, MemberArrives
  <2>2. DOMAIN tenant = Table /\ t = "User" /\ i \notin Ids("User")
    BY <1>4, <2>1 DEF SchemaInv, StoreInv, Free
  <2>3. /\ DOMAIN tenant'[t] = Ids(t) \cup {i} /\ tenant'[t][i] = Copied(Person)
        /\ \A j \in Ids(t) : tenant'[t][j] = tenant[t][j]
    BY <2>1, <2>2 DEF With, Ids
  <2>4. tenant'[t][i].by # "own"
    BY <2>3 DEF Copied
  <2> QED
    BY <1>1, <1>2, <2>2, <2>3, <2>4, TableGains DEF OwnStep, DataAt
<1> QED
  BY <1>3, <1>4

LEMMA CommitKeepsOwn == ASSUME OwnInv, Commit, NEW t \in Table PROVE OwnStep(t)
<1> USE DEF OwnInv
<1>1. /\ UNCHANGED <<public, settled, gone, job>>
      /\ app.table \in Table /\ app.id \notin Ids(app.table)
      /\ \A u \in Table \ {app.table} : tenant'[u] = tenant[u]
      /\ DOMAIN tenant'[app.table] = Ids(app.table) \cup {app.id}
      /\ tenant'[app.table][app.id].by = Born(app.table)
      /\ \A j \in Ids(app.table) : tenant'[app.table][j] = tenant[app.table][j]
  BY CommitArrives
<1>2. Here' = Here /\ DataAt("reset")' = DataAt("reset")
  BY <1>1 DEF Here, DataAt
<1>3. CASE t # app.table
  BY <1>1, <1>2, <1>3, TableRests DEF OwnStep, DataAt
<1>4. CASE t = app.table
  <2>1. PICK i : i = app.id
    OBVIOUS
  <2>2. /\ i \notin Ids(t) /\ DOMAIN tenant'[t] = Ids(t) \cup {i}
        /\ \A j \in Ids(t) : tenant'[t][j] = tenant[t][j]
        /\ tenant'[t][i].by = "own" => t \in settled
    BY <1>1, <1>4, <2>1 DEF Born
  <2> QED
    BY <1>1, <1>2, <2>2, TableGains DEF OwnStep
<1> QED
  BY <1>3, <1>4

LEMMA ChangeKeepsOwn == ASSUME OwnInv, Changes, NEW t \in Table PROVE OwnStep(t)
<1> USE DEF OwnInv
<1>1. PICK u \in Table, i \in 1..MaxId, k \in Key : Change(u, i, k)
  BY DEF Changes
<1>2. UNCHANGED <<public, settled, gone, job>>
  BY <1>1 DEF Change, Acts
<1>3. /\ i \in Ids(u) /\ \A x \in Table \ {u} : tenant'[x] = tenant[x]
      /\ DOMAIN tenant'[u] = Ids(u)
      /\ \A j \in Ids(u) \ {i} : tenant'[u][j] = tenant[u][j]
      /\ tenant'[u][i].who = tenant[u][i].who
      /\ tenant[u][i].by = "own" => tenant'[u][i].by = "own"
      /\ tenant'[u][i].by = "own" => tenant[u][i].by = "own"
  BY <1>1, RowChanges
<1>4. Here' = Here /\ DataAt("reset")' = DataAt("reset")
  BY <1>2 DEF Here, DataAt
<1>5. CASE t # u
  BY <1>2, <1>3, <1>4, <1>5, TableRests DEF OwnStep, DataAt
<1>6. CASE t = u
  <2>1. /\ DOMAIN tenant'[t] = Ids(t) /\ Ids(t)' = Ids(t)
        /\ \A j \in Ids(t) : /\ tenant'[t][j].who = tenant[t][j].who
                             /\ tenant'[t][j].by = "own" <=> tenant[t][j].by = "own"
    BY <1>3, <1>6 DEF Ids
  <2>2. SomeGone(t)' = SomeGone(t)
    BY <1>2 DEF SomeGone
  <2>3. Arrived(t) => Arrived(t)'
    BY <1>2, <2>1 DEF Arrived
  <2>4. Apart(t) => Apart(t)'
    BY <1>2, <2>1 DEF Apart
  <2>5. OwnStays(t)
    BY <2>1 DEF OwnStays
  <2> QED
    BY <1>2, <1>4, <2>2, <2>3, <2>4, <2>5 DEF OwnStep, ApartInv
<1> QED
  BY <1>5, <1>6

LEMMA DeleteKeepsOwn == ASSUME OwnInv, Deletes, NEW t \in Table PROVE OwnStep(t)
<1> USE DEF OwnInv
<1>1. PICK u \in Table, i \in 1..MaxId : Delete(u, i)
  BY DEF Deletes
<1>2. UNCHANGED <<public, settled, job>> /\ gone' = gone \cup {tenant[u][i].who}
  BY <1>1 DEF Delete, Acts
<1>3. /\ i \in Ids(u) /\ \A x \in Table \ {u} : tenant'[x] = tenant[x]
      /\ DOMAIN tenant'[u] = Ids(u) \ {i}
      /\ \A j \in Ids(u) \ {i} : tenant'[u][j] = tenant[u][j]
  BY <1>1, RowGoes
<1>4. Here' = Here /\ DataAt("reset")' = DataAt("reset")
  BY <1>2 DEF Here, DataAt
<1>5. CASE t # u
  BY <1>2, <1>3, <1>4, <1>5, TableRests DEF OwnStep, DataAt
<1>6. CASE t = u
  <2>1. /\ DOMAIN tenant'[t] = Ids(t) \ {i} /\ Ids(t)' = Ids(t) \ {i}
        /\ \A j \in Ids(t) \ {i} : tenant'[t][j] = tenant[t][j]
    BY <1>3, <1>6 DEF Ids
  <2>2. ~SomeGone(t)' => ~SomeGone(t) /\ \A j \in DOMAIN Source[t] : Source[t][j].key # tenant[t][i].who
    BY <1>2, <1>6 DEF SomeGone
  <2>3. ~SomeGone(t)' /\ Arrived(t) => i \notin DOMAIN public[t]
    BY <2>2 DEF Arrived, SchemaInv, PublicInv
  <2>4. ~SomeGone(t)' /\ Arrived(t) => Arrived(t)'
    BY <1>2, <2>1, <2>3 DEF Arrived
  <2>5. Apart(t) => Apart(t)'
    BY <1>2, <2>1 DEF Apart
  <2>6. OwnStays(t)
    BY <1>2, <1>6, <2>1 DEF OwnStays
  <2> QED
    BY <1>2, <1>4, <2>2, <2>4, <2>5, <2>6 DEF OwnStep, ApartInv
<1> QED
  BY <1>5, <1>6

LEMMA OwnStepAlways ==
  ASSUME OwnInv, [MigrationNext]_migrationVars, NEW t \in Table PROVE OwnStep(t)
<1> USE DEF OwnInv
<1>1. IsJob(job)
  BY DEF SchemaInv, ScriptInv
<1>2. CASE UNCHANGED migrationVars
  <2>1. Here' = Here
    BY <1>2 DEF Here, migrationVars
  <2> QED
    BY <1>2, <2>1, TableRests DEF OwnStep, migrationVars, DataAt
<1>3. CASE copyTable \/ resetSequence
  BY <1>3, CopyKeepsOwn, ResetKeepsOwn
<1>4. CASE InsertMember \/ InsertAgain \/ Commit \/ Changes \/ Deletes
  BY <1>4, MemberKeepsOwn, CommitKeepsOwn, ChangeKeepsOwn, DeleteKeepsOwn
<1>5. CASE DropMember
  <2>1. /\ UNCHANGED <<tenant, gone, settled>>
        /\ public' = [public EXCEPT !["User"] = Without(@, Member)]
        /\ job.script = "staff"
    BY <1>5 DEF DropMember, AppRests, StaffAt
  <2>2. job'.script = "staff"
    BY <1>1, <1>5, <2>1 DEF DropMember, NextMember, IsJob
  <2>3. DOMAIN public'[t] \subseteq DOMAIN public[t]
    BY <2>1 DEF SchemaInv, PublicInv, Without
  <2> QED
    BY <2>1, <2>2, <2>3, TableRests DEF OwnStep
<1>6. CASE \/ Crash \/ ensureTenantSchema \/ CreateSchema \/ MakeTables \/ LinkCreated
           \/ verifyStaffUsers \/ verifyMigration \/ LinkVerified \/ StaffDone
           \/ (\E s \in Scripts : Start(s))
  <2>1. UNCHANGED <<tenant, gone, settled, public>>
    BY <1>6 DEF Start, Crash, ensureTenantSchema, CreateSchema, MakeTables, LinkCreated,
       verifyStaffUsers, verifyMigration, LinkVerified, StaffDone, AppRests, StoreRests
  <2>2. job'.at # "reset"
    BY <1>1, <1>6 DEF Start, Crash, ensureTenantSchema, CreateSchema, MakeTables, LinkCreated,
       verifyStaffUsers, verifyMigration, LinkVerified, StaffDone, DataAt, Goto, Stop, NoJob,
       IsJob
  <2> QED
    BY <2>1, <2>2, TableRests DEF OwnStep
<1>7. CASE \/ FindStaff \/ LookForMember \/ VerifyMember \/ FindSchema \/ getMaxId
           \/ getCurrentSequenceValue \/ setSequenceValue
  <2>1. UNCHANGED <<tenant, gone, settled, public>>
    BY <1>7 DEF FindStaff, LookForMember, VerifyMember, FindSchema, getMaxId,
       getCurrentSequenceValue, setSequenceValue, AppRests, StoreRests
  <2>2. job'.script # "data"
    BY <1>1, <1>7 DEF FindStaff, LookForMember, VerifyMember, FindSchema, getMaxId,
       getCurrentSequenceValue, setSequenceValue, StaffAt, SeqAt, NextMember, Goto, Stop,
       NoJob, IsJob
  <2> QED
    BY <2>1, <2>2, TableRests DEF OwnStep
<1>8. CASE Inserts \/ Rollback
  <2>1. UNCHANGED <<tenant, gone, settled, public, job>>
    BY <1>8 DEF Inserts, Insert, Acts, Rollback
  <2>2. Here' = Here
    BY <2>1 DEF Here
  <2> QED
    BY <2>1, <2>2, TableRests DEF OwnStep, DataAt
<1> QED
  BY <1>2, <1>3, <1>4, <1>5, <1>6, <1>7, <1>8
     DEF MigrationNext, ScriptNext, AppNext, Inserts, Changes, Deletes

\* For any tables, public rows and names: a row the restaurant created once a run had
\* reset its table's sequence is overwritten or replaced by no later run, unless it has
\* deleted rows a run had brought.
THEOREM OwnRowsStayAlways == MigrationSpec => OwnRowsStay
<1>1. MigrationInit => OwnInv
  BY OwnStart
<1>2. ASSUME OwnInv, [MigrationNext]_migrationVars
      PROVE  /\ OwnInv'
             /\ \A t \in Table : \A i \in Ids(t) :
                  tenant[t][i].by = "own" =>
                    \/ i \in Ids(t)' /\ tenant'[t][i].by = "own"
                    \/ tenant[t][i].who \in gone'
                    \/ \E j \in DOMAIN Source[t] : Source[t][j].key \in gone
  <2>1. SchemaInv' /\ \A t \in Table : OwnStep(t)
    BY <1>2, SchemaStep, OwnStepAlways DEF OwnInv
  <2>2. ApartInv'
    BY <2>1 DEF OwnStep, ApartInv
  <2>3. \A t \in Table : OwnStays(t)
    BY <2>1 DEF OwnStep
  <2> QED
    BY <2>1, <2>2, <2>3 DEF OwnInv, OwnStays, SomeGone, Ids
<1> QED
  BY <1>1, <1>2, PTL DEF MigrationSpec, OwnRowsStay

-----------------------------------------------------------------------------
(* Pictures *)

DishRow == [shop : Shop \cup {NoShop}, image : Image \cup {NoImage}]
FileRow == [shop : Shop \cup {NoShop}, stored : BOOLEAN, old : BOOLEAN]
EditRow == {NoEdit} \cup [phase : {"update", "delete", "copy", "count", "remove"},
                          dish : Dish, shop : Shop, image : Image \cup {NoImage}]
                    \cup [phase : {"remove"}, image : Image]
SweepRow == [phase : {"idle", "listed", "checking"}, keys : SUBSET Image, shops : SUBSET Shop]
      \cup [phase : {"removing"}, keys : SUBSET Image, shops : SUBSET Shop, image : Image]

\* Nobody has removed the picture of an item, nor made up his mind to, unless it was
\* late when it was bound.
SafeInv == \A d \in Dish : dish[d].image \in Image \ late => ~Endangered(dish[d].image, d)

ImageInv == ImageTypeOK /\ SafeInv

-----------------------------------------------------------------------------

LEMMA ImageStart == ImageInit => ImageInv
  BY ImageAssumption
  DEF ImageInit, ImageInv, ImageTypeOK, SafeInv, NoDish, NoFile, NoEdit, NoSweep

\* The steps that leave files, the pass and what is late alone and may give one item
\* a picture.
LEMMA BoundInStep ==
  ASSUME ImageInv, NEW d \in Dish, NEW s \in Shop, NEW i \in Image \cup {NoImage},
         Bind(d, s, i), UNCHANGED <<file, sweep>>, NEW e \in Editor,
         \A y \in Editor \ {e} : edit'[y] = edit[y], edit'[e].phase # "remove",
         edit'[e].phase = "count" => edit'[e].dish = d /\ edit'[e].image # i
  PROVE  /\ SafeInv' /\ dish' \in [Dish -> DishRow] /\ late' \subseteq Image
<1> USE DEF ImageInv, ImageTypeOK
<1>1. dish' \in [Dish -> DishRow] /\ late' \subseteq Image /\ late \subseteq late'
  BY DEF Bind, DishRow
<1>2. SUFFICES ASSUME NEW x \in Dish, NEW j \in Image, dish'[x].image = j, j \notin late'
               PROVE  ~Endangered(j, x)'
  BY <1>1 DEF SafeInv
<1>3. ~Endangered(j, x)
  <2>1. CASE x = d
    BY <2>1, <1>2 DEF Bind
  <2>2. CASE x # d
    BY <2>2, <1>2, <1>1 DEF Bind, SafeInv
  <2>3. QED
    BY <2>1, <2>2
<1>4. \A y \in Editor : edit'[y].phase = "count" /\ edit'[y].image = j => edit'[y].dish # x
  <2> SUFFICES ASSUME NEW y \in Editor, edit'[y].phase = "count",
                      edit'[y].image = j, edit'[y].dish = x
               PROVE  FALSE
    OBVIOUS
  <2>1. CASE y = e
    <3>1. dish'[d].image = i
      BY DEF Bind
    <3>2. QED
      BY <2>1, <3>1, <1>2
  <2>2. CASE y # e
    BY <2>2, <1>3 DEF Endangered
  <2>3. QED
    BY <2>1, <2>2
<1>5. \A y \in Editor : edit'[y].phase = "remove" => edit'[y] = edit[y]
  BY DEF Bind
<1>6. QED
  BY <1>3, <1>4, <1>5 DEF Endangered

LEMMA ImageStep == ASSUME ImageInv, [ImageNext]_imageVars PROVE ImageInv'
<1> USE ImageAssumption DEF ImageInv
<1>t. /\ dish \in [Dish -> DishRow] /\ file \in [Image -> FileRow] /\ active \subseteq Shop
      /\ edit \in [Editor -> EditRow] /\ sweep \in SweepRow /\ late \subseteq Image
  BY DEF ImageTypeOK, DishRow, FileRow, EditRow, SweepRow
<1>a. ASSUME /\ dish' \in [Dish -> DishRow] /\ file' \in [Image -> FileRow]
             /\ active' \subseteq Shop /\ edit' \in [Editor -> EditRow]
             /\ sweep' \in SweepRow /\ late' \subseteq Image, SafeInv'
      PROVE  ImageInv'
  BY <1>a DEF ImageTypeOK, DishRow, FileRow, EditRow, SweepRow
<1>b. \A e \in Editor : edit[e] # NoEdit /\ edit[e].phase # "remove" =>
        /\ edit[e].dish \in Dish /\ edit[e].shop \in Shop
        /\ edit[e].image \in Image \cup {NoImage}
        /\ edit[e] \in [phase : {"update", "delete", "copy", "count", "remove"},
                        dish : Dish, shop : Shop, image : Image \cup {NoImage}]
  BY <1>t DEF EditRow
<1>c. NoEdit \in EditRow /\ NoEdit.phase = "idle"
  BY DEF EditRow, NoEdit
<1>1. ASSUME NEW s \in Shop, NEW i \in Image, UploadImage(s, i) PROVE ImageInv'
  <2>1. file' \in [Image -> FileRow]
    BY <1>1, <1>t DEF UploadImage, FileRow
  <2>2. SafeInv'
    BY <1>1, <1>t DEF UploadImage, SafeInv, Endangered
  <2>3. QED
    BY <1>1, <2>1, <2>2, <1>t, <1>a DEF UploadImage
<1>2. ASSUME NEW e \in Editor, NEW s \in Shop, NEW d \in Dish, NEW i \in Image \cup {NoImage},
             CreateDish(e, s, d, i)
      PROVE  ImageInv'
  <2>1. edit' = [edit EXCEPT ![e] = NoEdit]
    BY <1>2, <1>t DEF CreateDish
  <2>2. SafeInv' /\ dish' \in [Dish -> DishRow] /\ late' \subseteq Image
    BY <1>2, <1>c, <2>1, BoundInStep DEF CreateDish
  <2>3. QED
    BY <1>2, <2>2, <1>t, <1>a DEF CreateDish
<1>3. ASSUME NEW e \in Editor, NEW d \in Dish, NEW phase, ReadDish(e, d, phase) PROVE ImageInv'
  <2>1. edit' \in [Editor -> EditRow]
    BY <1>3, <1>t DEF ReadDish, EditRow, DishRow
  <2>2. SafeInv'
    <3>1. \A x \in Editor : edit'[x].phase \in {"count", "remove"} => edit'[x] = edit[x]
      BY <1>3, <1>t DEF ReadDish
    <3>2. QED
      BY <1>3, <3>1 DEF ReadDish, SafeInv, Endangered
  <2>3. QED
    BY <1>3, <2>1, <2>2, <1>t, <1>a DEF ReadDish
<1>4. ASSUME NEW e \in Editor, NEW sent \in Image \cup {NoImage, Unsent}, WriteDish(e, sent)
      PROVE  ImageInv'
  <2> DEFINE r == edit'[e]
  <2>1. edit[e].phase = "update" /\ edit[e] # NoEdit
    BY <1>4, <1>c DEF WriteDish
  <2>2. /\ edit' = [edit EXCEPT ![e] = r] /\ r \in EditRow
        /\ r.phase # "remove"
        /\ r.phase = "count" => r.dish = edit[e].dish
    BY <1>4, <1>t, <1>b, <1>c, <2>1 DEF WriteDish, Answered, Discard, EditRow
  <2>3. /\ edit' \in [Editor -> EditRow] /\ dish' \in [Dish -> DishRow] /\ late' \subseteq Image
        /\ SafeInv'
    <3>1. edit' \in [Editor -> EditRow]
      BY <2>2, <1>t
    <3>2. CASE UNCHANGED <<dish, late>> /\ r.phase # "count"
      <4>1. \A x \in Editor : edit'[x].phase \in {"count", "remove"} => edit'[x] = edit[x]
        <5> HIDE DEF r
        <5>1. QED
          BY <3>2, <2>2, <1>t
      <4>2. QED
        BY <1>4, <3>1, <3>2, <4>1, <1>t DEF WriteDish, SafeInv, Endangered
    <3>3. CASE /\ Bind(edit[e].dish, edit[e].shop, sent) /\ sent \in Image \cup {NoImage}
               /\ r.phase = "count" => r.image # sent
      <4>1. UNCHANGED <<file, sweep>>
        BY <1>4 DEF WriteDish
      <4>2. edit[e].dish \in Dish /\ edit[e].shop \in Shop
        BY <1>b, <2>1
      <4>3. SafeInv' /\ dish' \in [Dish -> DishRow] /\ late' \subseteq Image
        <5>1. PICK d \in Dish, s \in Shop : d = edit[e].dish /\ s = edit[e].shop
          BY <4>2
        <5>2. Bind(d, s, sent)
          BY <5>1, <3>3 DEF Bind
        <5>3. \A y \in Editor \ {e} : edit'[y] = edit[y]
          <6> HIDE DEF r
          <6>1. QED
            BY <2>2, <1>t
        <5>4. QED
          BY <5>1, <5>2, <5>3, <3>3, <2>2, <4>1, BoundInStep
      <4>4. QED
        BY <4>3, <3>1
    <3>4. (UNCHANGED <<dish, late>> /\ r.phase # "count")
          \/ (/\ Bind(edit[e].dish, edit[e].shop, sent) /\ sent \in Image \cup {NoImage}
              /\ r.phase = "count" => r.image # sent)
      <4>1. CASE dish[edit[e].dish] = NoDish
        BY <4>1, <1>4, <1>t, <1>c DEF WriteDish, Answered
      <4>2. CASE dish[edit[e].dish] # NoDish /\ sent = Unsent
        BY <4>2, <1>4, <1>t, <1>c DEF WriteDish, Discard, Changed
      <4>3. CASE dish[edit[e].dish] # NoDish /\ sent # Unsent
        <5>1. Bind(edit[e].dish, edit[e].shop, sent) /\ sent \in Image \cup {NoImage}
          BY <4>3, <1>4 DEF WriteDish, Own
        <5>2. r.phase = "count" => r.image # sent
          BY <4>3, <1>4, <1>t, <1>b, <1>c, <2>1 DEF WriteDish, Discard, Changed
        <5>3. QED
          BY <5>1, <5>2
      <4>4. QED
        BY <4>1, <4>2, <4>3
    <3>5. QED
      BY <3>2, <3>3, <3>4
  <2>4. QED
    BY <1>4, <2>3, <1>t, <1>a DEF WriteDish
<1>5. ASSUME NEW e \in Editor, DeleteDish(e) PROVE ImageInv'
  <2> DEFINE r == edit'[e]
  <2>1. edit[e].phase = "delete" /\ edit[e] # NoEdit
    BY <1>5, <1>c DEF DeleteDish
  <2>2. /\ edit' = [edit EXCEPT ![e] = r] /\ r \in EditRow
        /\ r.phase # "remove"
        /\ r.phase = "count" => r.dish = edit[e].dish
    BY <1>5, <1>t, <1>b, <1>c, <2>1 DEF DeleteDish, Answered, Discard, EditRow
  <2>3. /\ dish' \in [Dish -> DishRow]
        /\ \A x \in Dish : dish'[x].image \in Image => dish'[x] = dish[x]
        /\ r.phase = "count" => dish'[edit[e].dish] = NoDish
    <3>1. NoDish \in DishRow /\ NoDish.image \notin Image
      BY DEF DishRow, NoDish
    <3>2. CASE dish[edit[e].dish] = NoDish
      <4>1. r = NoEdit /\ dish' = dish
        BY <3>2, <1>5, <1>t DEF DeleteDish, Answered
      <4>2. QED
        BY <4>1, <1>t, <1>c
    <3>3. CASE dish[edit[e].dish] # NoDish
      <4>1. dish' = [dish EXCEPT ![edit[e].dish] = NoDish]
        BY <3>3, <1>5 DEF DeleteDish
      <4>2. QED
        BY <4>1, <3>1, <1>t, <1>b, <2>1
    <3>4. QED
      BY <3>2, <3>3
  <2>4. SafeInv'
    <3> SUFFICES ASSUME NEW x \in Dish, NEW j \in Image, dish'[x].image = j, j \notin late
                 PROVE  ~Endangered(j, x)'
      BY <1>5 DEF SafeInv, DeleteDish
    <3>1. ~Endangered(j, x)
      BY <2>3 DEF SafeInv
    <3>2. \A y \in Editor : edit'[y].phase = "count" /\ edit'[y].image = j
                             => edit'[y].dish # x
      <4> SUFFICES ASSUME NEW y \in Editor, edit'[y].phase = "count",
                          edit'[y].image = j, edit'[y].dish = x
                   PROVE  FALSE
        OBVIOUS
      <4>1. CASE y = e
        BY <4>1, <2>2, <2>3, ImageAssumption DEF NoDish
      <4>2. CASE y # e
        <5> HIDE DEF r
        <5>1. edit'[y] = edit[y]
          BY <4>2, <2>2, <1>t
        <5>2. QED
          BY <5>1, <3>1 DEF Endangered
      <4>3. QED
        BY <4>1, <4>2
    <3>3. \A y \in Editor : edit'[y].phase = "remove" => edit'[y] = edit[y]
      <4> HIDE DEF r
      <4>1. QED
        BY <2>2, <1>t
    <3>4. QED
      BY <1>5, <3>1, <3>2, <3>3 DEF Endangered, DeleteDish
  <2>5. QED
    BY <1>5, <2>2, <2>3, <2>4, <1>t, <1>a DEF DeleteDish
<1>6. ASSUME NEW e \in Editor, NEW d \in Dish, CopyDish(e, d) PROVE ImageInv'
  <2>1. /\ edit' = [edit EXCEPT ![e] = NoEdit] /\ edit[e].shop \in Shop
        /\ edit[e].image \in Image \cup {NoImage}
    BY <1>6, <1>b, <1>c DEF CopyDish, Answered
  <2>2. SafeInv' /\ dish' \in [Dish -> DishRow] /\ late' \subseteq Image
    BY <1>6, <1>c, <2>1, BoundInStep DEF CopyDish
  <2>3. QED
    BY <1>6, <2>1, <2>2, <1>c, <1>t, <1>a DEF CopyDish
<1>7. ASSUME NEW e \in Editor, CountOthers(e) PROVE ImageInv'
  <2>1. edit[e].phase = "count" /\ edit[e] # NoEdit
    BY <1>7, <1>c DEF CountOthers
  <2>2. edit' \in [Editor -> EditRow]
    <3>1. [edit[e] EXCEPT !.phase = "remove"] \in EditRow
      BY <1>b, <2>1 DEF EditRow
    <3>2. QED
      BY <1>7, <1>t, <1>c, <3>1 DEF CountOthers, Answered
  <2>3. SafeInv'
    <3> SUFFICES ASSUME NEW d \in Dish, dish[d].image \in Image \ late
                 PROVE  ~Endangered(dish[d].image, d)'
      BY <1>7 DEF SafeInv, CountOthers
    <3>1. ~Endangered(dish[d].image, d)
      BY DEF SafeInv
    <3>2. edit'[e].phase = "remove" => edit'[e].image # dish[d].image
      <4> SUFFICES ASSUME edit'[e].phase = "remove", edit'[e].image = dish[d].image
                   PROVE  FALSE
        OBVIOUS
      <4>1. ~ReferencedElsewhere(edit[e].image, edit[e].dish) /\ edit[e].image = dish[d].image
        BY <1>7, <1>t, <1>b, <1>c, <2>1 DEF CountOthers, Answered
      <4>2. edit[e].dish = d
        BY <4>1 DEF ReferencedElsewhere, Shows
      <4>3. QED
        BY <4>1, <4>2, <3>1, <2>1 DEF Endangered
    <3>3. edit'[e].phase # "count" /\ \A y \in Editor \ {e} : edit'[y] = edit[y]
      BY <1>7, <1>t, <1>b, <1>c, <2>1 DEF CountOthers, Answered
    <3>4. QED
      BY <1>7, <3>1, <3>2, <3>3 DEF Endangered, CountOthers
  <2>4. QED
    BY <1>7, <2>2, <2>3, <1>t, <1>a DEF CountOthers
<1>8. ASSUME NEW e \in Editor, NEW s \in Shop, NEW i \in Image, DropImage(e, s, i)
      PROVE  ImageInv'
  <2>1. edit' \in [Editor -> EditRow]
    BY <1>8, <1>t DEF DropImage, EditRow
  <2>2. SafeInv'
    <3>1. \A x \in Editor \ {e} : edit'[x] = edit[x]
      BY <1>8, <1>t DEF DropImage
    <3>2. edit'[e].phase = "remove" /\ edit'[e].image = i /\ \A d \in Dish : dish[d].image # i
      BY <1>8, <1>t DEF DropImage, Bound, Shows
    <3>3. QED
      BY <1>8, <3>1, <3>2 DEF DropImage, SafeInv, Endangered
  <2>3. QED
    BY <1>8, <2>1, <2>2, <1>t, <1>a DEF DropImage
<1>9. ASSUME NEW e \in Editor, RemoveFile(e) PROVE ImageInv'
  <2>1. file' \in [Image -> FileRow] /\ edit' \in [Editor -> EditRow]
    BY <1>9, <1>t, <1>c DEF RemoveFile, deleteByPublicId, Answered, FileRow
  <2>2. SafeInv'
    <3> SUFFICES ASSUME NEW d \in Dish, dish[d].image \in Image \ late
                 PROVE  ~Endangered(dish[d].image, d)'
      BY <1>9 DEF SafeInv, RemoveFile
    <3>1. ~Endangered(dish[d].image, d)
      BY DEF SafeInv
    <3>2. file'[dish[d].image] = file[dish[d].image]
      BY <1>9, <1>t, <3>1 DEF RemoveFile, deleteByPublicId, Endangered
    <3>3. \A x \in Editor : edit'[x].phase \in {"count", "remove"} => edit'[x] = edit[x]
      BY <1>9, <1>t, <1>c DEF RemoveFile, Answered
    <3>4. QED
      BY <1>9, <3>1, <3>2, <3>3 DEF Endangered, RemoveFile
  <2>3. QED
    BY <1>9, <2>1, <2>2, <1>t, <1>a DEF RemoveFile
<1>10. ASSUME NEW e \in Editor, DieEditing(e) PROVE ImageInv'
  <2>1. edit' \in [Editor -> EditRow]
    BY <1>10, <1>t, <1>c DEF DieEditing, Answered
  <2>2. SafeInv'
    <3>1. \A x \in Editor : edit'[x].phase \in {"count", "remove"} => edit'[x] = edit[x]
      BY <1>10, <1>t, <1>c DEF DieEditing, Answered
    <3>2. QED
      BY <1>10, <3>1 DEF DieEditing, SafeInv, Endangered
  <2>3. QED
    BY <1>10, <2>1, <2>2, <1>t, <1>a DEF DieEditing
<1>11. ASSUME ListFiles \/ ListShops \/ EndSweep \/ DieSweeping PROVE ImageInv'
  <2>1. UNCHANGED <<dish, file, active, edit, late>> /\ sweep'.phase # "removing"
    <3>1. CASE ListFiles
      BY <3>1 DEF ListFiles, NoSweep
    <3>2. CASE ListShops
      BY <3>2, <1>t DEF ListShops, SweepRow
    <3>3. CASE EndSweep \/ DieSweeping
      BY <3>3 DEF EndSweep, DieSweeping, NoSweep
    <3>4. QED
      BY <1>11, <3>1, <3>2, <3>3
  <2>2. sweep' \in SweepRow
    <3>1. CASE ListFiles
      BY <3>1 DEF ListFiles, NoSweep, SweepRow
    <3>2. CASE ListShops
      BY <3>2, <1>t DEF ListShops, SweepRow
    <3>3. CASE EndSweep \/ DieSweeping
      BY <3>3 DEF EndSweep, DieSweeping, NoSweep, SweepRow
    <3>4. QED
      BY <1>11, <3>1, <3>2, <3>3
  <2>3. SafeInv'
    BY <2>1 DEF SafeInv, Endangered
  <2>4. QED
    BY <2>1, <2>2, <2>3, <1>t, <1>a
<1>12. ASSUME NEW i \in Image, CheckFile(i) PROVE ImageInv'
  <2>1. PICK unread \in SUBSET sweep.shops :
          /\ sweep' = IF Counted(i, sweep.shops \ unread)
                      THEN [sweep EXCEPT !.keys = @ \ {i}]
                      ELSE [phase |-> "removing", keys |-> sweep.keys \ {i},
                            shops |-> sweep.shops, image |-> i]
          /\ late' = IF Bound(i) /\ ~Counted(i, sweep.shops \ unread)
                     THEN late \cup {i} ELSE late
    BY <1>12 DEF CheckFile
  <2>2. /\ sweep.phase = "checking" /\ sweep.keys \subseteq Image /\ sweep.shops \subseteq Shop
        /\ sweep \in [phase : {"idle", "listed", "checking"}, keys : SUBSET Image,
                      shops : SUBSET Shop]
    BY <1>12, <1>t DEF CheckFile, SweepRow
  <2>3. sweep' \in SweepRow /\ late' \subseteq Image /\ late \subseteq late'
    <3>1. CASE Counted(i, sweep.shops \ unread)
      BY <3>1, <2>1, <2>2, <1>t DEF SweepRow
    <3>2. CASE ~Counted(i, sweep.shops \ unread)
      BY <3>2, <2>1, <2>2, <1>t DEF SweepRow
    <3>3. QED
      BY <3>1, <3>2
  <2>4. sweep'.phase = "removing" => sweep'.image = i /\ (Bound(i) => i \in late')
    BY <2>1, <2>2
  <2>5. SafeInv'
    BY <1>12, <2>3, <2>4 DEF CheckFile, SafeInv, Endangered, Bound, Shows
  <2>6. QED
    BY <1>12, <2>3, <2>5, <1>t, <1>a DEF CheckFile
<1>13. ASSUME NEW i \in Image, SweepFile(i) PROVE ImageInv'
  <2>1. file' \in [Image -> FileRow] /\ sweep' \in SweepRow /\ sweep'.phase # "removing"
    BY <1>13, <1>t, ZenonT(60) DEF SweepFile, deleteByPublicId, FileRow, SweepRow
  <2>2. SafeInv'
    <3> SUFFICES ASSUME NEW d \in Dish, dish[d].image \in Image \ late
                 PROVE  ~Endangered(dish[d].image, d)'
      BY <1>13 DEF SafeInv, SweepFile
    <3>1. ~Endangered(dish[d].image, d)
      BY DEF SafeInv
    <3>2. file'[dish[d].image] = file[dish[d].image]
      BY <1>13, <1>t, <3>1 DEF SweepFile, deleteByPublicId, Endangered
    <3>3. QED
      BY <1>13, <2>1, <3>1, <3>2 DEF Endangered, SweepFile
  <2>3. QED
    BY <1>13, <2>1, <2>2, <1>t, <1>a DEF SweepFile
<1>14. ASSUME NEW i \in Image, GrowOld(i) PROVE ImageInv'
  <2>1. file' \in [Image -> FileRow] /\ \A j \in Image : file'[j].stored = file[j].stored
    BY <1>14, <1>t DEF GrowOld, FileRow
  <2>2. SafeInv'
    BY <1>14, <2>1 DEF GrowOld, SafeInv, Endangered
  <2>3. QED
    BY <1>14, <2>1, <2>2, <1>t, <1>a DEF GrowOld
<1>15. ASSUME NEW s \in Shop, ChangeStatus(s) PROVE ImageInv'
  <2>1. active' \subseteq Shop
    BY <1>15, <1>t DEF ChangeStatus
  <2>2. SafeInv'
    BY <1>15 DEF ChangeStatus, SafeInv, Endangered
  <2>3. QED
    BY <1>15, <2>1, <2>2, <1>t, <1>a DEF ChangeStatus
<1>16. ASSUME UNCHANGED imageVars PROVE ImageInv'
  <2>1. SafeInv'
    BY <1>16 DEF imageVars, SafeInv, Endangered
  <2>2. QED
    BY <1>16, <2>1, <1>t, <1>a DEF imageVars
<1>17. QED
  BY <1>1, <1>2, <1>3, <1>4, <1>5, <1>6, <1>7, <1>8, <1>9, <1>10, <1>11, <1>12, <1>13,
     <1>14, <1>15, <1>16
  DEF ImageNext, EditStep, SweepStep

\* For any restaurants, items and pictures, uploads, edits, deletions, copies and
\* clean-up passes: the picture an item shows is stored, unless it was given to the
\* item when somebody had already looked for whoever uses it.
THEOREM ImagesAreThereAlways == ImageSpec => []ImagesAreThere
<1>1. ImageInv => ImagesAreThere
  BY DEF ImageInv, SafeInv, ImagesAreThere, Endangered
<1>2. QED
  BY ImageStart, ImageStep, <1>1, PTL DEF ImageSpec

\* For the same: items, files, edits and the pass keep their types.
THEOREM ImageTypeCorrect == ImageSpec => []ImageTypeOK
<1>1. ImageInv => ImageTypeOK
  BY DEF ImageInv
<1>2. QED
  BY ImageStart, ImageStep, <1>1, PTL DEF ImageSpec

-----------------------------------------------------------------------------
(* Accounts *)

\* A stopped restaurant is not ACTIVE, which every request looks at.
ClosedInv == stopped => house.status # "ACTIVE"

\* A member of the staff who was barred is disabled or gone.
BarredInv == \A p \in barred : ~account[p].there \/ ~account[p].active

\* A token was signed before now; one of an older password, whose login did not meet
\* the change, was signed no later than the change.
TokenInv ==
  \A t \in tokens :
    /\ t.iat <= second
    /\ t.pw # account[t.who].pw /\ ~t.met => t.iat <= account[t.who].changed

AccessInv == AccessTypeOK /\ ClosedInv /\ BarredInv /\ TokenInv

AccountRow == [there : BOOLEAN, active : BOOLEAN, deleted : BOOLEAN, temp : BOOLEAN,
               pw : 0..MaxPasswords, changed : 0..MaxSecond]

TokenRow == [who : Accounts, pw : 0..MaxPasswords, iat : 1..MaxSecond, met : BOOLEAN]

\* What a step of an account does to everybody's rows: nothing is re-opened for the
\* staff, and a password that changes does so now.
Kept(p, b) ==
  /\ account'[p] \in AccountRow
  /\ ~account[p].there => ~account'[p].there
  /\ p \in b => ~account'[p].there \/ ~account'[p].active
  /\ account'[p].pw = account[p].pw => account'[p].changed = account[p].changed
  /\ account'[p].pw # account[p].pw => account'[p].changed = second

-----------------------------------------------------------------------------

LEMMA AccessStart == AccessInit => AccessInv
<1> SUFFICES ASSUME AccessInit PROVE AccessInv
  OBVIOUS
<1>1. account \in [Accounts -> AccountRow]
  BY AccessAssumption DEF AccessInit, AccountRow
<1>2. visit \in [Client -> {Out} \cup [op : {"login", "sign", "change"}, who : Accounts,
                                       pw : 0..MaxPasswords]]
  BY DEF AccessInit
<1>3. AccessTypeOK
  <2>1. {paid, stopped} \subseteq BOOLEAN
    BY DEF AccessInit
  <2>2. /\ house \in [status : {"ACTIVE", "INACTIVE", "SUSPENDED"}, deleted : BOOLEAN]
        /\ plan \in [status : {"ACTIVE", "EXPIRED", "CANCELLED", "SUSPENDED"},
                     lapsed : BOOLEAN]
        /\ tokens \subseteq TokenRow /\ second \in 1..MaxSecond /\ barred \subseteq Staff
    BY AccessAssumption DEF AccessInit
  <2>3. QED
    BY <1>1, <1>2, <2>1, <2>2 DEF AccessTypeOK, AccountRow, TokenRow
<1>4. ClosedInv /\ BarredInv /\ TokenInv
  BY DEF AccessInit, ClosedInv, BarredInv, TokenInv
<1>5. QED
  BY <1>3, <1>4 DEF AccessInv

\* Whatever is done to the accounts, the invariants on them hold after it.
LEMMA AccountsStep ==
  ASSUME AccessInv, UNCHANGED <<tokens, second>>,
         account' \in [Accounts -> AccountRow], barred' \subseteq Staff,
         \A p \in Accounts : Kept(p, barred')
  PROVE  BarredInv' /\ TokenInv'
<1> USE DEF AccessInv, AccessTypeOK, AccountRow
<1>1. BarredInv'
  BY DEF BarredInv, Kept, Accounts
<1>2. TokenInv'
  <2> SUFFICES ASSUME NEW t \in tokens
               PROVE  /\ t.iat <= second
                      /\ t.pw # account'[t.who].pw /\ ~t.met => t.iat <= account'[t.who].changed
    BY DEF TokenInv
  <2>1. t.who \in Accounts /\ t.iat \in Nat /\ second \in Nat
    BY DEF AccessInv
  <2>2. Kept(t.who, barred')
    BY <2>1
  <2>3. QED
    BY <2>1, <2>2 DEF TokenInv, Kept
<1>3. QED
  BY <1>1, <1>2

\* Enabling or disabling the administrators leaves the staff alone.
LEMMA AdminsOnly ==
  ASSUME AccessInv, UNCHANGED <<tokens, second, barred>>,
         account' \in [Accounts -> AccountRow],
         \A p \in Accounts : /\ p \in Staff => account'[p] = account[p]
                             /\ account'[p].there = account[p].there
                             /\ account'[p].pw = account[p].pw
                             /\ account'[p].changed = account[p].changed
  PROVE  BarredInv' /\ TokenInv'
<1>1. \A p \in Accounts : Kept(p, barred')
  BY DEF Kept, AccessInv, AccessTypeOK, BarredInv
<1>2. barred' \subseteq Staff
  BY DEF AccessInv, AccessTypeOK
<1>3. QED
  BY <1>1, <1>2, AccountsStep

\* One account gets another row.
LEMMA OneAccount ==
  ASSUME AccessInv, UNCHANGED <<tokens, second>>,
         NEW p \in Accounts, NEW row \in AccountRow, Set(p, row),
         barred' \subseteq Staff, barred' \subseteq barred \cup {p},
         ~account[p].there => ~row.there,
         p \in barred' => ~row.there \/ ~row.active,
         row.pw = account[p].pw => row.changed = account[p].changed,
         row.pw # account[p].pw => row.changed = second
  PROVE  account' \in [Accounts -> AccountRow] /\ BarredInv' /\ TokenInv'
<1>1. account \in [Accounts -> AccountRow]
  BY DEF AccessInv, AccessTypeOK, AccountRow
<1>2. /\ account' \in [Accounts -> AccountRow]
      /\ account'[p] = row /\ \A q \in Accounts \ {p} : account'[q] = account[q]
  BY <1>1 DEF Set
<1>3. \A q \in Accounts : Kept(q, barred')
  BY <1>1, <1>2 DEF Kept, AccessInv, BarredInv
<1>4. QED
  BY <1>2, <1>3, AccountsStep

LEMMA AccessStep == ASSUME AccessInv, [AccessNext]_accessVars PROVE AccessInv'
<1> USE AccessAssumption
<1>0. account \in [Accounts -> AccountRow]
  BY DEF AccessInv, AccessTypeOK, AccountRow
<1>1. ASSUME UNCHANGED accessVars PROVE AccessInv'
  BY <1>1 DEF AccessInv, AccessTypeOK, accessVars, ClosedInv, BarredInv, TokenInv
<1>2. ASSUME NEW v \in BOOLEAN, account' = Enabled(v), Doors, UNCHANGED barred
      PROVE  account' \in [Accounts -> AccountRow] /\ BarredInv' /\ TokenInv'
  <2>1. account' \in [Accounts -> AccountRow]
    BY <1>0, <1>2 DEF Enabled, AccountRow
  <2>2. \A p \in Accounts : /\ p \in Staff => account'[p] = account[p]
                            /\ account'[p].there = account[p].there
                            /\ account'[p].pw = account[p].pw
                            /\ account'[p].changed = account[p].changed
    BY <1>0, <1>2 DEF Enabled, AccountRow
  <2>3. QED
    BY <1>2, <2>1, <2>2, AdminsOnly DEF Doors
<1>3. ASSUME People, Doors PROVE BarredInv' /\ TokenInv'
  BY <1>3 DEF People, Doors, AccessInv, BarredInv, TokenInv
<1>4. ASSUME account' \in [Accounts -> AccountRow], BarredInv', TokenInv', ClosedInv',
             barred' \subseteq Staff, Doors,
             house' \in [status : {"ACTIVE", "INACTIVE", "SUSPENDED"}, deleted : BOOLEAN],
             plan' \in [status : {"ACTIVE", "EXPIRED", "CANCELLED", "SUSPENDED"},
                        lapsed : BOOLEAN],
             {paid', stopped'} \subseteq BOOLEAN
      PROVE  AccessInv'
  BY <1>4 DEF AccessInv, AccessTypeOK, AccountRow, Doors
<1>5. ASSUME NEW st \in {"ACTIVE", "INACTIVE", "SUSPENDED"}, ChangeRestaurantStatus(st)
      PROVE  AccessInv'
  <2>1. account' \in [Accounts -> AccountRow] /\ BarredInv' /\ TokenInv'
    BY <1>2, <1>5 DEF ChangeRestaurantStatus
  <2>2. QED
    BY <1>4, <1>5, <2>1 DEF ChangeRestaurantStatus, ClosedInv, AccessInv, AccessTypeOK
<1>6. ASSUME NEW st \in {"ACTIVE", "INACTIVE", "SUSPENDED"}, UpdateRestaurant(st)
      PROVE  AccessInv'
  BY <1>0, <1>3, <1>4, <1>6
  DEF UpdateRestaurant, People, ClosedInv, AccessInv, AccessTypeOK
<1>7. ASSUME RemoveRestaurant PROVE AccessInv'
  <2>1. account' \in [Accounts -> AccountRow]
    BY <1>0, <1>7, ZenonT(60) DEF RemoveRestaurant, AccountRow
  <2>2. \A p \in Accounts : /\ p \in Staff => account'[p] = account[p]
                            /\ account'[p].there = account[p].there
                            /\ account'[p].pw = account[p].pw
                            /\ account'[p].changed = account[p].changed
    BY <1>0, <1>7 DEF RemoveRestaurant, AccountRow
  <2>3. BarredInv' /\ TokenInv'
    BY <1>7, <2>1, <2>2, AdminsOnly DEF RemoveRestaurant, Doors
  <2>4. QED
    BY <1>4, <1>7, <2>1, <2>3 DEF RemoveRestaurant, ClosedInv, AccessInv, AccessTypeOK
<1>8. ASSUME RenewSubscription PROVE AccessInv'
  <2>1. account' \in [Accounts -> AccountRow] /\ BarredInv' /\ TokenInv'
    BY <1>2, <1>8 DEF RenewSubscription
  <2>2. QED
    BY <1>4, <1>8, <2>1 DEF RenewSubscription, ClosedInv, AccessInv, AccessTypeOK
<1>9. ASSUME CancelSubscription \/ SuspendSubscription PROVE AccessInv'
  <2>1. account' \in [Accounts -> AccountRow] /\ BarredInv' /\ TokenInv'
    BY <1>2, <1>9 DEF CancelSubscription, SuspendSubscription, StopSubscription
  <2>2. QED
    BY <1>4, <1>9, <2>1
    DEF CancelSubscription, SuspendSubscription, StopSubscription, ClosedInv, AccessInv,
        AccessTypeOK
<1>10. ASSUME OpenPurchase \/ Capture \/ Lapse \/ RunExpiryPass PROVE AccessInv'
  <2>1. People /\ Doors
    BY <1>10 DEF OpenPurchase, Capture, Lapse, RunExpiryPass
  <2>2. /\ account' \in [Accounts -> AccountRow]
        /\ barred' \subseteq Staff
        /\ BarredInv' /\ TokenInv'
    BY <1>0, <1>3, <2>1 DEF People, AccessInv, AccessTypeOK
  <2>3. /\ house' \in [status : {"ACTIVE", "INACTIVE", "SUSPENDED"}, deleted : BOOLEAN]
        /\ plan' \in [status : {"ACTIVE", "EXPIRED", "CANCELLED", "SUSPENDED"},
                      lapsed : BOOLEAN]
        /\ {paid', stopped'} \subseteq BOOLEAN
    <3>1. CASE OpenPurchase
      BY <3>1 DEF OpenPurchase, AccessInv, AccessTypeOK
    <3>2. CASE Capture
      BY <3>2 DEF Capture, AccessInv, AccessTypeOK
    <3>3. CASE Lapse
      BY <3>3 DEF Lapse, AccessInv, AccessTypeOK
    <3>4. CASE RunExpiryPass
      BY <3>4 DEF RunExpiryPass, AccessInv, AccessTypeOK
    <3>5. QED
      BY <1>10, <3>1, <3>2, <3>3, <3>4
  <2>4. ClosedInv'
    BY <1>10 DEF OpenPurchase, Capture, Lapse, RunExpiryPass, ClosedInv, AccessInv
  <2>5. QED
    BY <1>4, <2>1, <2>2, <2>3, <2>4
<1>11. ASSUME NEW p \in Accounts, NEW row \in AccountRow, Set(p, row), Rows, Doors,
              barred' \subseteq Staff, barred' \subseteq barred \cup {p},
              ~account[p].there => ~row.there,
              p \in barred' => ~row.there \/ ~row.active,
              row.pw = account[p].pw => row.changed = account[p].changed,
              row.pw # account[p].pw => row.changed = second
       PROVE  AccessInv'
  <2>1. account' \in [Accounts -> AccountRow] /\ BarredInv' /\ TokenInv'
    BY <1>11, OneAccount DEF Doors
  <2>2. QED
    BY <1>4, <1>11, <2>1 DEF Rows, ClosedInv, AccessInv, AccessTypeOK
<1>12. \A p \in Accounts, temp \in BOOLEAN : account[p].pw < MaxPasswords =>
         /\ WithPassword(p, temp) \in AccountRow
         /\ WithPassword(p, temp).there = account[p].there
         /\ WithPassword(p, temp).active = account[p].active
         /\ WithPassword(p, temp).pw # account[p].pw
         /\ WithPassword(p, temp).changed = second
  <2> SUFFICES ASSUME NEW p \in Accounts, NEW temp \in BOOLEAN, account[p].pw < MaxPasswords
               PROVE  /\ WithPassword(p, temp) \in AccountRow
                      /\ WithPassword(p, temp).there = account[p].there
                      /\ WithPassword(p, temp).active = account[p].active
                      /\ WithPassword(p, temp).pw # account[p].pw
                      /\ WithPassword(p, temp).changed = second
    OBVIOUS
  <2>1. account[p] \in AccountRow /\ second \in 0..MaxSecond
    BY <1>0 DEF AccessInv, AccessTypeOK
  <2>2. /\ account[p].pw + 1 \in 0..MaxPasswords
        /\ account[p].pw + 1 # account[p].pw
    BY <2>1 DEF AccountRow
  <2>3. QED
    BY <2>1, <2>2 DEF WithPassword, AccountRow
<1>13. ASSUME NEW p \in Admins,
              AdminToggleUserStatus(p) \/ AdminDeleteUser(p) \/ AdminResetPassword(p)
       PROVE  AccessInv'
  <2>1. p \in Accounts /\ p \notin barred /\ account[p] \in AccountRow
    BY <1>0 DEF Accounts, AccessInv, AccessTypeOK
  <2>2. CASE AdminToggleUserStatus(p)
    BY <1>11, <2>1, <2>2 DEF AdminToggleUserStatus, AccountRow, AccessInv, AccessTypeOK
  <2>3. CASE AdminDeleteUser(p)
    BY <1>11, <2>1, <2>3 DEF AdminDeleteUser, AccountRow, AccessInv, AccessTypeOK
  <2>4. CASE AdminResetPassword(p)
    BY <1>11, <1>12, <2>1, <2>4 DEF AdminResetPassword, AccessInv, AccessTypeOK
  <2>5. QED
    BY <1>13, <2>2, <2>3, <2>4
<1>14. ASSUME NEW p \in Staff, NEW v \in BOOLEAN, ChangeStaffStatus(p, v) PROVE AccessInv'
  <2>1. p \in Accounts /\ account[p] \in AccountRow
    BY <1>0 DEF Accounts
  <2>2. QED
    BY <1>11, <1>14, <2>1 DEF ChangeStaffStatus, AccountRow, AccessInv, AccessTypeOK
<1>15. ASSUME NEW p \in Staff, StaffPassword(p) \/ DeleteUser(p) PROVE AccessInv'
  <2>1. p \in Accounts /\ account[p] \in AccountRow
    BY <1>0 DEF Accounts
  <2>2. CASE StaffPassword(p)
    BY <1>11, <1>12, <2>1, <2>2 DEF StaffPassword, BarredInv, AccessInv, AccessTypeOK
  <2>3. CASE DeleteUser(p)
    BY <1>11, <2>1, <2>3 DEF DeleteUser, AccountRow, AccessInv, AccessTypeOK
  <2>4. QED
    BY <1>15, <2>2, <2>3
<1>16. ASSUME NEW c \in Client, NEW p \in Accounts, LoginRead(c, p) \/ LoginAs(c, p)
       PROVE  AccessInv'
  BY <1>16
  DEF LoginRead, LoginAs, Visit, People, Rows, AccessInv, AccessTypeOK, ClosedInv, BarredInv,
      TokenInv
<1>17. ASSUME NEW c \in Client, LoginCheck(c) PROVE AccessInv'
  BY <1>17
  DEF LoginCheck, Visit, Leave, Out, People, Rows, AccessInv, AccessTypeOK, ClosedInv,
      BarredInv, TokenInv
<1>18. ASSUME NEW c \in Client, NEW t \in tokens, ChangeRead(c, t) PROVE AccessInv'
  BY <1>18
  DEF ChangeRead, Visit, People, Rows, AccessInv, AccessTypeOK, ClosedInv, BarredInv, TokenInv
<1>19. ASSUME NEW c \in Client, Sign(c) PROVE AccessInv'
  <2> DEFINE v == visit[c]
             new == [who |-> v.who, pw |-> v.pw, iat |-> second,
                     met |-> v.pw # account[v.who].pw]
  <2>1. v.who \in Accounts /\ v.pw \in 0..MaxPasswords
    BY <1>19 DEF Sign, Out, AccessInv, AccessTypeOK
  <2>2. new \in TokenRow
    BY <2>1 DEF TokenRow, AccessInv, AccessTypeOK
  <2>3. tokens' = tokens \cup {new} /\ visit' = [visit EXCEPT ![c] = Out]
    BY <1>19 DEF Sign, Leave, Visit
  <2>4. AccessTypeOK' /\ ClosedInv' /\ BarredInv'
    <3> HIDE DEF new
    <3>1. UNCHANGED <<house, plan, account, paid, stopped, barred, second>>
      BY <1>19 DEF Sign, People, Rows
    <3>2. tokens' \subseteq TokenRow
      BY <2>2, <2>3 DEF AccessInv, AccessTypeOK, TokenRow
    <3>3. visit' \in [Client -> {Out} \cup [op : {"login", "sign", "change"},
                                            who : Accounts, pw : 0..MaxPasswords]]
      BY <2>3 DEF AccessInv, AccessTypeOK
    <3>4. QED
      BY <3>1, <3>2, <3>3 DEF AccessInv, AccessTypeOK, TokenRow, ClosedInv, BarredInv
  <2>5. new.iat <= second /\ ~(new.pw # account[new.who].pw /\ ~new.met)
    <3>1. new.iat <= second
      BY DEF AccessInv, AccessTypeOK
    <3>2. new.met = (new.pw # account[new.who].pw)
      BY Zenon
    <3>3. QED
      BY <3>1, <3>2, Zenon
  <2>6. TokenInv'
    BY <1>19, <2>3, <2>5 DEF Sign, People, AccessInv, TokenInv
  <2>7. QED
    BY <2>4, <2>6 DEF AccessInv
<1>20. ASSUME NEW c \in Client, ChangeWrite(c) PROVE AccessInv'
  <2> DEFINE p == visit[c].who
  <2>1. p \in Accounts /\ account[p] \in AccountRow
    BY <1>0, <1>20 DEF ChangeWrite, Out, AccessInv, AccessTypeOK
  <2>2. visit' = [visit EXCEPT ![c] = Out] /\ UNCHANGED <<tokens, second, barred>> /\ Rows
    BY <1>20 DEF ChangeWrite, Leave, Visit
  <2>3. CASE account[p].there
    <3>1. account[p].pw < MaxPasswords /\ Set(p, WithPassword(p, FALSE))
      BY <1>20, <2>3 DEF ChangeWrite, Rewritten
    <3>2. p \in barred => ~account[p].active
      BY <2>3 DEF AccessInv, BarredInv
    <3>3. account' \in [Accounts -> AccountRow] /\ BarredInv' /\ TokenInv'
      BY <1>12, <2>1, <2>2, <2>3, <3>1, <3>2, OneAccount DEF AccessInv, AccessTypeOK
    <3>4. QED
      BY <2>2, <3>3 DEF Rows, AccountRow, ClosedInv, AccessInv, AccessTypeOK
  <2>4. CASE ~account[p].there
    <3>1. UNCHANGED account
      BY <1>20, <2>4 DEF ChangeWrite
    <3>2. QED
      BY <2>2, <3>1
      DEF Rows, ClosedInv, BarredInv, TokenInv, AccessInv, AccessTypeOK
  <2>5. QED
    BY <2>3, <2>4
<1>21. ASSUME Tick PROVE AccessInv'
  BY <1>21
  DEF Tick, People, Rows, AccessInv, AccessTypeOK, ClosedInv, BarredInv, TokenInv
<1>22. QED
  BY <1>1, <1>5, <1>6, <1>7, <1>8, <1>9, <1>10, <1>13, <1>14, <1>15, <1>16, <1>17, <1>18,
     <1>19, <1>20, <1>21 DEF AccessNext, Accounts

-----------------------------------------------------------------------------

\* For any staff and administrators, passwords, tokens and seconds: accounts, tokens and
\* the restaurant's switches keep their types.
THEOREM AccessTypeCorrect == AccessSpec => []AccessTypeOK
<1>1. AccessInit => AccessInv
  BY AccessStart
<1>2. AccessInv /\ [AccessNext]_accessVars => AccessInv'
  BY AccessStep
<1>3. AccessInv => AccessTypeOK
  BY DEF AccessInv
<1>4. QED
  BY <1>1, <1>2, <1>3, PTL DEF AccessSpec

\* For any staff and administrators, and any number of logins, password changes, bars
\* and restarts of the restaurant: authenticate lets nobody work who was barred, nobody
\* in a restaurant that was stopped, and no token of an older password.
THEOREM GateHoldsAlways == AccessSpec => []GateHolds
<1>1. AccessInit => AccessInv
  BY AccessStart
<1>2. AccessInv /\ [AccessNext]_accessVars => AccessInv'
  BY AccessStep
<1>3. AccessInv => GateHolds
  BY DEF AccessInv, AccessTypeOK, ClosedInv, BarredInv, TokenInv, GateHolds, Served, TokenIsFresh,
     Accounts
<1>4. QED
  BY <1>1, <1>2, <1>3, PTL DEF AccessSpec

-----------------------------------------------------------------------------
(* A tenant's rows, pictures and doors together *)

TypesInv == SchemaInv /\ ImageInv /\ AccessInv

LEMMA TypesStep ==
  ASSUME TypesInv, [MCNext]_<<vars, migrationVars, imageVars, accessVars, mix>>
  PROVE  TypesInv'
<1>1. /\ [MigrationNext]_migrationVars /\ [ImageNext]_imageVars /\ [AccessNext]_accessVars
  BY DEF MCNext, Moving, Purchases, Pictures, Doorkeeping
<1> QED
  BY <1>1, SchemaStep, ImageStep, AccessStep DEF TypesInv

\* Whichever part of a tenant is at work, its rows, its pictures or its logins, that part
\* keeps its types, and the migrated rows their keys and references.
THEOREM TenancyTypesAlways == MCSpec => []TenancyTypeOK
<1>1. MCInit => TypesInv
  BY SchemaStart, ImageStart, AccessStart DEF MCInit, TypesInv
<1>2. TypesInv /\ [MCNext]_<<vars, migrationVars, imageVars, accessVars, mix>> => TypesInv'
  BY TypesStep
<1>3. TypesInv => TenancyTypeOK
  BY SchemaIsTyped DEF TypesInv, ImageInv, AccessInv, TenancyTypeOK
<1> QED
  BY <1>1, <1>2, <1>3, PTL DEF MCSpec
=============================================================================
