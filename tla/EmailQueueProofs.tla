---------------------------- MODULE EmailQueueProofs ----------------------------
(***************************************************************************)
(* Theorems of EmailQueue: its type invariant; that whoever delivers a row *)
(* excludes the others, but those a resend lets in; and that, where the    *)
(* transport does not lose its answers, a mail is taken once, and once     *)
(* more per resend.                                                        *)
(*                                                                         *)
(* Both properties count the licences to deliver a mail: enqueueing it     *)
(* gives one, a resend one more.  A licence lies in the row while it can   *)
(* be claimed, or with the actor that claimed it; it is used up when the   *)
(* mail has been taken, or the row is SENT.                                *)
(***************************************************************************)
EXTENDS EmailQueue, FiniteSetTheorems, TLAPS

-----------------------------------------------------------------------------
(* The inductive invariants *)

\* The actors of jobs f that deliver mail k in one of the phases P.
At(f, P, k) == {a \in Actors : f[a].phase \in P /\ f[a].key = k}

\* The phases in which an actor holds a licence: until the mail was taken, and
\* until that is recorded.
Unsent     == {"reset", "sending", "refused"}
Unrecorded == {"reset", "sending", "refused", "taken"}

\* The licence that lies in the row.
Free(row) == IF row.status \in {"NONE", "PENDING", "FAILED"} THEN 1 ELSE 0

SenderInv ==
  \A k \in Keys : Cardinality(At(job, Unrecorded, k)) + Free(log[k]) <= 1 + resends[k]

SentInv ==
  \A k \in Keys :
    Cardinality(At(job, Unsent, k)) + accepted[k] + Free(log[k]) <= 1 + resends[k]

-----------------------------------------------------------------------------
(* Jobs *)

\* The number of those that deliver a mail goes from n to m when the job i of one
\* of them is replaced by j.
Counted(n, m, i, j, P, k) ==
  /\ n \in Nat /\ m \in Nat /\ m <= n + 1
  /\ ~(j.phase \in P /\ j.key = k) => m <= n
  /\ i.phase \in P /\ i.key = k => m <= n
  /\ i.phase \in P /\ i.key = k /\ ~(j.phase \in P /\ j.key = k) => m = n - 1

LEMMA OneJob ==
  ASSUME NEW f \in [Actors -> Job], NEW a \in Actors, NEW j, NEW P, NEW k,
         NEW g, g = [f EXCEPT ![a] = j]
  PROVE  Counted(Cardinality(At(f, P, k)), Cardinality(At(g, P, k)), f[a], j, P, k)
<1> DEFINE old == At(f, P, k)
           new == At(g, P, k)
<1>1. IsFiniteSet(Actors)
  BY ActorAssumption, FS_Union DEF Actors
<1>2. IsFiniteSet(old) /\ IsFiniteSet(new)
  BY <1>1, FS_Subset DEF At
<1>3. Cardinality(old) \in Nat /\ Cardinality(new) \in Nat
  BY <1>2, FS_CardinalityType
<1>4. /\ new \ {a} = old \ {a}
      /\ a \in old <=> f[a].phase \in P /\ f[a].key = k
      /\ a \in new <=> j.phase \in P /\ j.key = k
  BY DEF At
<1>5. /\ IsFiniteSet(old \ {a})
      /\ Cardinality(old \ {a}) = IF a \in old THEN Cardinality(old) - 1
                                               ELSE Cardinality(old)
  BY <1>2, FS_RemoveElement
<1>6. Cardinality(new \ {a}) = IF a \in new THEN Cardinality(new) - 1
                                            ELSE Cardinality(new)
  BY <1>2, FS_RemoveElement
<1> HIDE DEF old, new
<1>7. Cardinality(new) = Cardinality(old) + (IF a \in new THEN 1 ELSE 0)
                                          - (IF a \in old THEN 1 ELSE 0)
  <2>1. Cardinality(new \ {a}) = Cardinality(old \ {a})
    BY <1>4
  <2>2. QED
    BY <1>3, <1>5, <1>6, <2>1
<1>8. /\ Cardinality(new) <= Cardinality(old) + 1
      /\ a \notin new => Cardinality(new) <= Cardinality(old)
      /\ a \in old => Cardinality(new) <= Cardinality(old)
      /\ a \in old /\ a \notin new => Cardinality(new) = Cardinality(old) - 1
  BY <1>3, <1>7
<1>9. QED
  BY <1>3, <1>4, <1>8 DEF old, new, Counted

\* An actor at work has a mail.
LEMMA Working ==
  ASSUME TypeOK, NEW a \in Actors, job[a].phase # "idle"
  PROVE  /\ job[a].key \in Keys
         /\ job[a].attempts \in Nat
         /\ job[a].phase \in {"create", "reset", "ready", "sending", "taken", "refused"}
         /\ job[a] # Idle
BY DEF TypeOK, Job, Idle

-----------------------------------------------------------------------------
(* Type correctness *)

LEMMA RowTypes == NoRow \in Row /\ \A row \in Row : Claimed(row) \in Row
BY DEF NoRow, Row, Claimed

LEMMA TypeInit == Init => TypeOK
BY MaxAssumption, RowTypes DEF Init, TypeOK, Job, Idle

LEMMA TypeStep == ASSUME TypeOK, [Next]_vars PROVE TypeOK'
<1> USE DEF TypeOK
<1>1. ASSUME NEW h \in Handlers, NEW k \in Keys, Enqueue(h, k) PROVE TypeOK'
  BY <1>1 DEF Enqueue, Work, Actors, Job
<1>2. ASSUME NEW h \in Handlers, NEW k \in Keys, ResendRead(h, k) PROVE TypeOK'
  BY <1>2 DEF ResendRead, Work, Actors, Job, Row
<1>3. ASSUME NEW h \in Handlers, Create(h) PROVE TypeOK'
  <2>1. job[h].key \in Keys
    BY <1>3, Working DEF Create, Actors
  <2>2. QED
    <3>1. CASE log[job[h].key] = NoRow
      BY <1>3, <2>1, <3>1, SMTT(30) DEF Create, Update, Work, Actors, Job, Row
    <3>2. CASE log[job[h].key] # NoRow
      BY <1>3, <2>1, <3>2 DEF Create, Rest, Actors, Job, Idle
    <3>3. QED
      BY <3>1, <3>2
<1>4. ASSUME NEW h \in Handlers, ResendReset(h) PROVE TypeOK'
  <2>1. job[h].key \in Keys /\ job[h].attempts \in Nat
    BY <1>4, Working DEF ResendReset, Actors
  <2>2. QED
    BY <1>4, <2>1 DEF ResendReset, Update, Work, Actors, Job, Row
<1>5. ASSUME NEW w \in Passes, Scan(w) PROVE TypeOK'
  <2>1. {[key |-> k, attempts |-> log[k].attempts] : k \in {x \in Keys : Selected(x)}}
          \in SUBSET [key : Keys, attempts : Nat]
    BY DEF Row
  <2>2. QED
    BY <1>5, <2>1 DEF Scan
<1>6. ASSUME NEW w \in Passes, NEW copy \in batch[w], Take(w, copy) PROVE TypeOK'
  <2>1. copy.key \in Keys /\ copy.attempts \in Nat
    BY <1>6
  <2>2. QED
    BY <1>6, <2>1 DEF Take, Work, Actors, Job
<1>7. ASSUME NEW a \in Actors, Claim(a) PROVE TypeOK'
  <2>1. job[a].key \in Keys /\ job[a].attempts \in Nat
    BY <1>7, Working DEF Claim
  <2>2. Claimed(log[job[a].key]) \in Row
    BY <2>1, RowTypes
  <2>3. QED
    BY <1>7, <2>1, <2>2 DEF Claim, Update, Work, Rest, Job, Idle
<1>8. ASSUME NEW a \in Actors, Transport(a) PROVE TypeOK'
  <2>1. /\ job[a].key \in Keys /\ job[a].attempts \in Nat
        /\ job[a] \in [phase : {"create", "reset", "ready", "sending", "taken", "refused"},
                       key : Keys, attempts : Nat]
    BY <1>8, Working DEF Transport, Job, Idle
  <2>2. \A p \in {"taken", "refused"} : [job[a] EXCEPT !.phase = p] \in Job
    BY <2>1 DEF Job
  <2>3. PICK p \in {"taken", "refused"} :
          job' = [job EXCEPT ![a] = [job[a] EXCEPT !.phase = p]]
    BY <1>8, <2>1 DEF Transport
  <2>4. job' \in [Actors -> Job]
    BY <2>2, <2>3
  <2>5. QED
    BY <1>8, <2>1, <2>4 DEF Transport
<1>9. ASSUME NEW a \in Actors, RecordSent(a) \/ RecordFailed(a) PROVE TypeOK'
  <2>1. job[a].key \in Keys
    BY <1>9, Working DEF RecordSent, RecordFailed
  <2>2. QED
    <3>1. PICK s \in {"SENT", "FAILED", "PENDING"} :
            Update(job[a].key, [log[job[a].key] EXCEPT !.status = s])
      BY <1>9 DEF RecordSent, RecordFailed
    <3>2. [log[job[a].key] EXCEPT !.status = s] \in Row
      BY <2>1 DEF Row
    <3>3. QED
      BY <1>9, <2>1, <3>1, <3>2 DEF RecordSent, RecordFailed, Update, Rest, Job, Idle
<1>10. ASSUME NEW a \in Actors, Crash(a) PROVE TypeOK'
  BY <1>10, MaxAssumption DEF Crash, Rest, Job, Idle
<1>11. ASSUME NEW k \in Keys, Age(k) PROVE TypeOK'
  BY <1>11 DEF Age
<1>12. CASE UNCHANGED vars
  BY <1>12 DEF vars
<1>13. QED
  BY <1>1, <1>2, <1>3, <1>4, <1>5, <1>6, <1>7, <1>8, <1>9, <1>10, <1>11, <1>12
  DEF Next, Handle, Retry, Deliver, Actors

\* Every variable keeps its type, for any mails, actors and bounds.
THEOREM TypeCorrect == Spec => []TypeOK
BY TypeInit, TypeStep, PTL DEF Spec

-----------------------------------------------------------------------------
(* Exclusion of the senders *)

LEMMA SenderInvInit == Init => SenderInv
<1> SUFFICES ASSUME Init, NEW k \in Keys PROVE Cardinality(At(job, Unrecorded, k)) + Free(log[k]) <= 1 + resends[k]
  BY DEF SenderInv
<1>1. At(job, Unrecorded, k) = {}
  BY DEF Init, At, Idle, Unrecorded
<1>2. QED
  BY <1>1, FS_EmptySet, SMTT(30) DEF Init, Free, NoRow

LEMMA SenderInvStep == ASSUME TypeOK, SenderInv, [Next]_vars PROVE SenderInv'
<1> SUFFICES ASSUME NEW k \in Keys
             PROVE  (Cardinality(At(job, Unrecorded, k)) + Free(log[k]) <= 1 + resends[k])'
  BY DEF SenderInv
<1> DEFINE n == Cardinality(At(job, Unrecorded, k))
           m == Cardinality(At(job', Unrecorded, k))
           Kept == m + Free(log'[k]) <= 1 + resends'[k]
<1>0. /\ job \in [Actors -> Job] /\ log \in [Keys -> Row]
      /\ accepted \in [Keys -> Nat] /\ resends \in [Keys -> Nat]
      /\ Free(log[k]) \in {0, 1}
      /\ n + Free(log[k]) <= 1 + resends[k]
  BY DEF TypeOK, SenderInv, Free
<1>a. ASSUME NEW a \in Actors, NEW j, job' = [job EXCEPT ![a] = j]
      PROVE  Counted(n, m, job[a], j, Unrecorded, k)
  BY <1>0, <1>a, OneJob
<1>b. \A x \in Keys : \A row : Update(x, row) =>
        /\ log'[x] = row
        /\ x # k => log'[k] = log[k]
  BY <1>0 DEF Update
<1>c. SUFFICES Kept
  OBVIOUS
<1> HIDE DEF n, m
<1> USE DEF Unrecorded, Counted
<1>1. ASSUME NEW h \in Handlers, NEW x \in Keys, Enqueue(h, x) PROVE Kept
  <2>1. Counted(n, m, job[h], [phase |-> "create", key |-> x, attempts |-> 0], Unrecorded, k)
    BY <1>1, <1>a DEF Enqueue, Work, Actors
  <2>2. n \in Nat /\ m \in Nat /\ m <= n
    BY <2>1
  <2>3. log' = log /\ accepted' = accepted /\ resends' = resends
    BY <1>1 DEF Enqueue
  <2>4. QED
    BY <1>0, <2>2, <2>3
<1>2. ASSUME NEW h \in Handlers, NEW x \in Keys, ResendRead(h, x) PROVE Kept
  <2>1. Counted(n, m, job[h], [phase |-> "reset", key |-> x, attempts |-> log[x].attempts], Unrecorded, k)
    BY <1>2, <1>a DEF ResendRead, Work, Actors
  <2>2. n \in Nat /\ m \in Nat /\ m <= n + 1 /\ (x # k => m <= n)
    BY <2>1
  <2>3. /\ log' = log /\ accepted' = accepted
        /\ resends'[k] = IF x = k THEN resends[k] + 1 ELSE resends[k]
    BY <1>2, <1>0 DEF ResendRead
  <2>4. QED
    BY <1>0, <2>2, <2>3
<1>3. ASSUME NEW h \in Handlers, Create(h) PROVE Kept
  <2>1. job[h].key \in Keys /\ h \in Actors
    BY <1>3, Working DEF Create, Actors
  <2>2. PICK j \in {[phase |-> "ready", key |-> job[h].key, attempts |-> 0], Idle} :
          job' = [job EXCEPT ![h] = j]
    BY <1>3 DEF Create, Work, Rest
  <2>3. Counted(n, m, job[h], j, Unrecorded, k)
    BY <1>a, <2>1, <2>2
  <2>4. n \in Nat /\ m \in Nat /\ m <= n
    BY <2>2, <2>3 DEF Idle
  <2>5. Free(log'[k]) <= Free(log[k])
    <3>1. CASE log[job[h].key] = NoRow
      BY <1>3, <1>b, <2>1, <3>1 DEF Create, Free, NoRow
    <3>2. CASE log[job[h].key] # NoRow
      BY <1>0, <1>3, <3>2 DEF Create, Free
    <3>3. QED
      BY <3>1, <3>2
  <2>6. accepted' = accepted /\ resends' = resends
    BY <1>3 DEF Create
  <2>7. QED
    BY <1>0, <2>4, <2>5, <2>6 DEF Free
<1>4. ASSUME NEW h \in Handlers, ResendReset(h) PROVE Kept
  <2>1. job[h].key \in Keys /\ job[h].phase = "reset" /\ h \in Actors
    BY <1>4, Working DEF ResendReset, Actors
  <2>2. Counted(n, m, job[h], [phase |-> "ready", key |-> job[h].key, attempts |-> job[h].attempts], Unrecorded, k)
    BY <1>4, <1>a, <2>1 DEF ResendReset, Work
  <2>3. n \in Nat /\ m \in Nat /\ m <= n /\ (job[h].key = k => m = n - 1)
    BY <2>1, <2>2
  <2>4. job[h].key # k => log'[k] = log[k]
    BY <1>4, <1>b, <2>1 DEF ResendReset
  <2>5. accepted' = accepted /\ resends' = resends
    BY <1>4 DEF ResendReset
  <2>6. QED
    BY <1>0, <2>3, <2>4, <2>5 DEF Free
<1>5. ASSUME NEW w \in Passes, Scan(w) PROVE Kept
  BY <1>5, <1>0 DEF Scan, n, m
<1>6. ASSUME NEW w \in Passes, NEW copy \in batch[w], Take(w, copy) PROVE Kept
  <2>1. Counted(n, m, job[w], [phase |-> "ready", key |-> copy.key, attempts |-> copy.attempts], Unrecorded, k)
    BY <1>6, <1>a DEF Take, Work, Actors
  <2>2. n \in Nat /\ m \in Nat /\ m <= n
    BY <2>1
  <2>3. log' = log /\ accepted' = accepted /\ resends' = resends
    BY <1>6 DEF Take
  <2>4. QED
    BY <1>0, <2>2, <2>3
<1>7. ASSUME NEW a \in Actors, Claim(a) PROVE Kept
  <2>1. job[a].key \in Keys /\ job[a].phase = "ready"
    BY <1>7, Working DEF Claim
  <2>2. accepted' = accepted /\ resends' = resends
    BY <1>7 DEF Claim
  <2>3. CASE Claimable(job[a].key)
    <3>1. /\ job' = [job EXCEPT ![a] = [phase |-> "sending", key |-> job[a].key, attempts |-> job[a].attempts + 1]]
          /\ Update(job[a].key, Claimed(log[job[a].key]))
      BY <1>7, <2>3 DEF Claim, Work
    <3>2. Counted(n, m, job[a], [phase |-> "sending", key |-> job[a].key, attempts |-> job[a].attempts + 1], Unrecorded, k)
      BY <1>a, <3>1
    <3>3. n \in Nat /\ m \in Nat /\ m <= n + 1 /\ (job[a].key # k => m <= n)
      BY <3>2
    <3>4. job[a].key = k => Free(log[k]) = 1 /\ Free(log'[k]) = 0
      BY <1>b, <2>1, <2>3, <3>1 DEF Claimable, Claimed, Free
    <3>5. job[a].key # k => log'[k] = log[k]
      BY <1>b, <2>1, <3>1
    <3>6. QED
      BY <1>0, <2>2, <3>3, <3>4, <3>5
  <2>4. CASE ~Claimable(job[a].key)
    <3>1. job' = [job EXCEPT ![a] = Idle] /\ log' = log
      BY <1>7, <2>4 DEF Claim, Rest
    <3>2. Counted(n, m, job[a], Idle, Unrecorded, k)
      BY <1>a, <3>1
    <3>3. n \in Nat /\ m \in Nat /\ m <= n
      BY <3>2 DEF Idle
    <3>4. QED
      BY <1>0, <2>2, <3>1, <3>3
  <2>5. QED
    BY <2>3, <2>4
<1>8. ASSUME NEW a \in Actors, Transport(a) PROVE Kept
  <2>1. job[a].key \in Keys /\ job[a].phase = "sending"
    BY <1>8, Working DEF Transport
  <2>2. PICK p \in {"taken", "refused"} : job' = [job EXCEPT ![a].phase = p]
    BY <1>8 DEF Transport
  <2>3. PICK j : j = [job[a] EXCEPT !.phase = p] /\ job' = [job EXCEPT ![a] = j]
    BY <2>2
  <2>4. Counted(n, m, job[a], j, Unrecorded, k)
    BY <1>a, <2>3
  <2>5. j.key = job[a].key
    BY <1>0, <2>1, <2>3 DEF Job, Idle
  <2>6. n \in Nat /\ m \in Nat /\ m <= n
    BY <2>1, <2>4, <2>5
  <2>7. log' = log /\ resends' = resends
    BY <1>8 DEF Transport
  <2>8. QED
    BY <1>0, <2>6, <2>7
<1>9. ASSUME NEW a \in Actors, RecordSent(a) PROVE Kept
  <2>1. job[a].key \in Keys
    BY <1>9, Working DEF RecordSent
  <2>2. Counted(n, m, job[a], Idle, Unrecorded, k)
    BY <1>9, <1>a DEF RecordSent, Rest
  <2>3. n \in Nat /\ m \in Nat /\ m <= n
    BY <2>2 DEF Idle
  <2>4. job[a].key = k => Free(log'[k]) = 0
    BY <1>9, <1>b, <1>0, <2>1 DEF RecordSent, Free, Row
  <2>5. job[a].key # k => log'[k] = log[k]
    BY <1>9, <1>b, <2>1 DEF RecordSent
  <2>6. accepted' = accepted /\ resends' = resends
    BY <1>9 DEF RecordSent
  <2>7. QED
    BY <1>0, <2>3, <2>4, <2>5, <2>6
<1>10. ASSUME NEW a \in Actors, RecordFailed(a) PROVE Kept
  <2>1. job[a].key \in Keys /\ job[a].phase = "refused"
    BY <1>10, Working DEF RecordFailed
  <2>2. Counted(n, m, job[a], Idle, Unrecorded, k)
    BY <1>10, <1>a DEF RecordFailed, Rest
  <2>3. n \in Nat /\ m \in Nat /\ m <= n /\ (job[a].key = k => m = n - 1)
    BY <2>1, <2>2 DEF Idle
  <2>4. job[a].key # k => log'[k] = log[k]
    BY <1>10, <1>b, <2>1 DEF RecordFailed
  <2>5. accepted' = accepted /\ resends' = resends
    BY <1>10 DEF RecordFailed
  <2>6. QED
    BY <1>0, <2>3, <2>4, <2>5 DEF Free
<1>11. ASSUME NEW a \in Actors, Crash(a) PROVE Kept
  <2>1. Counted(n, m, job[a], Idle, Unrecorded, k)
    BY <1>11, <1>a DEF Crash, Rest
  <2>2. n \in Nat /\ m \in Nat /\ m <= n
    BY <2>1 DEF Idle
  <2>3. log' = log /\ accepted' = accepted /\ resends' = resends
    BY <1>11 DEF Crash
  <2>4. QED
    BY <1>0, <2>2, <2>3
<1>12. ASSUME NEW x \in Keys, Age(x) PROVE Kept
  BY <1>12, <1>0 DEF Age, n, m
<1>13. CASE UNCHANGED vars
  BY <1>13, <1>0 DEF vars, n, m
<1>14. QED
  BY <1>1, <1>2, <1>3, <1>4, <1>5, <1>6, <1>7, <1>8, <1>9, <1>10, <1>11, <1>12, <1>13
  DEF Next, Handle, Retry, Deliver, Actors

LEMMA SendersAreFew == ASSUME TypeOK, SenderInv PROVE OneSender
<1> SUFFICES ASSUME NEW k \in Keys PROVE Cardinality(Senders(k)) <= 1 + resends[k]
  BY DEF OneSender
<1>1. IsFiniteSet(At(job, Unrecorded, k)) /\ Senders(k) \subseteq At(job, Unrecorded, k)
  BY ActorAssumption, FS_Union, FS_Subset DEF Actors, At, Senders, Sending, Unrecorded
<1>2. /\ Cardinality(Senders(k)) <= Cardinality(At(job, Unrecorded, k))
      /\ Cardinality(Senders(k)) \in Nat /\ Cardinality(At(job, Unrecorded, k)) \in Nat
  BY <1>1, FS_Subset, FS_CardinalityType
<1>3. QED
  BY <1>2 DEF SenderInv, Free, TypeOK

\* For any mails, requests, overlapping passes, deaths and lost answers: at most
\* one actor delivers a mail, and one more per resend of it.
THEOREM SendersExclude == Spec => []OneSender
<1>1. Init => TypeOK /\ SenderInv
  BY TypeInit, SenderInvInit
<1>2. TypeOK /\ SenderInv /\ [Next]_vars => (TypeOK /\ SenderInv)'
  BY TypeStep, SenderInvStep
<1>3. TypeOK /\ SenderInv => OneSender
  BY SendersAreFew
<1>4. QED
  BY <1>1, <1>2, <1>3, PTL DEF Spec

-----------------------------------------------------------------------------
(* At most one delivery per licence *)

LEMMA SentInvInit == Init => SentInv
<1> SUFFICES ASSUME Init, NEW k \in Keys PROVE Cardinality(At(job, Unsent, k)) + accepted[k] + Free(log[k]) <= 1 + resends[k]
  BY DEF SentInv
<1>1. At(job, Unsent, k) = {}
  BY DEF Init, At, Idle, Unsent
<1>2. /\ Cardinality(At(job, Unsent, k)) = 0 /\ accepted[k] = 0
      /\ Free(log[k]) = 1 /\ resends[k] = 0
  BY <1>1, FS_EmptySet DEF Init, Free, NoRow
<1>3. QED
  BY <1>2

LEMMA SentInvStep == ASSUME ~LostAnswers, TypeOK, SentInv, [Next]_vars PROVE SentInv'
<1> SUFFICES ASSUME NEW k \in Keys
             PROVE  (Cardinality(At(job, Unsent, k)) + accepted[k] + Free(log[k]) <= 1 + resends[k])'
  BY DEF SentInv
<1> DEFINE n == Cardinality(At(job, Unsent, k))
           m == Cardinality(At(job', Unsent, k))
           Kept == m + accepted'[k] + Free(log'[k]) <= 1 + resends'[k]
<1>0. /\ job \in [Actors -> Job] /\ log \in [Keys -> Row]
      /\ accepted \in [Keys -> Nat] /\ resends \in [Keys -> Nat]
      /\ Free(log[k]) \in {0, 1}
      /\ n + accepted[k] + Free(log[k]) <= 1 + resends[k]
  BY DEF TypeOK, SentInv, Free
<1>a. ASSUME NEW a \in Actors, NEW j, job' = [job EXCEPT ![a] = j]
      PROVE  Counted(n, m, job[a], j, Unsent, k)
  BY <1>0, <1>a, OneJob
<1>b. \A x \in Keys : \A row : Update(x, row) =>
        /\ log'[x] = row
        /\ x # k => log'[k] = log[k]
  BY <1>0 DEF Update
<1>c. SUFFICES Kept
  OBVIOUS
<1> HIDE DEF n, m
<1> USE DEF Unsent, Counted
<1>1. ASSUME NEW h \in Handlers, NEW x \in Keys, Enqueue(h, x) PROVE Kept
  <2>1. Counted(n, m, job[h], [phase |-> "create", key |-> x, attempts |-> 0], Unsent, k)
    BY <1>1, <1>a DEF Enqueue, Work, Actors
  <2>2. n \in Nat /\ m \in Nat /\ m <= n
    BY <2>1
  <2>3. log' = log /\ accepted' = accepted /\ resends' = resends
    BY <1>1 DEF Enqueue
  <2>4. QED
    BY <1>0, <2>2, <2>3
<1>2. ASSUME NEW h \in Handlers, NEW x \in Keys, ResendRead(h, x) PROVE Kept
  <2>1. Counted(n, m, job[h], [phase |-> "reset", key |-> x, attempts |-> log[x].attempts], Unsent, k)
    BY <1>2, <1>a DEF ResendRead, Work, Actors
  <2>2. n \in Nat /\ m \in Nat /\ m <= n + 1 /\ (x # k => m <= n)
    BY <2>1
  <2>3. /\ log' = log /\ accepted' = accepted
        /\ resends'[k] = IF x = k THEN resends[k] + 1 ELSE resends[k]
    BY <1>2, <1>0 DEF ResendRead
  <2>4. QED
    BY <1>0, <2>2, <2>3
<1>3. ASSUME NEW h \in Handlers, Create(h) PROVE Kept
  <2>1. job[h].key \in Keys /\ h \in Actors
    BY <1>3, Working DEF Create, Actors
  <2>2. PICK j \in {[phase |-> "ready", key |-> job[h].key, attempts |-> 0], Idle} :
          job' = [job EXCEPT ![h] = j]
    BY <1>3 DEF Create, Work, Rest
  <2>3. Counted(n, m, job[h], j, Unsent, k)
    BY <1>a, <2>1, <2>2
  <2>4. n \in Nat /\ m \in Nat /\ m <= n
    BY <2>2, <2>3 DEF Idle
  <2>5. Free(log'[k]) <= Free(log[k])
    <3>1. CASE log[job[h].key] = NoRow
      BY <1>3, <1>b, <2>1, <3>1 DEF Create, Free, NoRow
    <3>2. CASE log[job[h].key] # NoRow
      BY <1>0, <1>3, <3>2 DEF Create, Free
    <3>3. QED
      BY <3>1, <3>2
  <2>6. accepted' = accepted /\ resends' = resends
    BY <1>3 DEF Create
  <2>7. QED
    BY <1>0, <2>4, <2>5, <2>6 DEF Free
<1>4. ASSUME NEW h \in Handlers, ResendReset(h) PROVE Kept
  <2>1. job[h].key \in Keys /\ job[h].phase = "reset" /\ h \in Actors
    BY <1>4, Working DEF ResendReset, Actors
  <2>2. Counted(n, m, job[h], [phase |-> "ready", key |-> job[h].key, attempts |-> job[h].attempts], Unsent, k)
    BY <1>4, <1>a, <2>1 DEF ResendReset, Work
  <2>3. n \in Nat /\ m \in Nat /\ m <= n /\ (job[h].key = k => m = n - 1)
    BY <2>1, <2>2
  <2>4. job[h].key # k => log'[k] = log[k]
    BY <1>4, <1>b, <2>1 DEF ResendReset
  <2>5. accepted' = accepted /\ resends' = resends
    BY <1>4 DEF ResendReset
  <2>6. QED
    BY <1>0, <2>3, <2>4, <2>5 DEF Free
<1>5. ASSUME NEW w \in Passes, Scan(w) PROVE Kept
  BY <1>5, <1>0 DEF Scan, n, m
<1>6. ASSUME NEW w \in Passes, NEW copy \in batch[w], Take(w, copy) PROVE Kept
  <2>1. Counted(n, m, job[w], [phase |-> "ready", key |-> copy.key, attempts |-> copy.attempts], Unsent, k)
    BY <1>6, <1>a DEF Take, Work, Actors
  <2>2. n \in Nat /\ m \in Nat /\ m <= n
    BY <2>1
  <2>3. log' = log /\ accepted' = accepted /\ resends' = resends
    BY <1>6 DEF Take
  <2>4. QED
    BY <1>0, <2>2, <2>3
<1>7. ASSUME NEW a \in Actors, Claim(a) PROVE Kept
  <2>1. job[a].key \in Keys /\ job[a].phase = "ready"
    BY <1>7, Working DEF Claim
  <2>2. accepted' = accepted /\ resends' = resends
    BY <1>7 DEF Claim
  <2>3. CASE Claimable(job[a].key)
    <3>1. /\ job' = [job EXCEPT ![a] = [phase |-> "sending", key |-> job[a].key, attempts |-> job[a].attempts + 1]]
          /\ Update(job[a].key, Claimed(log[job[a].key]))
      BY <1>7, <2>3 DEF Claim, Work
    <3>2. Counted(n, m, job[a], [phase |-> "sending", key |-> job[a].key, attempts |-> job[a].attempts + 1], Unsent, k)
      BY <1>a, <3>1
    <3>3. n \in Nat /\ m \in Nat /\ m <= n + 1 /\ (job[a].key # k => m <= n)
      BY <3>2
    <3>4. job[a].key = k => Free(log[k]) = 1 /\ Free(log'[k]) = 0
      BY <1>b, <2>1, <2>3, <3>1 DEF Claimable, Claimed, Free
    <3>5. job[a].key # k => log'[k] = log[k]
      BY <1>b, <2>1, <3>1
    <3>6. QED
      BY <1>0, <2>2, <3>3, <3>4, <3>5
  <2>4. CASE ~Claimable(job[a].key)
    <3>1. job' = [job EXCEPT ![a] = Idle] /\ log' = log
      BY <1>7, <2>4 DEF Claim, Rest
    <3>2. Counted(n, m, job[a], Idle, Unsent, k)
      BY <1>a, <3>1
    <3>3. n \in Nat /\ m \in Nat /\ m <= n
      BY <3>2 DEF Idle
    <3>4. QED
      BY <1>0, <2>2, <3>1, <3>3
  <2>5. QED
    BY <2>3, <2>4
<1>8. ASSUME NEW a \in Actors, Transport(a) PROVE Kept
  <2>1. job[a].key \in Keys /\ job[a].phase = "sending"
    BY <1>8, Working DEF Transport
  <2>2. PICK took, says \in BOOLEAN :
          /\ took = says
          /\ accepted' = [accepted EXCEPT ![job[a].key] = IF took THEN @ + 1 ELSE @]
          /\ job' = [job EXCEPT ![a].phase = IF says THEN "taken" ELSE "refused"]
    BY <1>8 DEF Transport
  <2>3. PICK j : /\ j = [job[a] EXCEPT !.phase = IF says THEN "taken" ELSE "refused"]
                 /\ job' = [job EXCEPT ![a] = j]
    BY <2>2
  <2>4. j.phase = (IF says THEN "taken" ELSE "refused") /\ j.key = job[a].key
    BY <1>0, <2>1, <2>3 DEF Job, Idle
  <2>5. Counted(n, m, job[a], j, Unsent, k)
    BY <1>a, <2>3
  <2>6. /\ n \in Nat /\ m \in Nat /\ m <= n
        /\ job[a].key = k /\ says => m = n - 1
    BY <2>1, <2>4, <2>5
  <2>7. accepted'[k] = IF job[a].key = k /\ says THEN accepted[k] + 1 ELSE accepted[k]
    BY <1>0, <2>2
  <2>8. log' = log /\ resends' = resends
    BY <1>8 DEF Transport
  <2>9. QED
    BY <1>0, <2>6, <2>7, <2>8
<1>9. ASSUME NEW a \in Actors, RecordSent(a) PROVE Kept
  <2>1. job[a].key \in Keys
    BY <1>9, Working DEF RecordSent
  <2>2. Counted(n, m, job[a], Idle, Unsent, k)
    BY <1>9, <1>a DEF RecordSent, Rest
  <2>3. n \in Nat /\ m \in Nat /\ m <= n
    BY <2>2 DEF Idle
  <2>4. job[a].key = k => Free(log'[k]) = 0
    BY <1>9, <1>b, <1>0, <2>1 DEF RecordSent, Free, Row
  <2>5. job[a].key # k => log'[k] = log[k]
    BY <1>9, <1>b, <2>1 DEF RecordSent
  <2>6. accepted' = accepted /\ resends' = resends
    BY <1>9 DEF RecordSent
  <2>7. QED
    BY <1>0, <2>3, <2>4, <2>5, <2>6
<1>10. ASSUME NEW a \in Actors, RecordFailed(a) PROVE Kept
  <2>1. job[a].key \in Keys /\ job[a].phase = "refused"
    BY <1>10, Working DEF RecordFailed
  <2>2. Counted(n, m, job[a], Idle, Unsent, k)
    BY <1>10, <1>a DEF RecordFailed, Rest
  <2>3. n \in Nat /\ m \in Nat /\ m <= n /\ (job[a].key = k => m = n - 1)
    BY <2>1, <2>2 DEF Idle
  <2>4. job[a].key # k => log'[k] = log[k]
    BY <1>10, <1>b, <2>1 DEF RecordFailed
  <2>5. accepted' = accepted /\ resends' = resends
    BY <1>10 DEF RecordFailed
  <2>6. QED
    BY <1>0, <2>3, <2>4, <2>5 DEF Free
<1>11. ASSUME NEW a \in Actors, Crash(a) PROVE Kept
  <2>1. Counted(n, m, job[a], Idle, Unsent, k)
    BY <1>11, <1>a DEF Crash, Rest
  <2>2. n \in Nat /\ m \in Nat /\ m <= n
    BY <2>1 DEF Idle
  <2>3. log' = log /\ accepted' = accepted /\ resends' = resends
    BY <1>11 DEF Crash
  <2>4. QED
    BY <1>0, <2>2, <2>3
<1>12. ASSUME NEW x \in Keys, Age(x) PROVE Kept
  BY <1>12, <1>0 DEF Age, n, m
<1>13. CASE UNCHANGED vars
  BY <1>13, <1>0 DEF vars, n, m
<1>14. QED
  BY <1>1, <1>2, <1>3, <1>4, <1>5, <1>6, <1>7, <1>8, <1>9, <1>10, <1>11, <1>12, <1>13
  DEF Next, Handle, Retry, Deliver, Actors

LEMMA SentIsLicensed == ASSUME TypeOK, SentInv PROVE SentAtMostOnce
<1> SUFFICES ASSUME NEW k \in Keys PROVE accepted[k] <= 1 + resends[k]
  BY DEF SentAtMostOnce
<1>1. IsFiniteSet(At(job, Unsent, k))
  BY ActorAssumption, FS_Union, FS_Subset DEF Actors, At
<1>2. Cardinality(At(job, Unsent, k)) \in Nat
  BY <1>1, FS_CardinalityType
<1>3. QED
  BY <1>2 DEF SentInv, Free, TypeOK

\* For any mails, requests, overlapping passes and deaths: where the transport
\* does not lose its answers, a mail is taken once, and once more per resend.
THEOREM MailIsSentOnce == ASSUME ~LostAnswers PROVE Spec => []SentAtMostOnce
<1>1. Init => TypeOK /\ SentInv
  BY TypeInit, SentInvInit
<1>2. TypeOK /\ SentInv /\ [Next]_vars => (TypeOK /\ SentInv)'
  BY TypeStep, SentInvStep
<1>3. TypeOK /\ SentInv => SentAtMostOnce
  BY SentIsLicensed
<1>4. QED
  BY <1>1, <1>2, <1>3, PTL DEF Spec
=============================================================================
