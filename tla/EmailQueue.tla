------------------------------- MODULE EmailQueue -------------------------------
(***************************************************************************)
(* The e-mail queue of services/email.service.js: the EmailLog table, the  *)
(* handlers that put a mail into it and deliver it at once, the Super      *)
(* Admin's resend, and the passes of cron/email.cron.js that retry.        *)
(*                                                                         *)
(* A row is named by its idempotency key, which is unique.  Whoever        *)
(* delivers a row works from the copy it read: claim, transport and record *)
(* are separate statements.  A pass works through the rows it selected one *)
(* by one; a slow pass overlaps the next, so Passes may have several.      *)
(*                                                                         *)
(* The backoff is a condition on the age of a row: due holds the rows that *)
(* nobody has updated for its length.  What a mail says is left out, but   *)
(* for its content being removed once it is SENT, which resend looks at.   *)
(***************************************************************************)
EXTENDS Integers, FiniteSets

CONSTANTS
  Keys,         \* mails, each with its idempotency key
  Handlers,     \* requests that enqueue or resend
  Passes,       \* passes of the queue worker
  MaxAttempts,  \* the maxAttempts of each row: 3, or 5 for credentials
  MaxResends,   \* bound on the Super Admin's resends of a mail
  MaxDeaths,    \* bound on how often a process dies
  LostAnswers,  \* the transport may accept a mail and report an error
  Prompt        \* a row read is claimed, or dropped, within the backoff

ASSUME MaxAssumption   == MaxAttempts \in [Keys -> Nat \ {0}] /\ MaxResends \in Nat
                          /\ MaxDeaths \in Nat
ASSUME ActorAssumption == IsFiniteSet(Handlers) /\ IsFiniteSet(Passes)

VARIABLES
  log,       \* the EmailLog rows
  due,       \* rows older than the backoff
  job,       \* what an actor is delivering
  batch,     \* the copies of rows a pass has still to go through
  accepted,  \* how often the transport took a mail
  resends,   \* how often the Super Admin asked to send it again
  deaths,    \* how often a process has died
  lost       \* mails whose sender died between the claim and its record

vars == <<log, due, job, batch, accepted, resends, deaths, lost>>

Actors == Handlers \cup Passes

\* processEmailQueue selects by this number, not by the row's maxAttempts.
ScanLimit == 3

-----------------------------------------------------------------------------
(* Rows *)

Row == [status : {"NONE", "PENDING", "SENDING", "SENT", "FAILED"}, attempts : Nat]

NoRow == [status |-> "NONE", attempts |-> 0]

Idle == [phase |-> "idle"]

\* attempts: of the copy, and of the copy plus one from the claim on
Job == {Idle} \cup
       [phase : {"create", "reset", "ready", "sending", "taken", "refused"},
        key : Keys, attempts : Nat]

TypeOK ==
  /\ log \in [Keys -> Row]
  /\ due \subseteq Keys
  /\ job \in [Actors -> Job]
  /\ batch \in [Passes -> SUBSET [key : Keys, attempts : Nat]]
  /\ accepted \in [Keys -> Nat]
  /\ resends \in [Keys -> Nat]
  /\ deaths \in 0 .. MaxDeaths
  /\ lost \subseteq Keys

Init ==
  /\ log = [k \in Keys |-> NoRow]
  /\ due = {}
  /\ job = [a \in Actors |-> Idle]
  /\ batch = [w \in Passes |-> {}]
  /\ accepted = [k \in Keys |-> 0]
  /\ resends = [k \in Keys |-> 0]
  /\ deaths = 0
  /\ lost = {}

-----------------------------------------------------------------------------
(* Helpers *)

Work(a, phase, k, n) ==
  job' = [job EXCEPT ![a] = [phase |-> phase, key |-> k, attempts |-> n]]

Rest(a) == job' = [job EXCEPT ![a] = Idle]

\* An update of a row touches its updatedAt.
Update(k, row) == log' = [log EXCEPT ![k] = row] /\ due' = due \ {k}

Sending(a, k) == job[a].phase \in {"sending", "taken", "refused"} /\ job[a].key = k

Senders(k) == {a \in Actors : Sending(a, k)}

\* Mutants: a row that is being sent, or has been, is claimed too.
Claimable_Sending(k) == log[k].status \in {"PENDING", "FAILED", "SENDING"}
Claimable_Always(k)  == log[k].status # "NONE"

Claimable(k) == log[k].status \in {"PENDING", "FAILED"}

\* Mutant: one attempt is missing.
Selected_Less(k) == k \in due /\ Claimable(k) /\ log[k].attempts < ScanLimit - 1

\* The rows processEmailQueue selects
Selected(k) == k \in due /\ Claimable(k) /\ log[k].attempts < ScanLimit

-----------------------------------------------------------------------------
(* enqueueEmail and resendEmailLog *)

\* A key that is found is answered with its row, so only new ones go on.
Enqueue(h, k) ==
  /\ job[h] = Idle
  /\ log[k] = NoRow
  /\ Work(h, "create", k, 0)
  /\ UNCHANGED <<log, due, batch, accepted, resends, deaths, lost>>

\* The unique key refuses the second of two inserts.
Create(h) ==
  /\ job[h].phase = "create"
  /\ LET k == job[h].key IN
       IF log[k] = NoRow
       THEN /\ Update(k, [status |-> "PENDING", attempts |-> 0])
            /\ Work(h, "ready", k, 0)
       ELSE Rest(h) /\ UNCHANGED <<log, due>>
  /\ UNCHANGED <<batch, accepted, resends, deaths, lost>>

\* Only what is SENT, and so has lost its content, is refused.
ResendRead(h, k) ==
  /\ job[h] = Idle
  /\ log[k].status \notin {"NONE", "SENT"}
  /\ resends[k] < MaxResends
  /\ resends' = [resends EXCEPT ![k] = @ + 1]
  /\ Work(h, "reset", k, log[k].attempts)
  /\ UNCHANGED <<log, due, batch, accepted, deaths, lost>>

\* The row is made PENDING whatever became of it.
ResendReset(h) ==
  /\ job[h].phase = "reset"
  /\ LET k == job[h].key IN
       /\ Update(k, [log[k] EXCEPT !.status = "PENDING"])
       /\ Work(h, "ready", k, job[h].attempts)
  /\ UNCHANGED <<batch, accepted, resends, deaths, lost>>

-----------------------------------------------------------------------------
(* processEmailQueue *)

Scan(w) ==
  /\ job[w] = Idle
  /\ batch[w] = {}
  /\ batch' = [batch EXCEPT ![w] =
       {[key |-> k, attempts |-> log[k].attempts] : k \in {x \in Keys : Selected(x)}}]
  /\ UNCHANGED <<log, due, job, accepted, resends, deaths, lost>>

Take(w, copy) ==
  /\ job[w] = Idle
  /\ copy \in batch[w]
  /\ batch' = [batch EXCEPT ![w] = @ \ {copy}]
  /\ Work(w, "ready", copy.key, copy.attempts)
  /\ UNCHANGED <<log, due, accepted, resends, deaths, lost>>

-----------------------------------------------------------------------------
(* deliverQueuedRow *)

\* Mutant: the attempts are counted down.
Claimed_Down(row) == [status |-> "SENDING", attempts |-> row.attempts - 1]

\* The conditional update that claims a row.
Claimed(row) == [status |-> "SENDING", attempts |-> row.attempts + 1]

Claim(a) ==
  /\ job[a].phase = "ready"
  /\ LET k == job[a].key IN
       IF Claimable(k)
       THEN /\ Update(k, Claimed(log[k]))
            /\ Work(a, "sending", k, job[a].attempts + 1)
       ELSE Rest(a) /\ UNCHANGED <<log, due>>
  /\ UNCHANGED <<batch, accepted, resends, deaths, lost>>

\* External: the transport takes the mail or refuses it.  Where LostAnswers, it
\* may take it and fail to say so; a failure of the statement that records SENT
\* is handled the same way.
Transport(a) ==
  /\ job[a].phase = "sending"
  /\ \E took, says \in BOOLEAN :
       /\ says => took
       /\ took /\ ~says => LostAnswers
       /\ accepted' = [accepted EXCEPT ![job[a].key] = IF took THEN @ + 1 ELSE @]
       /\ job' = [job EXCEPT ![a].phase = IF says THEN "taken" ELSE "refused"]
  /\ UNCHANGED <<log, due, batch, resends, deaths, lost>>

RecordSent(a) ==
  /\ job[a].phase = "taken"
  /\ Update(job[a].key, [log[job[a].key] EXCEPT !.status = "SENT"])
  /\ Rest(a)
  /\ UNCHANGED <<batch, accepted, resends, deaths, lost>>

RecordFailed(a) ==
  /\ job[a].phase = "refused"
  /\ Update(job[a].key,
       [log[job[a].key] EXCEPT
          !.status = IF job[a].attempts >= MaxAttempts[job[a].key]
                     THEN "FAILED" ELSE "PENDING"])
  /\ Rest(a)
  /\ UNCHANGED <<batch, accepted, resends, deaths, lost>>

\* The process of an actor dies; a statement that fails outside deliver's try,
\* or in its catch, leaves the row the same way.
Crash(a) ==
  /\ deaths < MaxDeaths
  /\ deaths' = deaths + 1
  /\ job[a] # Idle
  /\ Rest(a)
  /\ lost' = lost \cup {k \in Keys : Sending(a, k)}
  /\ batch' = IF a \in Passes THEN [batch EXCEPT ![a] = {}] ELSE batch
  /\ UNCHANGED <<log, due, accepted, resends>>

\* The backoff of a row has passed.
Held(k) ==
  \/ \E a \in Actors : job[a].phase \in {"reset", "ready"} /\ job[a].key = k
  \/ \E w \in Passes : \E copy \in batch[w] : copy.key = k

Age(k) ==
  /\ log[k].status # "NONE"
  /\ k \notin due
  /\ Prompt => ~Held(k)
  /\ due' = due \cup {k}
  /\ UNCHANGED <<log, job, batch, accepted, resends, deaths, lost>>

-----------------------------------------------------------------------------

Deliver(a) == Claim(a) \/ Transport(a) \/ RecordSent(a) \/ RecordFailed(a)

Handle(h) ==
  \/ \E k \in Keys : Enqueue(h, k) \/ ResendRead(h, k)
  \/ Create(h)
  \/ ResendReset(h)

Retry(w) == Scan(w) \/ \E copy \in batch[w] : Take(w, copy)

Next ==
  \/ \E h \in Handlers : Handle(h)
  \/ \E w \in Passes : Retry(w)
  \/ \E a \in Actors : Deliver(a) \/ Crash(a)
  \/ \E k \in Keys : Age(k)

Spec == Init /\ [][Next]_vars

\* The scheduler starts the pass every five minutes and a pass goes through its
\* rows; what has been begun is finished unless its process dies; time passes.
QueueFairness ==
  /\ \A w \in Passes : WF_vars(Retry(w))
  /\ \A a \in Actors : WF_vars(Deliver(a))
  /\ \A h \in Handlers : WF_vars(Create(h) \/ ResendReset(h))
  /\ \A k \in Keys : WF_vars(Age(k))

LiveSpec == Spec /\ QueueFairness

-----------------------------------------------------------------------------
(* Properties *)

\* Between a claim and its record nobody else delivers the row, but whom the
\* Super Admin let in by a resend: handlers and passes, overlapping ones
\* included, exclude one another (deliverQueuedRow).
OneSender == \A k \in Keys : Cardinality(Senders(k)) <= 1 + resends[k]

\* However often a mail is enqueued, retried or found by two passes, and
\* whatever dies, it is taken once, and once more per resend at most
\* (enqueueEmail).  Where the transport does not lose its answers.
SentAtMostOnce == \A k \in Keys : accepted[k] <= 1 + resends[k]

\* What becomes of a queued mail: it is sent, or was attempted as often as the
\* worker means to, or the process that was sending it died.
Ended(k) ==
  /\ Senders(k) = {}
  /\ log[k].status = "SENT" \/ log[k].attempts >= ScanLimit \/ k \in lost

\* Every queued mail comes to an end, also when processes die between any two
\* other statements (email.cron.js: "every pass makes another attempt").
RetriesEnd == \A k \in Keys : log[k].status # "NONE" ~> Ended(k)
=============================================================================
