------------------------------ MODULE Subscription ------------------------------
(***************************************************************************)
(* A restaurant's subscription: the purchase through the payment gateway   *)
(* (controllers/subscription.controller.js, services/razorpay.service.js), *)
(* the nightly expiry pass (cron/subscription.cron.js) and the operations  *)
(* of the Super Admin (services/super-admin.service.js).                   *)
(*                                                                         *)
(* A purchase is a SubscriptionPayment row.  Its activation is asked for   *)
(* by the client's callback (verify) and by every webhook the gateway      *)
(* delivers for it: the gateway reports failed attempts and the capture in *)
(* any order, each as often as it likes, and several server processes      *)
(* answer.  A transaction is one step, at its commit, preceded by a step   *)
(* for what it has read by then, which the commit may find stale: nothing  *)
(* locks the subscription row.                                             *)
(*                                                                         *)
(* Dates are days.  The plan a subscription is for, its limits and price   *)
(* go with the status and date of the row and are left out, and so are the *)
(* notifications.                                                          *)
(***************************************************************************)
EXTENDS Integers, FiniteSets

CONSTANTS
  Restaurants,
  Payments,         \* ids of SubscriptionPayment rows
  Sessions,         \* requests being answered
  Crons,            \* server processes running the nightly pass
  Cycle,            \* length of the billing cycle
  LastDay,          \* bound on the days
  OneOpenPurchase,  \* no second checkout while one waits for its payment
  LateFailures,     \* failures are also recorded after the capture, or the activation
  MaxAdmin          \* bound on the Super Admin's operations

ASSUME CycleAssumption == Cycle \in Nat \ {0}
ASSUME BoundAssumption == LastDay \in Nat /\ MaxAdmin \in Nat
ASSUME FlagAssumption  == OneOpenPurchase \in BOOLEAN /\ LateFailures \in BOOLEAN

VARIABLES
  now,
  sub,      \* the Subscription row of a restaurant
  pay,      \* the SubscriptionPayment rows
  gateway,  \* what the gateway has to report of a payment
  req,      \* the request a session is answering
  scan,     \* the restaurants a running expiry pass has still to go through
  granted,  \* how often a payment has been turned into time
  history,  \* SubscriptionHistory rows: to ACTIVE, and to EXPIRED
  admin     \* Super Admin operations begun

vars == <<now, sub, pay, gateway, req, scan, granted, history, admin>>

-----------------------------------------------------------------------------
(* Rows *)

Usable == {"ACTIVE", "TRIAL"}

SubRow == [status : Usable \cup {"EXPIRED", "CANCELLED", "SUSPENDED"}, expiry : Nat]

NoPayment == [status |-> "NONE"]

PayRow == [status : {"CREATED", "PAID", "FAILED"}, rest : Restaurants] \cup {NoPayment}

Idle == [phase |-> "idle"]

\* expiry: of the subscription as read, or as the Super Admin's will have it
Request ==
       {Idle}
  \cup [phase : {"checked", "delivered", "claim"}, pay : Payments, expiry : Nat]
  \cup [phase : {"extend", "stop"}, rest : Restaurants, expiry : Nat]

TypeOK ==
  /\ now \in Nat
  /\ sub \in [Restaurants -> SubRow]
  /\ pay \in [Payments -> PayRow]
  /\ gateway \in [Payments -> SUBSET {"failed", "captured"}]
  /\ req \in [Sessions -> Request]
  /\ scan \in [Crons -> SUBSET Restaurants]
  /\ granted \in [Payments -> Nat]
  /\ history \in [Restaurants -> [active : Nat, expired : Nat]]
  /\ admin \in Nat

Init ==
  /\ now = 0
  /\ sub \in [Restaurants -> [status : Usable, expiry : 1 .. Cycle]]
  /\ pay = [p \in Payments |-> NoPayment]
  /\ gateway = [p \in Payments |-> {}]
  /\ req = [s \in Sessions |-> Idle]
  /\ scan = [c \in Crons |-> {}]
  /\ granted = [p \in Payments |-> 0]
  /\ history = [r \in Restaurants |-> [active |-> 0, expired |-> 0]]
  /\ admin = 0

-----------------------------------------------------------------------------
(* Helpers *)

\* Mutant: the remaining days are discarded.
Base_Today(expiry) == now

\* computeBaseExpiry of a subscription that has been read
Base(expiry) == IF expiry > now THEN expiry ELSE now

\* Mutant: the activation does not check that the payment is not paid yet.
Claimable_Always(p) == TRUE

\* Mutant: an earlier failed attempt makes the payment unclaimable.
Claimable_Created(p) == pay[p].status = "CREATED"

\* status: { not: "PAID" }
Claimable(p) == pay[p].status # "PAID"

Answer(s, r) == req' = [req EXCEPT ![s] = r]

\* The response; the client or the gateway learns no more than it could read.
Done(s) == Answer(s, Idle)

\* Mutant: the row is replaced rather than updated.
SetStatus_Replaces(p, status) == pay' = [pay EXCEPT ![p] = [status |-> status]]

SetStatus(p, status) == pay' = [pay EXCEPT ![p].status = status]

-----------------------------------------------------------------------------
(* Checkout and the gateway *)

\* createCheckout
Checkout(p, r) ==
  /\ pay[p] = NoPayment
  /\ OneOpenPurchase =>
       \A q \in Payments : pay[q].status \in {"CREATED", "FAILED"} => pay[q].rest # r
  /\ pay' = [pay EXCEPT ![p] = [status |-> "CREATED", rest |-> r]]
  /\ UNCHANGED <<now, sub, gateway, req, scan, granted, history, admin>>

\* External: the customer's attempts to pay the gateway's order, the last of
\* which may succeed.
Attempt(p, outcome) ==
  /\ pay[p] # NoPayment
  /\ "captured" \notin gateway[p]
  /\ gateway' = [gateway EXCEPT ![p] = @ \cup {outcome}]
  /\ UNCHANGED <<now, sub, pay, req, scan, granted, history, admin>>

\* webhook, payment.failed: recorded whatever the status
WebhookFailed(p) ==
  /\ "failed" \in gateway[p]
  /\ "captured" \in gateway[p] => LateFailures
  /\ SetStatus(p, "FAILED")
  /\ UNCHANGED <<now, sub, gateway, req, scan, granted, history, admin>>

\* webhook, payment.captured or payment.authorized
WebhookCaptured(s, p) ==
  /\ req[s] = Idle
  /\ "captured" \in gateway[p]
  /\ Answer(s, [phase |-> "delivered", pay |-> p, expiry |-> 0])
  /\ UNCHANGED <<now, sub, pay, gateway, scan, granted, history, admin>>

\* verifyPayment: the client's callback.  A payment found PAID is answered
\* at once.
Verify(s, p) ==
  /\ req[s] = Idle
  /\ "captured" \in gateway[p]
  /\ Claimable(p)
  /\ Answer(s, [phase |-> "checked", pay |-> p, expiry |-> 0])
  /\ UNCHANGED <<now, sub, pay, gateway, scan, granted, history, admin>>

\* The signature does not verify: the key pair has been replaced since.  The
\* failure is recorded whatever the status is by now.
Reject(s) ==
  /\ req[s].phase = "checked"
  /\ Claimable(req[s].pay) \/ LateFailures
  /\ SetStatus(req[s].pay, "FAILED")
  /\ Done(s)
  /\ UNCHANGED <<now, sub, gateway, scan, granted, history, admin>>

-----------------------------------------------------------------------------
(* activateSubscriptionPayment *)

ActivateRead(s) ==
  /\ req[s].phase \in {"checked", "delivered"}
  /\ LET p == req[s].pay IN
       IF Claimable(p)
       THEN Answer(s, [phase |-> "claim", pay |-> p, expiry |-> sub[pay[p].rest].expiry])
       ELSE Done(s)
  /\ UNCHANGED <<now, sub, pay, gateway, scan, granted, history, admin>>

\* The claim finds the payment PAID by another request.
AlreadyPaid(s) ==
  /\ req[s].phase = "claim"
  /\ ~Claimable(req[s].pay)
  /\ Done(s)
  /\ UNCHANGED <<now, sub, pay, gateway, scan, granted, history, admin>>

\* Claim, subscription and history, committed together.
Activate(s) ==
  /\ req[s].phase = "claim"
  /\ Claimable(req[s].pay)
  /\ LET p == req[s].pay
         r == pay[p].rest IN
       /\ SetStatus(p, "PAID")
       /\ sub' = [sub EXCEPT ![r] = [status |-> "ACTIVE",
                                     expiry |-> Base(req[s].expiry) + Cycle]]
       /\ granted' = [granted EXCEPT ![p] = @ + 1]
       /\ history' = [history EXCEPT ![r].active = @ + 1]
  /\ Done(s)
  /\ UNCHANGED <<now, gateway, scan, admin>>

-----------------------------------------------------------------------------
(* The Super Admin *)

\* renewSubscription: the new date is computed before the transaction.
RenewRead(s, r) ==
  /\ req[s] = Idle
  /\ admin < MaxAdmin
  /\ admin' = admin + 1
  /\ Answer(s, [phase |-> "extend", rest |-> r, expiry |-> Base(sub[r].expiry) + Cycle])
  /\ UNCHANGED <<now, sub, pay, gateway, scan, granted, history>>

\* changeSubscriptionPlan and activateSubscription: a new cycle from today
ResetRead(s, r) ==
  /\ req[s] = Idle
  /\ admin < MaxAdmin
  /\ admin' = admin + 1
  /\ Answer(s, [phase |-> "extend", rest |-> r, expiry |-> now + Cycle])
  /\ UNCHANGED <<now, sub, pay, gateway, scan, granted, history>>

\* cancelSubscription and suspendSubscription
StopRead(s, r) ==
  /\ req[s] = Idle
  /\ admin < MaxAdmin
  /\ admin' = admin + 1
  /\ Answer(s, [phase |-> "stop", rest |-> r, expiry |-> 0])
  /\ UNCHANGED <<now, sub, pay, gateway, scan, granted, history>>

ExtendWrite(s) ==
  /\ req[s].phase = "extend"
  /\ sub' = [sub EXCEPT ![req[s].rest] = [status |-> "ACTIVE", expiry |-> req[s].expiry]]
  /\ history' = [history EXCEPT ![req[s].rest].active = @ + 1]
  /\ Done(s)
  /\ UNCHANGED <<now, pay, gateway, scan, granted, admin>>

StopWrite(s) ==
  /\ req[s].phase = "stop"
  /\ \E status \in {"CANCELLED", "SUSPENDED"} :
       sub' = [sub EXCEPT ![req[s].rest].status = status]
  /\ Done(s)
  /\ UNCHANGED <<now, pay, gateway, scan, granted, history, admin>>

\* A transaction rolls back, or its process dies: nothing has been written.
Fail(s) ==
  /\ req[s] # Idle
  /\ Done(s)
  /\ UNCHANGED <<now, sub, pay, gateway, scan, granted, history, admin>>

-----------------------------------------------------------------------------
(* runExpiryPass *)

\* Mutant: only trials are looked for.
Lapsed_Trials(r) == sub[r].status = "TRIAL" /\ sub[r].expiry < now

Lapsed(r) == sub[r].status \in Usable /\ sub[r].expiry < now

\* A pass selects the subscriptions that have run out.
CronScan(c) ==
  /\ scan[c] = {}
  /\ scan' = [scan EXCEPT ![c] = {r \in Restaurants : Lapsed(r)}]
  /\ UNCHANGED <<now, sub, pay, gateway, req, granted, history, admin>>

\* Mutant: the flip does not check the status again.
CronExpire_Unchecked(c, r) ==
  /\ r \in scan[c]
  /\ scan' = [scan EXCEPT ![c] = @ \ {r}]
  /\ sub' = [sub EXCEPT ![r].status = "EXPIRED"]
  /\ history' = [history EXCEPT ![r].expired = @ + 1]
  /\ UNCHANGED <<now, pay, gateway, req, granted, admin>>

\* The conditional flip, and the history row if it took place.  The status is
\* looked at again, the date is not.
CronExpire(c, r) ==
  /\ r \in scan[c]
  /\ scan' = [scan EXCEPT ![c] = @ \ {r}]
  /\ IF sub[r].status \in Usable
     THEN /\ sub' = [sub EXCEPT ![r].status = "EXPIRED"]
          /\ history' = [history EXCEPT ![r].expired = @ + 1]
     ELSE UNCHANGED <<sub, history>>
  /\ UNCHANGED <<now, pay, gateway, req, granted, admin>>

\* The transaction of one restaurant fails: the pass goes on with the others.
CronSkip(c, r) ==
  /\ r \in scan[c]
  /\ scan' = [scan EXCEPT ![c] = @ \ {r}]
  /\ UNCHANGED <<now, sub, pay, gateway, req, granted, history, admin>>

NextDay ==
  /\ now < LastDay
  /\ now' = now + 1
  /\ UNCHANGED <<sub, pay, gateway, req, scan, granted, history, admin>>

-----------------------------------------------------------------------------

Purchase ==
  \E p \in Payments :
    \/ \E r \in Restaurants : Checkout(p, r)
    \/ \E outcome \in {"failed", "captured"} : Attempt(p, outcome)
    \/ WebhookFailed(p)

Activation ==
  \E s \in Sessions :
    \/ \E p \in Payments : WebhookCaptured(s, p) \/ Verify(s, p)
    \/ Reject(s)
    \/ ActivateRead(s)
    \/ AlreadyPaid(s)
    \/ Activate(s)
    \/ Fail(s)

Administration ==
  \E s \in Sessions :
    \/ \E r \in Restaurants : RenewRead(s, r) \/ ResetRead(s, r) \/ StopRead(s, r)
    \/ ExtendWrite(s)
    \/ StopWrite(s)

ExpiryPass ==
  \E c \in Crons :
    \/ CronScan(c)
    \/ \E r \in Restaurants : CronExpire(c, r) \/ CronSkip(c, r)

Next == Purchase \/ Activation \/ Administration \/ ExpiryPass \/ NextDay

Spec == Init /\ [][Next]_vars

\* Every process starts its pass every night, and the database does not fail
\* the same restaurant's transaction for ever.
CronFairness ==
  \A c \in Crons :
    /\ WF_vars(CronScan(c))
    /\ \A r \in Restaurants :
         WF_vars(CronExpire(c, r) \/ CronSkip(c, r)) /\ SF_vars(CronExpire(c, r))

Activating(s, p) == req[s].phase \in {"checked", "delivered", "claim"} /\ req[s].pay = p

\* Every request ends; the gateway repeats the report of a capture until it is
\* answered with success, and the database does not fail the same activation
\* for ever.
GatewayFairness ==
  \A s \in Sessions :
    /\ WF_vars(ActivateRead(s) \/ ExtendWrite(s) \/ StopWrite(s) \/ Fail(s))
    /\ \A p \in Payments :
         /\ SF_vars(WebhookCaptured(s, p))
         /\ SF_vars(Activating(s, p) /\ ActivateRead(s))
         /\ SF_vars(Activating(s, p) /\ Activate(s))

LiveSpec == Spec /\ CronFairness /\ GatewayFairness

-----------------------------------------------------------------------------
(* Properties *)

\* A payment that shows PAID has been turned into time once, one that does not
\* never: the callback, the webhooks and their repetitions between them
\* activate a purchase once (activateSubscriptionPayment).
PaidIsGrantedOnce ==
  \A p \in Payments : granted[p] = IF pay[p].status = "PAID" THEN 1 ELSE 0

\* Between two expirations in the history of a restaurant lies a renewal,
\* however many processes run the pass (runExpiryPass).
ExpiresOncePerPeriod ==
  \A r \in Restaurants : history[r].expired <= history[r].active + 1

E == INSTANCE Entitlement WITH
       today <- now,
       until <- [r \in Restaurants |-> sub[r].expiry],
       used  <- {p \in Payments : pay[p].status = "PAID"}

\* What the purchase promises, with its two callbacks, repeated webhooks,
\* failures, and the expiry pass going on beside it.
ImplementsEntitlement == E!Spec

\* A subscription that has run out does not stay usable: the pass gets to it,
\* unless it is renewed first.
RunsOut ==
  \A r \in Restaurants :
    sub[r].status \in Usable /\ sub[r].expiry < now
      ~> sub[r].status \notin Usable \/ sub[r].expiry >= now

\* A payment the gateway has captured is activated in the end, however many
\* attempts failed before it and whatever failed on the way.
CapturedIsActivated ==
  \A p \in Payments : "captured" \in gateway[p] ~> pay[p].status = "PAID"

\* A purchase is activated once, whatever is replayed or reported late.
NeverGrantedTwice == \A p \in Payments : granted[p] <= 1
=============================================================================
