------------------------------ MODULE Onboarding ------------------------------
(***************************************************************************)
(* The application of a restaurant: services/onboarding.service.js behind  *)
(* controllers/onboarding.controller.js, the gateway's events              *)
(* (subscription.controller.js webhook), the Super Admin's decisions and   *)
(* the expiry pass of cron/email.cron.js.                                  *)
(*                                                                         *)
(* One application is followed.  Its stage is a column: most handlers      *)
(* check it when they read the row and write it by id alone later on.      *)
(***************************************************************************)
EXTENDS Integers, Sequences, FiniteSets

CONSTANTS
  Plan,      \* plans on sale
  Session,   \* concurrent requests, gateway events and passes
  NoPlan,    \* no subscription row
  AppOps,    \* the operations of this instance
  MaxPays,   \* bound on the SubscriptionPayment rows
  MaxCreated \* bound on the activations recorded

AllAppOps == {"business", "upload", "legal", "plan", "submit", "quick", "checkout",
              "verify", "captured", "failed", "mark", "approve", "approveManual", "reject",
              "rejectManual", "expire", "documents", "mode"}

ASSUME AppPlanAssumption  == NoPlan \notin Plan
ASSUME AppOpsAssumption   == AppOps \subseteq AllAppOps
ASSUME AppBoundAssumption == MaxPays \in Nat \ {0} /\ MaxCreated \in Nat

VARIABLES
  app,     \* the Restaurant row, and whether its owner is linked to it
  docs,    \* RestaurantDocument rows: none, some valid, or only rejected ones
  legal,   \* every required policy is accepted at its current version
  appSub,  \* the Subscription row
  pays,    \* SubscriptionPayment rows, oldest first
  created, \* SubscriptionHistory rows of type CREATION: the plans activated
  auto,    \* the review mode is "auto"
  appReq,  \* what each session is serving and what it has read for it
  doubt,   \* ghost: two requests overlapped, or see Late, SelectPlan and Die
  received \* ghost: some payment was verified, by the gateway or by hand

appVars == <<app, docs, legal, appSub, pays, created, auto, appReq, doubt, received>>

-----------------------------------------------------------------------------
(* Stages and rows *)

Wizard == {"REGISTERED", "DOCUMENTS_PENDING", "DOCUMENT_REJECTED", "LEGAL_PENDING",
           "PLAN_PENDING", "PLAN_SELECTED", "PAYMENT_PENDING", "PAYMENT_FAILED"}
Manual == {"MANUAL_PENDING", "MANUAL_PAYMENT_RECEIVED", "MANUAL_APPROVED",
           "MANUAL_REJECTED"}
InFlight  == {"MANUAL_PENDING", "MANUAL_PAYMENT_RECEIVED"}
Terminal  == {"REJECTED", "EXPIRED"}
Reviewing == {"UNDER_REVIEW", "PROVISIONING", "ACTIVE"}
Stage     == Wizard \cup Manual \cup Terminal \cup Reviewing

\* status: Restaurant.status = "ACTIVE"; due: where applicationExpiresAt lies;
\* told: expiredNotificationSentAt is set.  REGISTERED is a row not yet made.
AppRow == [stage : Stage, active : BOOLEAN, schema : BOOLEAN, linked : BOOLEAN,
           due : {"none", "ahead", "past"}, told : BOOLEAN]

AppSubRow == [plan : Plan \cup {NoPlan}, status : {"NONE", "PENDING_PAYMENT", "ACTIVE"}]
AppPayRow == [plan : Plan, status : {"CREATED", "PAID", "FAILED"}]

\* stage: the stage about to be written; plan: the plan read; pay: the payment
AppRequest == [op : AllAppOps \cup {"none"},
               phase : {"idle", "checked", "link", "subscribe", "derive", "stamp",
                        "event", "finish", "row", "provision", "begin", "ddl",
                        "activate", "documents", "approved"},
               stage : Stage, plan : Plan \cup {NoPlan}, pay : 0..MaxPays]

NoRequest == [op |-> "none", phase |-> "idle", stage |-> "REGISTERED", plan |-> NoPlan,
              pay |-> 0]

AppTypeOK ==
  /\ app \in AppRow
  /\ docs \in {"none", "valid", "rejected"}
  /\ legal \in BOOLEAN
  /\ appSub \in AppSubRow
  /\ pays \in Seq(AppPayRow) /\ Len(pays) <= MaxPays
  /\ created \in Seq(Plan) /\ Len(created) <= MaxCreated
  /\ auto \in BOOLEAN
  /\ appReq \in [Session -> AppRequest]
  /\ doubt \in BOOLEAN
  /\ received \in BOOLEAN

NoApp == [stage |-> "REGISTERED", active |-> FALSE, schema |-> FALSE,
          linked |-> FALSE, due |-> "none", told |-> FALSE]

Fresh ==
  /\ app = NoApp
  /\ docs = "none" /\ legal = FALSE
  /\ appSub = [plan |-> NoPlan, status |-> "NONE"]
  /\ pays = <<>>

\* The payment endpoints remain for accounts already at a payment stage.
Legacy == \E p \in Plan :
  /\ app = [NoApp EXCEPT !.stage = "PAYMENT_PENDING", !.linked = TRUE]
  /\ docs = "valid" /\ legal = TRUE
  /\ appSub = [plan |-> p, status |-> "PENDING_PAYMENT"]
  /\ pays = <<[plan |-> p, status |-> "CREATED"]>>

AppInit ==
  /\ Fresh \/ Legacy
  /\ created = <<>> /\ auto \in BOOLEAN
  /\ appReq = [s \in Session |-> NoRequest]
  /\ doubt = FALSE /\ received = FALSE

-----------------------------------------------------------------------------
(* Helpers *)

Exists == app.stage # "REGISTERED"

\* Mutant: any payment will do.
HasPaid_Any == pays # <<>>

HasPaid == \E k \in DOMAIN pays : pays[k].status = "PAID"

\* Mutant: the stage is asked instead of the status.
AlreadyActive_Stage == app.stage \in {"ACTIVE", "MANUAL_APPROVED"} /\ app.schema

AlreadyActive == app.active /\ app.schema

\* Mutant: the plan can be changed while the application is pending.
Gate_Pending(op) ==
  CASE op = "plan" -> {"PLAN_PENDING", "PLAN_SELECTED", "MANUAL_PENDING"}
    [] op = "legal" -> {"LEGAL_PENDING", "PLAN_PENDING"}
    [] op = "checkout" -> {"PAYMENT_PENDING", "PAYMENT_FAILED"}
    [] op = "verify" -> {"PAYMENT_PENDING", "PAYMENT_FAILED", "UNDER_REVIEW",
                         "PROVISIONING"}
    [] op = "upload" -> Wizard \ {"REGISTERED"}
    [] op \in {"business", "submit"} -> Wizard

\* The stages an endpoint serves.  UNDER_REVIEW, though listed for documents, is
\* refused before the list is looked at.
Gate(op) ==
  CASE op \in {"business", "submit"} -> Wizard
    [] op = "upload"   -> Wizard \ {"REGISTERED"}
    [] op = "legal"    -> {"LEGAL_PENDING", "PLAN_PENDING"}
    [] op = "plan"     -> {"PLAN_PENDING", "PLAN_SELECTED", "PAYMENT_PENDING",
                           "PAYMENT_FAILED"}
    [] op = "checkout" -> {"PAYMENT_PENDING", "PAYMENT_FAILED"}
    [] op = "verify"   -> {"PAYMENT_PENDING", "PAYMENT_FAILED", "UNDER_REVIEW",
                           "PROVISIONING"}

\* Mutant: a rejected document gives a stage the configuration does not list.
deriveStage_Unlisted == IF docs = "rejected" THEN "DOCUMENTS_REJECTED" ELSE "PLAN_PENDING"

\* The stage the rows stand for, in the order of the questions asked.
deriveStage ==
  LET last == IF pays = <<>> THEN "none" ELSE pays[Len(pays)].status IN
  CASE app.active          -> "ACTIVE"
    [] last = "PAID"       -> IF app.schema THEN "ACTIVE" ELSE "UNDER_REVIEW"
    [] last = "FAILED"     -> "PAYMENT_FAILED"
    [] last = "CREATED"    -> "PAYMENT_PENDING"
    [] appSub.plan # NoPlan   -> "PLAN_SELECTED"
    [] legal               -> "PLAN_PENDING"
    [] docs = "none"       -> "DOCUMENTS_PENDING"
    [] docs = "rejected"   -> "DOCUMENT_REJECTED"
    [] docs = "valid"      -> "LEGAL_PENDING"

Overlap(s) == \E t \in Session \ {s} : appReq[t].phase # "idle"

\* A request starts: ghost doubt if another is under way, or lost says so.
Start(s, op, phase, r, lost) ==
  /\ op \in AppOps
  /\ appReq[s].phase = "idle"
  /\ appReq' = [appReq EXCEPT ![s] = [r EXCEPT !.op = op, !.phase = phase]]
  /\ doubt' = (doubt \/ lost \/ Overlap(s))

At(s, op, phase) == appReq[s].op = op /\ appReq[s].phase = phase
Goto(s, phase)   == appReq' = [appReq EXCEPT ![s].phase = phase]
Respond(s)        == appReq' = [appReq EXCEPT ![s] = NoRequest]
ToStamp(s, stage) == appReq' = [appReq EXCEPT ![s].phase = "stamp", ![s].stage = stage]

Rows == <<app, docs, legal, appSub, pays, created, auto, received>>

-----------------------------------------------------------------------------
(* The wizard *)

\* Business details: a first submission has no row yet.
ReadForBusiness(s) ==
  /\ app.linked => app.stage \in Gate("business")
  /\ ~app.active
  /\ app.linked \/ ~Exists       \* else its e-mail and phone are taken
  /\ Start(s, "business", IF app.linked THEN "derive" ELSE "checked", NoRequest, FALSE)
  /\ UNCHANGED Rows

CreateRow(s) ==
  /\ At(s, "business", "checked")
  /\ ~Exists                     \* phone and e-mail are unique
  /\ app' = [app EXCEPT !.stage = "DOCUMENTS_PENDING"]
  /\ Goto(s, "link")
  /\ UNCHANGED <<docs, legal, appSub, pays, created, auto, doubt, received>>

\* The owner is linked to the row in a second statement.
Link(s) ==
  /\ appReq[s].phase = "link"
  /\ app' = [app EXCEPT !.linked = TRUE]
  /\ Goto(s, IF appReq[s].op = "quick" THEN "subscribe" ELSE "derive")
  /\ UNCHANGED <<docs, legal, appSub, pays, created, auto, doubt, received>>

ReadForUpload(s) ==
  /\ app.linked /\ app.stage \in Gate("upload")
  /\ Start(s, "upload", "checked", NoRequest, FALSE)
  /\ UNCHANGED Rows

Upload(s) ==
  /\ At(s, "upload", "checked")
  /\ docs' = "valid"
  /\ Goto(s, "derive")
  /\ UNCHANGED <<app, legal, appSub, pays, created, auto, doubt, received>>

ReadForLegal(s) ==
  /\ app.linked /\ app.stage \in Gate("legal") /\ docs = "valid"
  /\ Start(s, "legal", "checked", NoRequest, FALSE)
  /\ UNCHANGED Rows

Accept(s) ==
  /\ At(s, "legal", "checked")
  /\ legal' = TRUE
  /\ Goto(s, "derive")
  /\ UNCHANGED <<app, docs, appSub, pays, created, auto, doubt, received>>

\* persistStage, and the end of createOrUpdateBusiness: the stage is derived from
\* the rows, but for a stage that is kept, and written by id afterwards.
Derive(s) ==
  /\ appReq[s].phase = "derive"
  /\ LET kept == Manual \cup Terminal \cup
                 (IF appReq[s].op = "business" THEN {} ELSE Reviewing)
     IN IF app.stage \in kept THEN Respond(s) ELSE ToStamp(s, deriveStage)
  /\ UNCHANGED <<Rows, doubt>>

Stamp(s) ==
  /\ appReq[s].phase = "stamp"
  /\ app' = [app EXCEPT !.stage = appReq[s].stage]
  /\ Respond(s)
  /\ UNCHANGED <<docs, legal, appSub, pays, created, auto, doubt, received>>

\* selectPlan.  In doubt (ghost): a plan changed while a payment for another is
\* open, since that one can still be paid.
ReadForPlan(s) ==
  /\ app.linked /\ app.stage \in Gate("plan")
  /\ docs = "valid" /\ legal
  /\ appSub.status # "ACTIVE"
  /\ \E p \in Plan :
       Start(s, "plan", "checked", [NoRequest EXCEPT !.plan = p],
             \E k \in DOMAIN pays : pays[k].plan # p)
  /\ UNCHANGED Rows

SelectPlan(s) ==
  /\ At(s, "plan", "checked")
  /\ appSub' = [plan |-> appReq[s].plan, status |-> "PENDING_PAYMENT"]
  /\ ToStamp(s, "PLAN_SELECTED")
  /\ UNCHANGED <<app, docs, legal, pays, created, auto, doubt, received>>

-----------------------------------------------------------------------------
(* Submitting: at the end of the wizard, or in one go *)

\* The address is taken to be verified (see EmailOtp).
ReadForSubmit(s) ==
  /\ app.linked /\ app.stage \in Gate("submit")
  /\ ~app.active
  /\ docs = "valid" /\ legal /\ appSub.plan # NoPlan
  /\ Start(s, "submit", "checked", NoRequest, FALSE)
  /\ UNCHANGED Rows

\* The claim excludes one stage only.
Freeze(s) ==
  /\ At(s, "submit", "checked")
  /\ app.stage # "MANUAL_PENDING"
  /\ app' = [app EXCEPT !.stage = "MANUAL_PENDING", !.active = FALSE,
                        !.due = "ahead", !.told = FALSE]
  /\ Respond(s)
  /\ UNCHANGED <<docs, legal, appSub, pays, created, auto, doubt, received>>

\* startManualApplication: no documents, no policies; three statements.
ReadForQuick(s) ==
  /\ ~Exists
  /\ \E p \in Plan : Start(s, "quick", "checked", [NoRequest EXCEPT !.plan = p], FALSE)
  /\ UNCHANGED Rows

CreateQuick(s) ==
  /\ At(s, "quick", "checked")
  /\ ~Exists
  /\ app' = [app EXCEPT !.stage = "MANUAL_PENDING", !.due = "ahead"]
  /\ Goto(s, "link")
  /\ UNCHANGED <<docs, legal, appSub, pays, created, auto, doubt, received>>

Subscribe(s) ==
  /\ At(s, "quick", "subscribe")
  /\ appSub.plan = NoPlan           \* restaurantId is unique
  /\ appSub' = [plan |-> appReq[s].plan, status |-> "PENDING_PAYMENT"]
  /\ Respond(s)
  /\ UNCHANGED <<app, docs, legal, pays, created, auto, doubt, received>>

-----------------------------------------------------------------------------
(* Payments through the gateway *)

ReadForCheckout(s) ==
  /\ app.linked /\ app.stage \in Gate("checkout")
  /\ appSub.plan # NoPlan /\ appSub.status # "ACTIVE"
  /\ ~HasPaid
  /\ Start(s, "checkout", "checked", [NoRequest EXCEPT !.plan = appSub.plan], FALSE)
  /\ UNCHANGED Rows

CreateCheckout(s) ==
  /\ At(s, "checkout", "checked")
  /\ Len(pays) < MaxPays
  /\ pays' = Append(pays, [plan |-> appReq[s].plan, status |-> "CREATED"])
  /\ ToStamp(s, "PAYMENT_PENDING")
  /\ UNCHANGED <<app, docs, legal, appSub, created, auto, doubt, received>>

\* Ghost: an event of the gateway for an application that has moved on.
Late == app.stage \notin {"PAYMENT_PENDING", "PAYMENT_FAILED"}

\* The applicant's callback is held to its gate, the gateway's event to nothing.
\* Once the restaurant is active, events belong to Subscription.
ReadForVerify(s) ==
  /\ \E op \in {"verify", "captured"}, k \in DOMAIN pays :
       /\ op = "verify" => app.linked /\ app.stage \in Gate("verify")
       /\ op = "captured" => ~app.active
       /\ pays[k].status # "PAID"
       /\ Start(s, op, "checked", [NoRequest EXCEPT !.pay = k], Late)
  /\ UNCHANGED Rows

ClaimPayment(s) ==
  /\ At(s, "verify", "checked") \/ At(s, "captured", "checked")
  /\ pays[appReq[s].pay].status # "PAID"
  /\ pays' = [pays EXCEPT ![appReq[s].pay].status = "PAID"]
  /\ received' = TRUE
  /\ Goto(s, "finish")
  /\ UNCHANGED <<app, docs, legal, appSub, created, auto, doubt>>

\* A callback's signature that does not match fails the payment, whatever became
\* of it since it was read.
RefuseSignature(s) ==
  /\ At(s, "verify", "checked")
  /\ pays' = [pays EXCEPT ![appReq[s].pay].status = "FAILED"]
  /\ ToStamp(s, "PAYMENT_FAILED")
  /\ UNCHANGED <<app, docs, legal, appSub, created, auto, doubt, received>>

finishVerifiedPayment(s) ==
  /\ appReq[s].phase = "finish"
  /\ IF auto THEN Goto(s, "provision") /\ UNCHANGED app
     ELSE /\ app' = [app EXCEPT !.stage = "UNDER_REVIEW"]
          /\ Respond(s)
  /\ UNCHANGED <<docs, legal, appSub, pays, created, auto, doubt, received>>

\* payment.failed, of any attempt to pay the order, delivered at any time.
PaymentFailed(s) ==
  /\ \E k \in DOMAIN pays :
       /\ Start(s, "failed", "event", NoRequest, Late)
       /\ pays' = [pays EXCEPT ![k].status = "FAILED"]
  /\ UNCHANGED <<app, docs, legal, appSub, created, auto, received>>

AfterFailure(s) ==
  /\ At(s, "failed", "event")
  /\ IF app.active THEN Respond(s) ELSE ToStamp(s, "PAYMENT_FAILED")
  /\ UNCHANGED <<Rows, doubt>>

-----------------------------------------------------------------------------
(* The Super Admin *)

ReadForMark(s) ==
  /\ app.stage = "MANUAL_PENDING"
  /\ ~app.active /\ appSub.plan # NoPlan
  /\ Start(s, "mark", "checked", [NoRequest EXCEPT !.plan = appSub.plan], FALSE)
  /\ UNCHANGED Rows

\* markPaymentReceived writes the stage first and the payment second.
MarkStage(s) ==
  /\ At(s, "mark", "checked")
  /\ app' = [app EXCEPT !.stage = "MANUAL_PAYMENT_RECEIVED"]
  /\ received' = TRUE
  /\ Goto(s, "row")
  /\ UNCHANGED <<docs, legal, appSub, pays, created, auto, doubt>>

MarkPayment(s) ==
  /\ At(s, "mark", "row")
  /\ IF HasPaid THEN UNCHANGED pays
     ELSE /\ Len(pays) < MaxPays
          /\ pays' = Append(pays, [plan |-> appReq[s].plan, status |-> "PAID"])
  /\ Respond(s)
  /\ UNCHANGED <<app, docs, legal, appSub, created, auto, doubt, received>>

ReadForApprove(s) ==
  /\ ~AlreadyActive
  /\ docs = "valid" /\ appSub.plan # NoPlan
  /\ app.stage \in Manual => app.stage = "MANUAL_PAYMENT_RECEIVED"
  /\ HasPaid
  /\ Start(s, "approve", "provision", NoRequest, FALSE)
  /\ UNCHANGED Rows

ReadForApproveManual(s) ==
  /\ app.stage = "MANUAL_PAYMENT_RECEIVED"
  /\ ~AlreadyActive
  /\ appSub.plan # NoPlan
  /\ Start(s, "approveManual", "provision", NoRequest, FALSE)
  /\ UNCHANGED Rows

\* provisionAndActivate reads the rows again, ...
ReadForProvision(s) ==
  /\ appReq[s].phase = "provision"
  /\ IF AlreadyActive
     THEN IF appReq[s].op = "approveManual" THEN Goto(s, "approved") ELSE Respond(s)
     ELSE /\ appSub.plan # NoPlan /\ HasPaid
          /\ appReq' = [appReq EXCEPT ![s].phase = "begin", ![s].plan = appSub.plan]
  /\ UNCHANGED <<Rows, doubt>>

\* ... marks the application, ...
Begin(s) ==
  /\ appReq[s].phase = "begin"
  /\ app' = [app EXCEPT !.stage = "PROVISIONING", !.active = FALSE]
  /\ Goto(s, "ddl")
  /\ UNCHANGED <<docs, legal, appSub, pays, created, auto, doubt, received>>

\* ... creates the tenant's schema unless there is one, ...
CreateSchema(s) ==
  /\ appReq[s].phase = "ddl"
  /\ app' = [app EXCEPT !.schema = TRUE]
  /\ Goto(s, "activate")
  /\ UNCHANGED <<docs, legal, appSub, pays, created, auto, doubt, received>>

\* ... and activates subscription and restaurant in one transaction.
ActivateRestaurant(s) ==
  /\ appReq[s].phase = "activate"
  /\ Len(created) < MaxCreated
  /\ appSub' = [plan |-> appReq[s].plan, status |-> "ACTIVE"]
  /\ app' = [app EXCEPT !.active = TRUE, !.stage = "ACTIVE"]
  /\ created' = Append(created, appReq[s].plan)
  /\ Goto(s, "documents")
  /\ UNCHANGED <<docs, legal, pays, auto, doubt, received>>

VerifyDocuments(s) ==
  /\ appReq[s].phase = "documents"
  /\ IF appReq[s].op = "approveManual" THEN Goto(s, "approved") ELSE Respond(s)
  /\ UNCHANGED <<Rows, doubt>>

Approved(s) ==
  /\ appReq[s].phase = "approved"
  /\ app' = [app EXCEPT !.stage = "MANUAL_APPROVED", !.due = "none", !.told = FALSE]
  /\ Respond(s)
  /\ UNCHANGED <<docs, legal, appSub, pays, created, auto, doubt, received>>

\* Any error after Begin, that of the documents included, is caught.
ProvisionFails(s) ==
  /\ appReq[s].phase \in {"ddl", "activate", "documents"}
  /\ app' = [app EXCEPT !.stage = "UNDER_REVIEW"]
  /\ Respond(s)
  /\ UNCHANGED <<docs, legal, appSub, pays, created, auto, doubt, received>>

\* Mutant: an active restaurant can be rejected.
CanReject_Always == Exists

CanReject == Exists /\ ~app.active

\* rejectApplication and rejectManualApplication ask nothing of the stage.
ReadForReject(s) ==
  /\ CanReject
  /\ \E op \in {"reject", "rejectManual"} : Start(s, op, "checked", NoRequest, FALSE)
  /\ UNCHANGED Rows

TurnDown(s) ==
  /\ \/ /\ At(s, "reject", "checked")
        /\ app' = [app EXCEPT !.stage = "REJECTED", !.active = FALSE]
     \/ /\ At(s, "rejectManual", "checked")
        /\ app' = [app EXCEPT !.stage = "MANUAL_REJECTED", !.active = FALSE]
  /\ Respond(s)
  /\ UNCHANGED <<docs, legal, appSub, pays, created, auto, doubt, received>>

\* The Super Admin's own upload, verification, rejection and deletion of
\* documents leave the stage alone.
ReviewDocuments ==
  /\ "documents" \in AppOps /\ Exists
  /\ docs' \in {"none", "valid", "rejected"} \ {docs}
  /\ UNCHANGED <<app, legal, appSub, pays, created, auto, appReq, doubt, received>>

setReviewMode ==
  /\ "mode" \in AppOps
  /\ auto' = ~auto
  /\ UNCHANGED <<app, docs, legal, appSub, pays, created, appReq, doubt, received>>

-----------------------------------------------------------------------------
(* Expiry, and deaths *)

TimePasses ==
  /\ app.due = "ahead"
  /\ app' = [app EXCEPT !.due = "past"]
  /\ UNCHANGED <<docs, legal, appSub, pays, created, auto, appReq, doubt, received>>

\* Mutant: any application past its date.
Expirable_AnyStage == app.due = "past" /\ ~app.told

Expirable == app.due = "past" /\ ~app.told /\ ~app.active /\ app.stage \in InFlight

ReadForExpiry(s) ==
  /\ Expirable
  /\ Start(s, "expire", "checked", NoRequest, FALSE)
  /\ UNCHANGED Rows

Expire(s) ==
  /\ At(s, "expire", "checked")
  /\ app' = [app EXCEPT !.stage = "EXPIRED", !.told = TRUE]
  /\ Respond(s)
  /\ UNCHANGED <<docs, legal, appSub, pays, created, auto, doubt, received>>

\* A request ends early: a check or a statement fails, or the process dies.  In
\* doubt (ghost) is a payment marked received whose row is never written.
Die(s) ==
  /\ appReq[s].phase # "idle"
  /\ Respond(s)
  /\ doubt' = (doubt \/ appReq[s].phase = "row")
  /\ UNCHANGED Rows

-----------------------------------------------------------------------------
Serve(s) ==
  \/ ReadForBusiness(s) \/ CreateRow(s) \/ Link(s) \/ ReadForUpload(s) \/ Upload(s)
  \/ ReadForLegal(s) \/ Accept(s) \/ Derive(s) \/ Stamp(s)
  \/ ReadForPlan(s) \/ SelectPlan(s) \/ ReadForSubmit(s) \/ Freeze(s)
  \/ ReadForQuick(s) \/ CreateQuick(s) \/ Subscribe(s)
  \/ ReadForCheckout(s) \/ CreateCheckout(s) \/ ReadForVerify(s) \/ ClaimPayment(s)
  \/ RefuseSignature(s) \/ finishVerifiedPayment(s) \/ PaymentFailed(s)
  \/ AfterFailure(s)

Decide(s) ==
  \/ ReadForMark(s) \/ MarkStage(s) \/ MarkPayment(s) \/ ReadForApprove(s)
  \/ ReadForApproveManual(s) \/ ReadForProvision(s) \/ Begin(s) \/ CreateSchema(s)
  \/ ActivateRestaurant(s) \/ VerifyDocuments(s) \/ Approved(s) \/ ProvisionFails(s)
  \/ ReadForReject(s) \/ TurnDown(s) \/ ReadForExpiry(s) \/ Expire(s) \/ Die(s)

AppNext == (\E s \in Session : Serve(s) \/ Decide(s))
           \/ ReviewDocuments \/ setReviewMode \/ TimePasses

AppSpec == AppInit /\ [][AppNext]_appVars

-----------------------------------------------------------------------------
(* Properties *)

Quiet == \A s \in Session : appReq[s].phase = "idle"

\* No tenant is created, and no restaurant activated, before a payment for it was
\* verified: however requests, events and the Super Admin's decisions interleave,
\* and wherever a handler dies.
NothingUnpaid == app.schema \/ app.active \/ created # <<>> => received

\* Between requests the four places that say how far an application has come
\* agree: the restaurant is active exactly when its subscription is, then its
\* tenant exists; a stage that says so does not lie; a stage that says it was
\* turned down, or expired, is not that of an active restaurant; and one whose
\* payment was marked received can be approved, for the payment is there.
StageIsTrue ==
  Quiet /\ ~doubt =>
    /\ app.active <=> appSub.status = "ACTIVE"
    /\ app.active => app.schema
    /\ app.stage \in {"ACTIVE", "MANUAL_APPROVED"} => app.active
    /\ app.active => app.stage \in {"ACTIVE", "MANUAL_APPROVED", "UNDER_REVIEW"}
    /\ app.stage = "MANUAL_PAYMENT_RECEIVED" => HasPaid

\* The plan activated is one that was paid for, provided no plan was changed
\* while a payment for another was open.
PaidPlanIsActivated ==
  ~doubt => \A k \in DOMAIN created :
              \E p \in DOMAIN pays : pays[p] = [plan |-> created[k], status |-> "PAID"]

\* Activation is safe to retry: after failures and deaths at any point, and with
\* callbacks, events and approvals repeated in any order, an application is
\* activated once.  Two activations at the same time are not excluded by the code.
ActivatedOnce == ~doubt => Len(created) <= 1

\* Nobody gets in unpaid, gets what was not paid for, or gets in twice on one
\* payment (provisionAndActivate, whatever leads to it and how often).
OnlyPaidIsActivated == NothingUnpaid /\ PaidPlanIsActivated /\ ActivatedOnce

\* A submitted application never returns to the wizard, nor does one that was
\* turned down, unless an event of the gateway comes late or requests overlap.
Submitted == app.stage \in Manual \cup Terminal
FrozenStaysFrozen == [][Submitted /\ ~doubt' => app'.stage \notin Wizard]_appVars
=============================================================================
