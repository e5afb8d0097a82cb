---------------------------- MODULE IntakeProofs ----------------------------
(****************************************************************************)
(* Theorems of the intake of a restaurant and of what it buys afterwards.   *)
(*                                                                          *)
(* Onboarding: that an application is activated once, for the plan that was *)
(* paid; that its stage is what it is; that it does not go back into the    *)
(* wizard. EmailOtp: that the codes which verify its address are safe; and  *)
(* the types of both.                                                       *)
(*                                                                          *)
(* Subscription: its type invariant; that the expiry pass records one       *)
(* expiration per period; that, where no failure is reported after the      *)
(* capture, a payment is turned into time once; and that the purchases of   *)
(* restaurants that open one at a time implement Entitlement.               *)
(****************************************************************************)
EXTENDS MCOnboarding, FiniteSetTheorems, SequenceTheorems, TLAPS

-----------------------------------------------------------------------------
(* The application *)

Paying == {"begin", "ddl", "activate"}

\* What a request has read holds whoever else is at work: money came in before it
\* provisions, its plan is one, and its payment is among the rows.
Held(s) ==
  /\ appReq[s].phase \in Paying \cup {"documents", "row"} => received
  /\ \/ appReq[s].op \in {"checkout", "mark"} /\ appReq[s].phase \in {"checked", "row"}
     \/ appReq[s].phase \in Paying
     => appReq[s].plan \in Plan
  /\ appReq[s].op \in {"verify", "captured"} /\ appReq[s].phase = "checked"
     => appReq[s].pay \in DOMAIN pays

MoneyInv ==
  /\ HasPaid => received
  /\ NothingUnpaid
  /\ \A s \in Session : Held(s)

\* The rest is what one request at a time finds.
AloneInv ==
  \A s, t \in Session : appReq[s].phase # "idle" /\ appReq[t].phase # "idle" => s = t

\* The rows agree, between the statements of a request too.
RowsInv ==
  /\ app.active <=> appSub.status = "ACTIVE"
  /\ app.active => appSub.plan # NoPlan
  /\ app.active => app.schema /\ app.stage \in {"ACTIVE", "MANUAL_APPROVED", "UNDER_REVIEW"}
  /\ app.stage \in {"ACTIVE", "MANUAL_APPROVED"} => app.active
  /\ app.schema => app.stage \notin Wizard
  /\ \A k \in DOMAIN pays : pays[k].plan = appSub.plan
  /\ created # <<>> => app.active
  /\ Len(created) <= 1
  /\ \A k \in DOMAIN created :
       \E p \in DOMAIN pays : pays[p] = [plan |-> created[k], status |-> "PAID"]

MarkedInv ==
  app.stage = "MANUAL_PAYMENT_RECEIVED" => HasPaid \/ \E s \in Session : appReq[s].phase = "row"

\* What the request under way has found still holds.
Serving(s) ==
  /\ \/ appReq[s].phase \in {"derive", "stamp", "event"}
     \/ appReq[s].op # "quick" /\ appReq[s].phase = "link"
     \/ /\ appReq[s].op \in {"upload", "legal", "plan", "checkout", "verify", "captured"}
        /\ appReq[s].phase = "checked"
     => app.stage \in Wizard
  /\ appReq[s].phase = "stamp" => appReq[s].stage \in Wizard \cup {"UNDER_REVIEW"}
  /\ /\ appReq[s].op \in {"submit", "reject", "rejectManual", "mark", "expire"}
     /\ appReq[s].phase = "checked"
     => ~app.active
  /\ appReq[s].op = "plan" /\ appReq[s].phase = "checked"
     => \A k \in DOMAIN pays : pays[k].plan = appReq[s].plan
  /\ \/ appReq[s].op \in {"checkout", "mark"} /\ appReq[s].phase \in {"checked", "row"}
     \/ appReq[s].phase \in Paying
     => appReq[s].plan = appSub.plan
  /\ appReq[s].phase \in Paying => HasPaid /\ ~app.active
  /\ appReq[s].phase = "ddl" => app.stage \notin Wizard
  /\ appReq[s].phase = "activate" => app.schema
  /\ appReq[s].phase \in {"documents", "approved"} => app.active

SoberApp == AloneInv /\ RowsInv /\ MarkedInv /\ \A s \in Session : Serving(s)

AppInv == AppTypeOK /\ MoneyInv /\ (~doubt => SoberApp)

-----------------------------------------------------------------------------
(* What becomes of the requests *)

AppPhase == {"idle", "checked", "link", "subscribe", "derive", "stamp", "event", "finish",
             "row", "provision", "begin", "ddl", "activate", "documents", "approved"}

\* One request is served; the others are where they were.
Only(s) ==
  /\ appReq' \in [Session -> AppRequest]
  /\ \A t \in Session \ {s} : appReq'[t] = appReq[t]

OthersIdle(s) == \A t \in Session \ {s} : appReq[t].phase = "idle"

LEMMA NoRequestType == /\ NoRequest \in AppRequest
                       /\ \A p \in Plan : [NoRequest EXCEPT !.plan = p] \in AppRequest
                       /\ NoRequest.phase = "idle"
<1>1. 0 \in 0..MaxPays
  BY AppBoundAssumption
<1> QED
  BY <1>1 DEF NoRequest, AppRequest, Stage, Wizard

LEMMA Started ==
  ASSUME AppTypeOK, NEW s \in Session, NEW op \in AllAppOps, NEW phase \in AppPhase,
         NEW q \in AppRequest, NEW lost \in BOOLEAN, Start(s, op, phase, q, lost)
  PROVE  /\ Only(s)
         /\ appReq'[s].op = op /\ appReq'[s].phase = phase
         /\ appReq'[s].plan = q.plan /\ appReq'[s].pay = q.pay /\ appReq'[s].stage = q.stage
         /\ appReq[s].phase = "idle"
         /\ doubt' \in BOOLEAN
         /\ ~doubt' => ~doubt /\ ~lost /\ OthersIdle(s)
<1> DEFINE r == [q EXCEPT !.op = op, !.phase = phase]
<1>1. /\ r \in AppRequest /\ r.op = op /\ r.phase = phase /\ r.plan = q.plan
      /\ r.pay = q.pay /\ r.stage = q.stage
  BY DEF AppRequest, AppPhase
<1>2. appReq' = [appReq EXCEPT ![s] = r] /\ appReq[s].phase = "idle"
  BY DEF Start
<1> HIDE DEF r
<1>3. Only(s) /\ appReq'[s] = r
  BY <1>1, <1>2 DEF Only, AppTypeOK
<1>4. /\ doubt' \in BOOLEAN
      /\ ~doubt' => ~doubt /\ ~lost /\ OthersIdle(s)
  BY DEF Start, OthersIdle, Overlap, AppTypeOK
<1> QED
  BY <1>1, <1>2, <1>3, <1>4

LEMMA Moved ==
  ASSUME AppTypeOK, NEW s \in Session, NEW phase \in AppPhase, Goto(s, phase)
  PROVE  /\ Only(s)
         /\ appReq'[s].phase = phase
         /\ appReq'[s].op = appReq[s].op /\ appReq'[s].plan = appReq[s].plan
         /\ appReq'[s].pay = appReq[s].pay /\ appReq'[s].stage = appReq[s].stage
<1> DEFINE r == [appReq[s] EXCEPT !.phase = phase]
<1>0. appReq \in [Session -> AppRequest] /\ appReq[s] \in AppRequest
  BY DEF AppTypeOK
<1>1. /\ r \in AppRequest /\ r.phase = phase /\ r.op = appReq[s].op
      /\ r.plan = appReq[s].plan /\ r.pay = appReq[s].pay /\ r.stage = appReq[s].stage
  BY <1>0 DEF AppRequest, AppPhase
<1>2. appReq' = [appReq EXCEPT ![s] = r]
  BY <1>0 DEF Goto
<1> HIDE DEF r
<1>3. Only(s) /\ appReq'[s] = r
  BY <1>0, <1>1, <1>2 DEF Only
<1> QED
  BY <1>1, <1>3

LEMMA Stamping ==
  ASSUME AppTypeOK, NEW s \in Session, NEW stage \in Stage, ToStamp(s, stage)
  PROVE  /\ Only(s)
         /\ appReq'[s].phase = "stamp" /\ appReq'[s].stage = stage
         /\ appReq'[s].op = appReq[s].op
<1>0. appReq \in [Session -> AppRequest]
  BY DEF AppTypeOK
<1> QED
  BY <1>0, ZenonT(60) DEF ToStamp, Only, AppRequest

LEMMA Answered ==
  ASSUME AppTypeOK, NEW s \in Session, Respond(s)
  PROVE  Only(s) /\ appReq'[s] = NoRequest /\ appReq'[s].phase = "idle"
<1>1. Only(s) /\ appReq'[s] = NoRequest
  BY NoRequestType DEF AppTypeOK, Respond, Only
<1> QED
  BY <1>1, NoRequestType

\* A request under way, alone, has nobody beside it.
LEMMA NobodyElse ==
  ASSUME AloneInv, NEW s \in Session, appReq[s].phase # "idle"
  PROVE  OthersIdle(s)
<1> QED
  BY DEF AloneInv, OthersIdle

\* What is left to show of a step that serves one request.
LEMMA ServedOne ==
  ASSUME AppInv, NEW s \in Session, Only(s), doubt' \in BOOLEAN,
         app' \in AppRow, docs' \in {"none", "valid", "rejected"}, legal' \in BOOLEAN,
         appSub' \in AppSubRow, pays' \in Seq(AppPayRow), Len(pays') <= MaxPays,
         created' \in Seq(Plan), Len(created') <= MaxCreated, auto' \in BOOLEAN,
         received' \in BOOLEAN,
         received => received', DOMAIN pays \subseteq DOMAIN pays',
         HasPaid' => received', NothingUnpaid', Held(s)',
         ~doubt' => ~doubt /\ OthersIdle(s) /\ RowsInv' /\ MarkedInv' /\ Serving(s)'
  PROVE  AppInv'
<1>1. AppTypeOK'
  BY DEF AppTypeOK, Only
<1>2. MoneyInv'
  BY DEF MoneyInv, AppInv, Held, Only
<1>3. ASSUME ~doubt' PROVE SoberApp'
  <2>1. \A t \in Session \ {s} : appReq'[t].phase = "idle"
    BY <1>3 DEF Only, OthersIdle
  <2>2. AloneInv'
    BY <2>1 DEF AloneInv
  <2>3. \A t \in Session \ {s} : Serving(t)'
    BY <2>1 DEF Serving, Paying
  <2> QED
    BY <1>3, <2>2, <2>3 DEF SoberApp
<1> QED
  BY <1>1, <1>2, <1>3 DEF AppInv

\* A step that only reads: the rows are as they were.
LEMMA OnlyRead ==
  ASSUME AppInv, NEW s \in Session, Only(s), UNCHANGED Rows, doubt' \in BOOLEAN, Held(s)',
         ~doubt' => ~doubt /\ OthersIdle(s) /\ appReq[s].phase # "row" /\ Serving(s)'
  PROVE  AppInv'
<1>1. UNCHANGED <<app, docs, legal, appSub, pays, created, auto, received>>
  BY DEF Rows
<1>2. HasPaid' <=> HasPaid
  BY <1>1 DEF HasPaid
<1>3. HasPaid' => received'
  BY <1>1, <1>2 DEF AppInv, MoneyInv
<1>4. NothingUnpaid'
  BY <1>1 DEF AppInv, MoneyInv, NothingUnpaid
<1>5. ASSUME ~doubt' PROVE RowsInv' /\ MarkedInv'
  <2>1. RowsInv'
    BY <1>1, <1>5 DEF AppInv, SoberApp, RowsInv
  <2>2. MarkedInv'
    BY <1>1, <1>2, <1>5 DEF AppInv, SoberApp, MarkedInv, OthersIdle
  <2> QED
    BY <2>1, <2>2
<1>6. /\ app' \in AppRow /\ docs' \in {"none", "valid", "rejected"} /\ legal' \in BOOLEAN
      /\ appSub' \in AppSubRow /\ pays' \in Seq(AppPayRow) /\ Len(pays') <= MaxPays
      /\ created' \in Seq(Plan) /\ Len(created') <= MaxCreated /\ auto' \in BOOLEAN
      /\ received' \in BOOLEAN
  BY <1>1 DEF AppInv, AppTypeOK
<1>7. received => received'
  BY <1>1
<1>8. DOMAIN pays \subseteq DOMAIN pays'
  BY <1>1
<1> QED
  BY <1>3, <1>4, <1>5, <1>6, <1>7, <1>8, ServedOne
-----------------------------------------------------------------------------
(* The steps that read, and those that only move a request on *)

LEMMA GatesOfWizard ==
  \A op \in {"business", "upload", "legal", "plan", "submit", "checkout"} :
    Gate(op) \subseteq Wizard
<1> QED
  BY DEF Gate, Wizard

\* An application in the wizard has no tenant and is not active.
LEMMA WizardIsEarly ==
  ASSUME RowsInv, app.stage \in Wizard
  PROVE  ~app.schema /\ ~app.active /\ created = <<>>
<1> QED
  BY DEF RowsInv

LEMMA ReadSteps ==
  ASSUME AppInv, NEW s \in Session,
         \/ ReadForBusiness(s) \/ ReadForUpload(s) \/ ReadForLegal(s) \/ ReadForPlan(s)
         \/ ReadForSubmit(s) \/ ReadForQuick(s) \/ ReadForCheckout(s) \/ ReadForVerify(s)
         \/ ReadForMark(s) \/ ReadForApprove(s) \/ ReadForApproveManual(s)
         \/ ReadForReject(s) \/ ReadForExpiry(s)
  PROVE  AppInv'
<1>t. AppTypeOK /\ NoRequest \in AppRequest
      /\ \A p \in Plan : [NoRequest EXCEPT !.plan = p] \in AppRequest
  BY NoRequestType DEF AppInv
<1>p. /\ {"business", "upload", "legal", "plan", "submit", "quick", "checkout", "verify",
          "captured", "mark", "approve", "approveManual", "reject", "rejectManual",
          "expire"} \subseteq AllAppOps
      /\ {"checked", "derive", "provision"} \subseteq AppPhase
  BY DEF AllAppOps, AppPhase
\* a request that has been started
<1>f. ASSUME NEW op \in AllAppOps, NEW phase \in AppPhase, NEW q \in AppRequest,
             Start(s, op, phase, q, FALSE)
      PROVE  /\ appReq'[s].op = op /\ appReq'[s].phase = phase
             /\ appReq'[s].plan = q.plan
  <2> DEFINE lost == FALSE
  <2>1. lost \in BOOLEAN /\ Start(s, op, phase, q, lost)
    BY <1>f
  <2> HIDE DEF lost
  <2> QED
    BY <1>t, <2>1, Started
<1>s. ASSUME NEW op \in AllAppOps, NEW phase \in AppPhase, NEW q \in AppRequest,
             NEW lost \in BOOLEAN, Start(s, op, phase, q, lost), UNCHANGED Rows,
             phase \notin Paying \cup {"documents", "row"},
             op \in {"checkout", "mark"} => q.plan \in Plan,
             op \in {"verify", "captured"} => q.pay \in DOMAIN pays,
             ~doubt /\ ~lost => Serving(s)'
      PROVE  AppInv'
  <2>1. /\ Only(s) /\ appReq'[s].op = op /\ appReq'[s].phase = phase
        /\ appReq'[s].plan = q.plan /\ appReq'[s].pay = q.pay
        /\ appReq[s].phase = "idle" /\ doubt' \in BOOLEAN
        /\ ~doubt' => ~doubt /\ ~lost /\ OthersIdle(s)
    BY <1>t, <1>s, Started
  <2>2. Held(s)'
    BY <1>s, <2>1 DEF Held, Rows
  <2> QED
    BY <1>s, <2>1, <2>2, OnlyRead
<1>1. ASSUME ReadForBusiness(s) PROVE AppInv'
  <2> DEFINE phase == IF app.linked THEN "derive" ELSE "checked"
  <2>1. /\ Start(s, "business", phase, NoRequest, FALSE) /\ UNCHANGED Rows
        /\ phase \in {"derive", "checked"}
        /\ phase = "derive" => app.stage \in Wizard
    BY <1>1, GatesOfWizard DEF ReadForBusiness
  <2> HIDE DEF phase
  <2>2. phase \in AppPhase /\ "business" \in AllAppOps
    BY <1>p, <2>1
  <2>3. appReq'[s].op = "business" /\ appReq'[s].phase = phase
    BY <1>t, <1>f, <2>1, <2>2
  <2>4. Serving(s)'
    BY <2>1, <2>3 DEF Serving, Rows, Paying
  <2>5. phase \notin Paying \cup {"documents", "row"}
    BY <2>1 DEF Paying
  <2> QED
    BY <1>s, <1>t, <2>1, <2>2, <2>4, <2>5
<1>2. ASSUME ReadForUpload(s) PROVE AppInv'
  <2>1. /\ Start(s, "upload", "checked", NoRequest, FALSE) /\ UNCHANGED Rows
        /\ app.stage \in Wizard
    BY <1>2, GatesOfWizard DEF ReadForUpload
  <2>2. appReq'[s].op = "upload" /\ appReq'[s].phase = "checked"
    BY <1>t, <2>1, <1>p, <1>f
  <2>3. Serving(s)'
    BY <2>1, <2>2 DEF Serving, Rows, Paying
  <2> QED
    BY <1>s, <1>t, <2>1, <2>3, <1>p DEF Paying
<1>3. ASSUME ReadForLegal(s) PROVE AppInv'
  <2>1. /\ Start(s, "legal", "checked", NoRequest, FALSE) /\ UNCHANGED Rows
        /\ app.stage \in Wizard
    BY <1>3, GatesOfWizard DEF ReadForLegal
  <2>2. appReq'[s].op = "legal" /\ appReq'[s].phase = "checked"
    BY <1>t, <2>1, <1>p, <1>f
  <2>3. Serving(s)'
    BY <2>1, <2>2 DEF Serving, Rows, Paying
  <2> QED
    BY <1>s, <1>t, <2>1, <2>3, <1>p DEF Paying
<1>4. ASSUME ReadForPlan(s) PROVE AppInv'
  <2> DEFINE lost(p) == \E k \in DOMAIN pays : pays[k].plan # p
  <2>1. UNCHANGED Rows /\ app.stage \in Wizard
    BY <1>4, GatesOfWizard DEF ReadForPlan
  <2>2. PICK p \in Plan : Start(s, "plan", "checked", [NoRequest EXCEPT !.plan = p], lost(p))
    BY <1>4 DEF ReadForPlan
  <2> DEFINE q == [NoRequest EXCEPT !.plan = p]
  <2>3. q \in AppRequest /\ q.plan = p /\ lost(p) \in BOOLEAN
    BY <1>t DEF AppRequest
  <2>4. ~lost(p) => \A k \in DOMAIN pays : pays[k].plan = p
    OBVIOUS
  <2>5. Start(s, "plan", "checked", q, lost(p))
    BY <2>2
  <2> HIDE DEF q, lost
  <2>6. appReq'[s].op = "plan" /\ appReq'[s].phase = "checked" /\ appReq'[s].plan = p
    BY <1>t, <1>p, <2>3, <2>5, Started
  <2>7. ~lost(p) => Serving(s)'
    BY <2>1, <2>4, <2>6 DEF Serving, Rows, Paying
  <2> QED
    BY <1>s, <2>1, <2>3, <2>5, <2>7, <1>p DEF Paying
<1>5. ASSUME ReadForSubmit(s) PROVE AppInv'
  <2>1. /\ Start(s, "submit", "checked", NoRequest, FALSE) /\ UNCHANGED Rows
        /\ ~app.active
    BY <1>5 DEF ReadForSubmit
  <2>2. appReq'[s].op = "submit" /\ appReq'[s].phase = "checked"
    BY <1>t, <2>1, <1>p, <1>f
  <2>3. Serving(s)'
    BY <2>1, <2>2 DEF Serving, Rows, Paying
  <2> QED
    BY <1>s, <1>t, <2>1, <2>3, <1>p DEF Paying
<1>6. ASSUME ReadForQuick(s) PROVE AppInv'
  <2>1. UNCHANGED Rows
    BY <1>6 DEF ReadForQuick
  <2>2. PICK p \in Plan : Start(s, "quick", "checked", [NoRequest EXCEPT !.plan = p], FALSE)
    BY <1>6 DEF ReadForQuick
  <2> DEFINE q == [NoRequest EXCEPT !.plan = p]
  <2>3. q \in AppRequest
    BY <1>t
  <2>4. Start(s, "quick", "checked", q, FALSE)
    BY <2>2
  <2> HIDE DEF q
  <2>5. appReq'[s].op = "quick" /\ appReq'[s].phase = "checked"
    BY <1>t, <2>3, <2>4, <1>p, <1>f
  <2>6. Serving(s)'
    BY <2>1, <2>5 DEF Serving, Rows, Paying
  <2> QED
    BY <1>s, <2>1, <2>3, <2>4, <2>6, <1>p DEF Paying
<1>7. ASSUME ReadForCheckout(s) PROVE AppInv'
  <2> DEFINE q == [NoRequest EXCEPT !.plan = appSub.plan]
  <2>1. /\ Start(s, "checkout", "checked", q, FALSE) /\ UNCHANGED Rows
        /\ app.stage \in Wizard /\ appSub.plan # NoPlan
    BY <1>7, GatesOfWizard DEF ReadForCheckout
  <2>2. appSub.plan \in Plan /\ q \in AppRequest /\ q.plan = appSub.plan
    BY <1>t, <2>1 DEF AppTypeOK, AppSubRow, AppRequest
  <2> HIDE DEF q
  <2>3. /\ appReq'[s].op = "checkout" /\ appReq'[s].phase = "checked"
        /\ appReq'[s].plan = appSub.plan
    BY <1>t, <2>1, <2>2, <1>p, <1>f
  <2>4. Serving(s)'
    BY <2>1, <2>3 DEF Serving, Rows, Paying
  <2> QED
    BY <1>s, <2>1, <2>2, <2>4, <1>p DEF Paying
<1>8. ASSUME ReadForVerify(s) PROVE AppInv'
  <2>1. UNCHANGED Rows
    BY <1>8 DEF ReadForVerify
  <2>2. PICK op \in {"verify", "captured"}, k \in DOMAIN pays :
          Start(s, op, "checked", [NoRequest EXCEPT !.pay = k], Late)
    BY <1>8 DEF ReadForVerify
  <2> DEFINE q == [NoRequest EXCEPT !.pay = k]
  <2>3. k \in 0..MaxPays
    BY <1>t, AppBoundAssumption DEF AppTypeOK
  <2>4. q \in AppRequest /\ q.pay = k
    BY <1>t, <2>3 DEF AppRequest
  <2>5. Start(s, op, "checked", q, Late) /\ Late \in BOOLEAN
    BY <2>2 DEF Late
  <2>6. ~Late => app.stage \in Wizard
    BY DEF Late, Wizard
  <2> HIDE DEF q
  <2>7. appReq'[s].op = op /\ appReq'[s].phase = "checked"
    BY <1>t, <1>p, <2>4, <2>5, Started
  <2>8. ~Late => Serving(s)'
    BY <2>1, <2>6, <2>7 DEF Serving, Rows, Paying
  <2> QED
    BY <1>s, <2>1, <2>4, <2>5, <2>8, <1>p DEF Paying
<1>9. ASSUME ReadForMark(s) PROVE AppInv'
  <2> DEFINE q == [NoRequest EXCEPT !.plan = appSub.plan]
  <2>1. /\ Start(s, "mark", "checked", q, FALSE) /\ UNCHANGED Rows
        /\ ~app.active /\ appSub.plan # NoPlan
    BY <1>9 DEF ReadForMark
  <2>2. appSub.plan \in Plan /\ q \in AppRequest /\ q.plan = appSub.plan
    BY <1>t, <2>1 DEF AppTypeOK, AppSubRow, AppRequest
  <2> HIDE DEF q
  <2>3. /\ appReq'[s].op = "mark" /\ appReq'[s].phase = "checked"
        /\ appReq'[s].plan = appSub.plan
    BY <1>t, <2>1, <2>2, <1>p, <1>f
  <2>4. Serving(s)'
    BY <2>1, <2>3 DEF Serving, Rows, Paying
  <2> QED
    BY <1>s, <2>1, <2>2, <2>4, <1>p DEF Paying
<1>10. ASSUME ReadForApprove(s) PROVE AppInv'
  <2>1. /\ Start(s, "approve", "provision", NoRequest, FALSE) /\ UNCHANGED Rows
    BY <1>10 DEF ReadForApprove
  <2>2. appReq'[s].op = "approve" /\ appReq'[s].phase = "provision"
    BY <1>t, <2>1, <1>p, <1>f
  <2>3. Serving(s)'
    BY <2>1, <2>2 DEF Serving, Rows, Paying
  <2> QED
    BY <1>s, <1>t, <2>1, <2>3, <1>p DEF Paying
<1>11. ASSUME ReadForApproveManual(s) PROVE AppInv'
  <2>1. /\ Start(s, "approveManual", "provision", NoRequest, FALSE) /\ UNCHANGED Rows
    BY <1>11 DEF ReadForApproveManual
  <2>2. appReq'[s].op = "approveManual" /\ appReq'[s].phase = "provision"
    BY <1>t, <2>1, <1>p, <1>f
  <2>3. Serving(s)'
    BY <2>1, <2>2 DEF Serving, Rows, Paying
  <2> QED
    BY <1>s, <1>t, <2>1, <2>3, <1>p DEF Paying
<1>12. ASSUME ReadForReject(s) PROVE AppInv'
  <2>1. UNCHANGED Rows /\ ~app.active
    BY <1>12 DEF ReadForReject, CanReject
  <2>2. PICK op \in {"reject", "rejectManual"} : Start(s, op, "checked", NoRequest, FALSE)
    BY <1>12 DEF ReadForReject
  <2>3. appReq'[s].op = op /\ appReq'[s].phase = "checked"
    BY <1>t, <2>2, <1>p, <1>f
  <2>4. Serving(s)'
    BY <2>1, <2>3 DEF Serving, Rows, Paying
  <2> QED
    BY <1>s, <1>t, <2>1, <2>2, <2>4, <1>p DEF Paying
<1>13. ASSUME ReadForExpiry(s) PROVE AppInv'
  <2>1. /\ Start(s, "expire", "checked", NoRequest, FALSE) /\ UNCHANGED Rows
        /\ ~app.active
    BY <1>13 DEF ReadForExpiry, Expirable
  <2>2. appReq'[s].op = "expire" /\ appReq'[s].phase = "checked"
    BY <1>t, <2>1, <1>p, <1>f
  <2>3. Serving(s)'
    BY <2>1, <2>2 DEF Serving, Rows, Paying
  <2> QED
    BY <1>s, <1>t, <2>1, <2>3, <1>p DEF Paying
<1> QED
  BY <1>1, <1>2, <1>3, <1>4, <1>5, <1>6, <1>7, <1>8, <1>9, <1>10, <1>11, <1>12, <1>13
LEMMA DerivedStage ==
  ASSUME AppTypeOK
  PROVE  /\ deriveStage \in Stage
         /\ ~app.active /\ ~app.schema => deriveStage \in Wizard \cup {"UNDER_REVIEW"}
<1>1. /\ docs \in {"none", "valid", "rejected"}
      /\ pays # <<>> => pays[Len(pays)].status \in {"CREATED", "PAID", "FAILED"}
  <2>1. pays \in Seq(AppPayRow)
    BY DEF AppTypeOK
  <2>2. ASSUME pays # <<>> PROVE pays[Len(pays)] \in AppPayRow
    <3>1. Len(pays) # 0
      BY <2>1, <2>2, EmptySeq
    <3>2. Len(pays) \in 1..Len(pays)
      BY <2>1, <3>1, LenProperties
    <3> QED
      BY <2>1, <3>2, ElementOfSeq
  <2> QED
    BY <2>2 DEF AppTypeOK, AppPayRow
<1> QED
  BY <1>1 DEF deriveStage, Stage, Wizard, Manual, Terminal, Reviewing

\* One request at a time: whoever is at work is alone, and finds what it found before.
LEMMA AtWork ==
  ASSUME AppInv, NEW s \in Session, appReq[s].phase # "idle", ~doubt
  PROVE  OthersIdle(s) /\ RowsInv /\ MarkedInv /\ Serving(s)
<1> QED
  BY NobodyElse DEF AppInv, SoberApp

LEMMA MovingSteps ==
  ASSUME AppInv, NEW s \in Session,
         \/ Derive(s) \/ AfterFailure(s) \/ ReadForProvision(s) \/ VerifyDocuments(s)
         \/ Die(s)
  PROVE  AppInv'
<1>t. AppTypeOK /\ doubt \in BOOLEAN /\ Held(s)
  BY DEF AppInv, AppTypeOK, MoneyInv
<1>p. {"checked", "derive", "provision", "begin", "approved"} \subseteq AppPhase
  BY DEF AppPhase
\* an answer is never wrong
<1>a. ASSUME Respond(s), UNCHANGED Rows, appReq[s].phase # "idle", doubt' \in BOOLEAN,
             ~doubt' => ~doubt /\ appReq[s].phase # "row"
      PROVE  AppInv'
  <2>1. Only(s) /\ appReq'[s].phase = "idle"
    BY <1>t, <1>a, Answered
  <2>2. Held(s)' /\ Serving(s)'
    BY <2>1, <1>a, Answered, <1>t DEF Held, Serving, Paying, NoRequest
  <2>3. ~doubt' => OthersIdle(s)
    BY <1>a, AtWork
  <2> QED
    BY <1>a, <2>1, <2>2, <2>3, OnlyRead
<1>g. ASSUME NEW phase \in AppPhase, Goto(s, phase), UNCHANGED <<Rows, doubt>>,
             appReq[s].phase \notin {"idle", "row"}, Held(s)', ~doubt => Serving(s)'
      PROVE  AppInv'
  <2>1. Only(s)
    BY <1>t, <1>g, Moved
  <2>2. ~doubt' => ~doubt /\ OthersIdle(s) /\ appReq[s].phase # "row" /\ Serving(s)'
    BY <1>g, AtWork
  <2>3. UNCHANGED Rows /\ doubt' \in BOOLEAN
    BY <1>t, <1>g
  <2> QED
    BY <1>g, <2>1, <2>2, <2>3, OnlyRead
<1>m. ASSUME NEW stage \in Stage, ToStamp(s, stage), UNCHANGED <<Rows, doubt>>,
             appReq[s].phase \notin {"idle", "row"},
             ~doubt => app.stage \in Wizard /\ stage \in Wizard \cup {"UNDER_REVIEW"}
      PROVE  AppInv'
  <2>1. Only(s) /\ appReq'[s].phase = "stamp" /\ appReq'[s].stage = stage
    BY <1>t, <1>m, Stamping
  <2>2. UNCHANGED Rows /\ doubt' \in BOOLEAN /\ doubt' = doubt
    BY <1>t, <1>m
  <2>3. Held(s)'
    BY <2>1 DEF Held, Paying
  <2>4. ~doubt => Serving(s)'
    BY <1>m, <2>1, <2>2 DEF Serving, Paying, Rows
  <2>5. ~doubt' => ~doubt /\ OthersIdle(s) /\ appReq[s].phase # "row" /\ Serving(s)'
    BY <1>m, <2>2, <2>4, AtWork
  <2> QED
    BY <2>1, <2>2, <2>3, <2>5, OnlyRead
<1>1. ASSUME Derive(s) PROVE AppInv'
  <2>1. appReq[s].phase = "derive" /\ UNCHANGED <<Rows, doubt>>
    BY <1>1 DEF Derive
  <2>2. CASE Respond(s)
    BY <1>a, <1>t, <2>1, <2>2
  <2>3. CASE ToStamp(s, deriveStage)
    <3>1. ~doubt => app.stage \in Wizard /\ deriveStage \in Wizard \cup {"UNDER_REVIEW"}
      BY <1>t, <2>1, AtWork, DerivedStage, WizardIsEarly DEF Serving
    <3>2. deriveStage \in Stage
      BY <1>t, DerivedStage
    <3> QED
      BY <1>m, <2>1, <2>3, <3>1, <3>2
  <2> QED
    BY <1>1, <2>2, <2>3 DEF Derive
<1>2. ASSUME AfterFailure(s) PROVE AppInv'
  <2>1. appReq[s].phase = "event" /\ UNCHANGED <<Rows, doubt>>
    BY <1>2 DEF AfterFailure, At
  <2>2. CASE Respond(s)
    BY <1>a, <1>t, <2>1, <2>2
  <2>3. CASE ToStamp(s, "PAYMENT_FAILED")
    <3>1. ~doubt => app.stage \in Wizard
      BY <2>1, AtWork DEF Serving
    <3>2. "PAYMENT_FAILED" \in Stage /\ "PAYMENT_FAILED" \in Wizard
      BY DEF Stage, Wizard
    <3> QED
      BY <1>m, <2>1, <2>3, <3>1, <3>2
  <2> QED
    BY <1>2, <2>2, <2>3 DEF AfterFailure
<1>3. ASSUME ReadForProvision(s) PROVE AppInv'
  <2>1. appReq[s].phase = "provision" /\ UNCHANGED <<Rows, doubt>>
    BY <1>3 DEF ReadForProvision
  <2>2. CASE Respond(s)
    BY <1>a, <1>t, <2>1, <2>2
  <2>3. CASE AlreadyActive /\ Goto(s, "approved")
    <3>1. appReq'[s].phase = "approved"
      BY <1>t, <1>p, <2>3, Moved
    <3>2. app'.active
      BY <2>1, <2>3 DEF AlreadyActive, Rows
    <3>3. Held(s)' /\ Serving(s)'
      BY <3>1, <3>2 DEF Held, Serving, Paying
    <3> QED
      BY <1>g, <1>p, <2>1, <2>3, <3>3
  <2>4. CASE /\ ~AlreadyActive /\ appSub.plan # NoPlan /\ HasPaid
             /\ appReq' = [appReq EXCEPT ![s].phase = "begin", ![s].plan = appSub.plan]
    <3>1. appSub.plan \in Plan /\ appReq \in [Session -> AppRequest]
      BY <1>t, <2>4 DEF AppTypeOK, AppSubRow
    <3>2. /\ Only(s) /\ appReq'[s].phase = "begin" /\ appReq'[s].plan = appSub.plan
          /\ appReq'[s].op = appReq[s].op
      BY <2>4, <3>1, ZenonT(60) DEF Only, AppRequest
    <3>3. UNCHANGED <<app, appSub, pays, received>> /\ HasPaid' /\ UNCHANGED Rows
      BY <2>1, <2>4 DEF Rows, HasPaid
    <3>4. received
      BY <2>4 DEF AppInv, MoneyInv
    <3>5. Held(s)'
      BY <3>1, <3>2, <3>3, <3>4 DEF Held, Paying
    <3>6. ~doubt => ~app.active
      BY <2>1, <2>4, AtWork DEF AlreadyActive, RowsInv
    <3>7. ~doubt => Serving(s)'
      BY <3>2, <3>3, <3>6 DEF Serving, Paying
    <3>8. ~doubt' => ~doubt /\ OthersIdle(s) /\ appReq[s].phase # "row" /\ Serving(s)'
      BY <2>1, <3>7, AtWork
    <3> QED
      BY <1>t, <2>1, <3>2, <3>3, <3>5, <3>8, OnlyRead
  <2> QED
    BY <1>3, <2>2, <2>3, <2>4 DEF ReadForProvision
<1>4. ASSUME VerifyDocuments(s) PROVE AppInv'
  <2>1. appReq[s].phase = "documents" /\ UNCHANGED <<Rows, doubt>>
    BY <1>4 DEF VerifyDocuments
  <2>2. CASE Respond(s)
    BY <1>a, <1>t, <2>1, <2>2
  <2>3. CASE Goto(s, "approved")
    <3>1. appReq'[s].phase = "approved"
      BY <1>t, <1>p, <2>3, Moved
    <3>2. ~doubt => app'.active
      BY <2>1, AtWork DEF Serving, Rows
    <3>3. Held(s)' /\ (~doubt => Serving(s)')
      BY <3>1, <3>2 DEF Held, Serving, Paying
    <3> QED
      BY <1>g, <1>p, <2>1, <2>3, <3>3
  <2> QED
    BY <1>4, <2>2, <2>3 DEF VerifyDocuments
<1>5. ASSUME Die(s) PROVE AppInv'
  <2>1. /\ appReq[s].phase # "idle" /\ Respond(s) /\ UNCHANGED Rows
        /\ doubt' = (doubt \/ appReq[s].phase = "row")
    BY <1>5 DEF Die
  <2> QED
    BY <1>a, <1>t, <2>1
<1> QED
  BY <1>1, <1>2, <1>3, <1>4, <1>5
-----------------------------------------------------------------------------
(* The steps that write the Restaurant row *)

\* What is left to show of a step of the request at work that writes the row only.
LEMMA RowWritten ==
  ASSUME AppInv, NEW s \in Session, appReq[s].phase # "idle", Only(s), app' \in AppRow,
         UNCHANGED <<docs, legal, appSub, pays, created, auto, doubt, received>>,
         app'.schema \/ app'.active => received,
         Held(s)',
         ~doubt =>
           /\ app'.active <=> appSub.status = "ACTIVE"
           /\ app'.active =>
                app'.schema /\ app'.stage \in {"ACTIVE", "MANUAL_APPROVED", "UNDER_REVIEW"}
           /\ app'.stage \in {"ACTIVE", "MANUAL_APPROVED"} => app'.active
           /\ app'.schema => app'.stage \notin Wizard
           /\ created # <<>> => app'.active
           /\ app'.stage = "MANUAL_PAYMENT_RECEIVED" =>
                app.stage = "MANUAL_PAYMENT_RECEIVED" /\ appReq[s].phase # "row"
           /\ Serving(s)'
  PROVE  AppInv'
<1>1. HasPaid' <=> HasPaid
  BY DEF HasPaid
<1>2. HasPaid' => received'
  BY <1>1 DEF AppInv, MoneyInv
<1>3. NothingUnpaid'
  BY DEF AppInv, MoneyInv, NothingUnpaid
<1>4. ASSUME ~doubt' PROVE ~doubt /\ OthersIdle(s) /\ RowsInv' /\ MarkedInv' /\ Serving(s)'
  <2>1. ~doubt /\ OthersIdle(s) /\ RowsInv /\ MarkedInv
    BY <1>4, AtWork
  <2>2. RowsInv'
    BY <2>1 DEF RowsInv
  <2>3. MarkedInv'
    BY <1>1, <2>1 DEF MarkedInv, OthersIdle, Only
  <2> QED
    BY <2>1, <2>2, <2>3
<1>5. /\ docs' \in {"none", "valid", "rejected"} /\ legal' \in BOOLEAN
      /\ appSub' \in AppSubRow /\ pays' \in Seq(AppPayRow) /\ Len(pays') <= MaxPays
      /\ created' \in Seq(Plan) /\ Len(created') <= MaxCreated /\ auto' \in BOOLEAN
      /\ received' \in BOOLEAN /\ doubt' \in BOOLEAN
  BY DEF AppInv, AppTypeOK
<1>6. received => received'
  OBVIOUS
<1>7. DOMAIN pays \subseteq DOMAIN pays'
  OBVIOUS
<1> QED
  BY <1>2, <1>3, <1>4, <1>5, <1>6, <1>7, ServedOne

\* A step of the wizard or of the Super Admin that leaves the row inactive and with
\* the tenant it had.
LEMMA RowKeptInactive ==
  ASSUME AppInv, NEW s \in Session, appReq[s].phase # "idle", Only(s), app' \in AppRow,
         UNCHANGED <<docs, legal, appSub, pays, created, auto, doubt, received>>,
         app'.schema = app.schema,
         app'.active => app.active,
         Held(s)',
         ~doubt =>
           /\ app'.active <=> app.active
           /\ \/ app'.stage = app.stage
              \/ /\ app'.active => app'.stage = "UNDER_REVIEW"
                 /\ app'.stage \notin {"ACTIVE", "MANUAL_APPROVED", "MANUAL_PAYMENT_RECEIVED"}
                 /\ app.schema => app'.stage \notin Wizard
           /\ appReq[s].phase # "row"
           /\ Serving(s)'
  PROVE  AppInv'
<1>1. app'.schema \/ app'.active => received
  BY DEF AppInv, MoneyInv, NothingUnpaid
<1>2. ASSUME ~doubt
      PROVE  /\ app'.active <=> appSub.status = "ACTIVE"
             /\ app'.active =>
                  app'.schema /\ app'.stage \in {"ACTIVE", "MANUAL_APPROVED", "UNDER_REVIEW"}
             /\ app'.stage \in {"ACTIVE", "MANUAL_APPROVED"} => app'.active
             /\ app'.schema => app'.stage \notin Wizard
             /\ created # <<>> => app'.active
             /\ app'.stage = "MANUAL_PAYMENT_RECEIVED" =>
                  app.stage = "MANUAL_PAYMENT_RECEIVED" /\ appReq[s].phase # "row"
             /\ Serving(s)'
  <2>1. RowsInv
    BY <1>2, AtWork
  <2> QED
    BY <1>2, <2>1 DEF RowsInv
<1> QED
  BY <1>1, <1>2, RowWritten

LEMMA RowSteps ==
  ASSUME AppInv, NEW s \in Session,
         \/ CreateRow(s) \/ Link(s) \/ Stamp(s) \/ Freeze(s) \/ CreateQuick(s)
         \/ finishVerifiedPayment(s) \/ ProvisionFails(s) \/ TurnDown(s) \/ Expire(s)
         \/ Begin(s) \/ CreateSchema(s) \/ Approved(s)
  PROVE  AppInv'
<1>t. AppTypeOK /\ app \in AppRow /\ appReq[s] \in AppRequest /\ Held(s)
  BY DEF AppInv, AppTypeOK, MoneyInv
<1>p. {"link", "subscribe", "derive", "provision", "ddl", "activate"} \subseteq AppPhase
  BY DEF AppPhase
\* an answered request holds and serves nothing
<1>a. ASSUME Respond(s) PROVE Only(s) /\ Held(s)' /\ Serving(s)'
  <2>1. Only(s) /\ appReq'[s] = NoRequest
    BY <1>t, <1>a, Answered
  <2> QED
    BY <2>1 DEF Held, Serving, Paying, NoRequest
<1>g. ASSUME NEW phase \in AppPhase, Goto(s, phase)
      PROVE  Only(s) /\ appReq'[s].phase = phase /\ appReq'[s].op = appReq[s].op
  BY <1>t, <1>g, Moved
<1>1. ASSUME CreateRow(s) PROVE AppInv'
  <2>1. /\ appReq[s].op = "business" /\ appReq[s].phase = "checked" /\ Goto(s, "link")
        /\ app' = [app EXCEPT !.stage = "DOCUMENTS_PENDING"]
        /\ app.stage = "REGISTERED"
        /\ UNCHANGED <<docs, legal, appSub, pays, created, auto, doubt, received>>
    BY <1>1 DEF CreateRow, At, Exists
  <2>2. Only(s) /\ appReq'[s].phase = "link" /\ appReq'[s].op = "business"
    BY <1>g, <1>p, <2>1
  <2>3. /\ app' \in AppRow /\ app'.stage = "DOCUMENTS_PENDING"
        /\ app'.active = app.active /\ app'.schema = app.schema
    BY <1>t, <2>1 DEF AppRow, Stage, Wizard
  <2>4. Held(s)'
    BY <2>2 DEF Held, Paying
  <2>5. Serving(s)'
    BY <2>2, <2>3 DEF Serving, Paying, Wizard
  <2>6. ~doubt => ~app.active /\ ~app.schema
    BY <2>1, AtWork, WizardIsEarly DEF Wizard
  <2> QED
    BY <2>1, <2>2, <2>3, <2>4, <2>5, <2>6, RowKeptInactive
<1>2. ASSUME Link(s) PROVE AppInv'
  <2> DEFINE phase == IF appReq[s].op = "quick" THEN "subscribe" ELSE "derive"
  <2>1. /\ appReq[s].phase = "link" /\ Goto(s, phase)
        /\ app' = [app EXCEPT !.linked = TRUE]
        /\ UNCHANGED <<docs, legal, appSub, pays, created, auto, doubt, received>>
    BY <1>2 DEF Link
  <2>2. phase \in AppPhase /\ phase \in {"subscribe", "derive"}
        /\ (phase = "derive" => appReq[s].op # "quick")
    BY <1>p
  <2> HIDE DEF phase
  <2>3. Only(s) /\ appReq'[s].phase = phase /\ appReq'[s].op = appReq[s].op
    BY <1>g, <2>1, <2>2
  <2>4. /\ app' \in AppRow /\ app'.stage = app.stage
        /\ app'.active = app.active /\ app'.schema = app.schema
    BY <1>t, <2>1 DEF AppRow
  <2>5. Held(s)'
    BY <2>2, <2>3 DEF Held, Paying
  <2>6. ~doubt => Serving(s)'
    <3>1. ~doubt /\ phase = "derive" => app.stage \in Wizard
      BY <2>1, <2>2, AtWork DEF Serving
    <3> QED
      BY <2>2, <2>3, <2>4, <3>1 DEF Serving, Paying
  <2> QED
    BY <2>1, <2>3, <2>4, <2>5, <2>6, RowKeptInactive
<1>3. ASSUME Stamp(s) PROVE AppInv'
  <2>1. /\ appReq[s].phase = "stamp" /\ Respond(s)
        /\ app' = [app EXCEPT !.stage = appReq[s].stage]
        /\ UNCHANGED <<docs, legal, appSub, pays, created, auto, doubt, received>>
    BY <1>3 DEF Stamp
  <2>2. /\ app' \in AppRow /\ app'.stage = appReq[s].stage
        /\ app'.active = app.active /\ app'.schema = app.schema
    BY <1>t, <2>1 DEF AppRow, AppRequest
  <2>3. ~doubt => /\ ~app.active /\ ~app.schema
                  /\ appReq[s].stage \in Wizard \cup {"UNDER_REVIEW"}
    BY <2>1, AtWork, WizardIsEarly DEF Serving
  <2>4. ~doubt => app'.stage \notin {"ACTIVE", "MANUAL_APPROVED", "MANUAL_PAYMENT_RECEIVED"}
    BY <2>2, <2>3 DEF Wizard
  <2> QED
    BY <1>a, <2>1, <2>2, <2>3, <2>4, RowKeptInactive
<1>4. ASSUME Freeze(s) PROVE AppInv'
  <2>1. /\ appReq[s].op = "submit" /\ appReq[s].phase = "checked" /\ Respond(s)
        /\ app' = [app EXCEPT !.stage = "MANUAL_PENDING", !.active = FALSE,
                              !.due = "ahead", !.told = FALSE]
        /\ UNCHANGED <<docs, legal, appSub, pays, created, auto, doubt, received>>
    BY <1>4 DEF Freeze, At
  <2>2. /\ app' \in AppRow /\ app'.stage = "MANUAL_PENDING"
        /\ app'.active = FALSE /\ app'.schema = app.schema
    BY <1>t, <2>1 DEF AppRow, Stage, Manual
  <2>3. ~doubt => ~app.active
    BY <2>1, AtWork DEF Serving
  <2> QED
    BY <1>a, <2>1, <2>2, <2>3, RowKeptInactive DEF Wizard
<1>5. ASSUME CreateQuick(s) PROVE AppInv'
  <2>1. /\ appReq[s].op = "quick" /\ appReq[s].phase = "checked" /\ Goto(s, "link")
        /\ app' = [app EXCEPT !.stage = "MANUAL_PENDING", !.due = "ahead"]
        /\ app.stage = "REGISTERED"
        /\ UNCHANGED <<docs, legal, appSub, pays, created, auto, doubt, received>>
    BY <1>5 DEF CreateQuick, At, Exists
  <2>2. Only(s) /\ appReq'[s].phase = "link" /\ appReq'[s].op = "quick"
    BY <1>g, <1>p, <2>1
  <2>3. /\ app' \in AppRow /\ app'.stage = "MANUAL_PENDING"
        /\ app'.active = app.active /\ app'.schema = app.schema
    BY <1>t, <2>1 DEF AppRow, Stage, Manual
  <2>4. Held(s)' /\ Serving(s)'
    BY <2>2 DEF Held, Serving, Paying
  <2>5. ~doubt => ~app.active
    BY <2>1, AtWork, WizardIsEarly DEF Wizard
  <2> QED
    BY <2>1, <2>2, <2>3, <2>4, <2>5, RowKeptInactive DEF Wizard
<1>6. ASSUME finishVerifiedPayment(s) PROVE AppInv'
  <2>1. /\ appReq[s].phase = "finish"
        /\ UNCHANGED <<docs, legal, appSub, pays, created, auto, doubt, received>>
    BY <1>6 DEF finishVerifiedPayment
  <2>2. CASE Goto(s, "provision") /\ UNCHANGED app
    <3>1. Only(s) /\ appReq'[s].phase = "provision"
      BY <1>g, <1>p, <2>2
    <3>2. Held(s)' /\ Serving(s)'
      BY <3>1 DEF Held, Serving, Paying
    <3>3. app' \in AppRow /\ app' = app
      BY <1>t, <2>2
    <3>4. appReq[s].phase # "idle" /\ appReq[s].phase # "row"
      BY <2>1
    <3> QED
      BY <2>1, <3>1, <3>2, <3>3, <3>4, RowKeptInactive
  <2>3. CASE app' = [app EXCEPT !.stage = "UNDER_REVIEW"] /\ Respond(s)
    <3>1. /\ app' \in AppRow /\ app'.stage = "UNDER_REVIEW"
          /\ app'.active = app.active /\ app'.schema = app.schema
      BY <1>t, <2>3 DEF AppRow, Stage, Reviewing
    <3> QED
      BY <1>a, <2>1, <2>3, <3>1, RowKeptInactive DEF Wizard
  <2> QED
    BY <1>6, <2>2, <2>3 DEF finishVerifiedPayment
<1>7. ASSUME ProvisionFails(s) PROVE AppInv'
  <2>1. /\ appReq[s].phase \in {"ddl", "activate", "documents"} /\ Respond(s)
        /\ app' = [app EXCEPT !.stage = "UNDER_REVIEW"]
        /\ UNCHANGED <<docs, legal, appSub, pays, created, auto, doubt, received>>
    BY <1>7 DEF ProvisionFails
  <2>2. /\ app' \in AppRow /\ app'.stage = "UNDER_REVIEW"
        /\ app'.active = app.active /\ app'.schema = app.schema
    BY <1>t, <2>1 DEF AppRow, Stage, Reviewing
  <2> QED
    BY <1>a, <2>1, <2>2, RowKeptInactive DEF Wizard
<1>8. ASSUME TurnDown(s) PROVE AppInv'
  <2>1. PICK stage \in {"REJECTED", "MANUAL_REJECTED"} :
          app' = [app EXCEPT !.stage = stage, !.active = FALSE]
    BY <1>8 DEF TurnDown
  <2>2. /\ appReq[s].op \in {"reject", "rejectManual"} /\ appReq[s].phase = "checked"
        /\ Respond(s)
        /\ UNCHANGED <<docs, legal, appSub, pays, created, auto, doubt, received>>
    BY <1>8 DEF TurnDown, At
  <2>3. /\ app' \in AppRow /\ app'.stage = stage
        /\ app'.active = FALSE /\ app'.schema = app.schema
    BY <1>t, <2>1 DEF AppRow, Stage, Manual, Terminal
  <2>4. ~doubt => ~app.active
    BY <2>2, AtWork DEF Serving
  <2> QED
    BY <1>a, <2>2, <2>3, <2>4, RowKeptInactive DEF Wizard
<1>9. ASSUME Expire(s) PROVE AppInv'
  <2>1. /\ appReq[s].op = "expire" /\ appReq[s].phase = "checked" /\ Respond(s)
        /\ app' = [app EXCEPT !.stage = "EXPIRED", !.told = TRUE]
        /\ UNCHANGED <<docs, legal, appSub, pays, created, auto, doubt, received>>
    BY <1>9 DEF Expire, At
  <2>2. /\ app' \in AppRow /\ app'.stage = "EXPIRED"
        /\ app'.active = app.active /\ app'.schema = app.schema
    BY <1>t, <2>1 DEF AppRow, Stage, Terminal
  <2>3. ~doubt => ~app.active
    BY <2>1, AtWork DEF Serving
  <2> QED
    BY <1>a, <2>1, <2>2, <2>3, RowKeptInactive DEF Wizard
<1>10. ASSUME Begin(s) PROVE AppInv'
  <2>1. /\ appReq[s].phase = "begin" /\ Goto(s, "ddl")
        /\ app' = [app EXCEPT !.stage = "PROVISIONING", !.active = FALSE]
        /\ UNCHANGED <<docs, legal, appSub, pays, created, auto, doubt, received>>
    BY <1>10 DEF Begin
  <2>2. /\ Only(s) /\ appReq'[s].phase = "ddl" /\ appReq'[s].op = appReq[s].op
        /\ appReq'[s].plan = appReq[s].plan
    BY <1>t, <1>p, <2>1, Moved
  <2>3. /\ app' \in AppRow /\ app'.stage = "PROVISIONING"
        /\ app'.active = FALSE /\ app'.schema = app.schema
    BY <1>t, <2>1 DEF AppRow, Stage, Reviewing
  <2>4. Held(s)'
    BY <1>t, <2>1, <2>2 DEF Held, Paying
  <2>5. ~doubt => ~app.active /\ HasPaid /\ appReq[s].plan = appSub.plan
    BY <2>1, AtWork DEF Serving, Paying
  <2>6. ~doubt => Serving(s)'
    BY <2>1, <2>2, <2>3, <2>5 DEF Serving, Paying, Wizard, HasPaid
  <2> QED
    BY <2>1, <2>2, <2>3, <2>4, <2>5, <2>6, RowKeptInactive DEF Wizard
<1>11. ASSUME CreateSchema(s) PROVE AppInv'
  <2>1. /\ appReq[s].phase = "ddl" /\ Goto(s, "activate")
        /\ app' = [app EXCEPT !.schema = TRUE]
        /\ UNCHANGED <<docs, legal, appSub, pays, created, auto, doubt, received>>
    BY <1>11 DEF CreateSchema
  <2>2. /\ Only(s) /\ appReq'[s].phase = "activate" /\ appReq'[s].op = appReq[s].op
        /\ appReq'[s].plan = appReq[s].plan
    BY <1>t, <1>p, <2>1, Moved
  <2>3. /\ app' \in AppRow /\ app'.stage = app.stage
        /\ app'.active = app.active /\ app'.schema
    BY <1>t, <2>1 DEF AppRow
  <2>4. received
    BY <1>t, <2>1 DEF Held, Paying
  <2>5. Held(s)'
    BY <1>t, <2>1, <2>2 DEF Held, Paying
  <2>6. ASSUME ~doubt
        PROVE  /\ ~app.active /\ HasPaid /\ appReq[s].plan = appSub.plan
               /\ app.stage \notin Wizard /\ RowsInv
    BY <2>1, <2>6, AtWork DEF Serving, Paying
  <2>7. ~doubt => Serving(s)'
    BY <2>1, <2>2, <2>3, <2>6 DEF Serving, Paying, HasPaid
  <2>8. ASSUME ~doubt
        PROVE  /\ app'.active <=> appSub.status = "ACTIVE"
               /\ ~app'.active
               /\ app'.stage \in {"ACTIVE", "MANUAL_APPROVED"} => app'.active
               /\ app'.stage \notin Wizard
               /\ created # <<>> => app'.active
    BY <2>3, <2>6, <2>8 DEF RowsInv
  <2> QED
    BY <2>1, <2>2, <2>3, <2>4, <2>5, <2>7, <2>8, RowWritten
<1>12. ASSUME Approved(s) PROVE AppInv'
  <2>1. /\ appReq[s].phase = "approved" /\ Respond(s)
        /\ app' = [app EXCEPT !.stage = "MANUAL_APPROVED", !.due = "none", !.told = FALSE]
        /\ UNCHANGED <<docs, legal, appSub, pays, created, auto, doubt, received>>
    BY <1>12 DEF Approved
  <2>2. /\ app' \in AppRow /\ app'.stage = "MANUAL_APPROVED"
        /\ app'.active = app.active /\ app'.schema = app.schema
    BY <1>t, <2>1 DEF AppRow, Stage, Manual
  <2>3. app'.schema \/ app'.active => received
    BY <2>2 DEF AppInv, MoneyInv, NothingUnpaid
  <2>4. ASSUME ~doubt
        PROVE  /\ app'.active <=> appSub.status = "ACTIVE"
               /\ app'.active /\ app'.schema
    BY <2>1, <2>2, <2>4, AtWork DEF Serving, RowsInv
  <2> QED
    BY <1>a, <2>1, <2>2, <2>3, <2>4, RowWritten DEF Wizard
<1> QED
  BY <1>1, <1>2, <1>3, <1>4, <1>5, <1>6, <1>7, <1>8, <1>9, <1>10, <1>11, <1>12
-----------------------------------------------------------------------------
(* Papers, plans and payments *)

LEMMA PaymentSet ==
  ASSUME AppTypeOK, NEW k \in DOMAIN pays, NEW status \in {"CREATED", "PAID", "FAILED"},
         pays' = [pays EXCEPT ![k].status = status]
  PROVE  /\ pays' \in Seq(AppPayRow) /\ Len(pays') = Len(pays) /\ DOMAIN pays' = DOMAIN pays
         /\ pays'[k].status = status
         /\ \A j \in DOMAIN pays : pays'[j].plan = pays[j].plan
         /\ \A j \in DOMAIN pays \ {k} : pays'[j] = pays[j]
<1> DEFINE row == [pays[k] EXCEPT !.status = status]
<1>1. pays \in Seq(AppPayRow) /\ DOMAIN pays = 1..Len(pays) /\ k \in 1..Len(pays)
  BY LenProperties DEF AppTypeOK
<1>2. pays[k] \in AppPayRow
  BY <1>1, ElementOfSeq
<1>3. row \in AppPayRow /\ row.status = status /\ row.plan = pays[k].plan
  BY <1>2 DEF AppPayRow
<1>4. pays' = [pays EXCEPT ![k] = row]
  OBVIOUS
<1> HIDE DEF row
<1>5. /\ pays' \in Seq(AppPayRow) /\ Len(pays') = Len(pays)
      /\ \A j \in 1..Len(pays) : pays'[j] = IF j = k THEN row ELSE pays[j]
  BY <1>1, <1>3, <1>4, ExceptSeq
<1>6. DOMAIN pays' = 1..Len(pays')
  BY <1>5, LenProperties
<1> QED
  BY <1>1, <1>3, <1>5, <1>6

LEMMA PaymentAdded ==
  ASSUME AppTypeOK, Len(pays) < MaxPays, NEW p \in Plan,
         NEW status \in {"CREATED", "PAID", "FAILED"},
         pays' = Append(pays, [plan |-> p, status |-> status])
  PROVE  /\ pays' \in Seq(AppPayRow) /\ Len(pays') <= MaxPays
         /\ DOMAIN pays \subseteq DOMAIN pays'
         /\ \A j \in DOMAIN pays : pays'[j] = pays[j]
         /\ \E k \in DOMAIN pays' :
              /\ pays'[k] = [plan |-> p, status |-> status]
              /\ DOMAIN pays' = DOMAIN pays \cup {k}
<1> DEFINE row == [plan |-> p, status |-> status]
<1>1. pays \in Seq(AppPayRow) /\ DOMAIN pays = 1..Len(pays) /\ Len(pays) \in Nat
  BY LenProperties DEF AppTypeOK
<1>2. row \in AppPayRow
  BY DEF AppPayRow
<1> HIDE DEF row
<1>3. pays' = Append(pays, row)
  BY DEF row
<1>4. /\ pays' \in Seq(AppPayRow) /\ Len(pays') = Len(pays) + 1
      /\ \A i \in 1..Len(pays) : pays'[i] = pays[i]
      /\ pays'[Len(pays) + 1] = row
  BY <1>1, <1>2, <1>3, AppendProperties
<1>5. DOMAIN pays' = 1..Len(pays')
  BY <1>4, LenProperties
<1>6. DOMAIN pays' = DOMAIN pays \cup {Len(pays) + 1} /\ Len(pays) + 1 \in DOMAIN pays'
  BY <1>1, <1>4, <1>5
<1>7. Len(pays') <= MaxPays
  BY <1>1, <1>4, AppBoundAssumption
<1>8. \A j \in DOMAIN pays : pays'[j] = pays[j]
  BY <1>1, <1>4
<1> QED
  BY <1>4, <1>6, <1>7, <1>8 DEF row

LEMMA PaperSteps ==
  ASSUME AppInv, NEW s \in Session, Upload(s) \/ Accept(s)
  PROVE  AppInv'
<1>1. /\ appReq[s].op \in {"upload", "legal"} /\ appReq[s].phase = "checked"
      /\ Goto(s, "derive")
      /\ docs' \in {docs, "valid"} /\ legal' \in {legal, TRUE}
      /\ UNCHANGED <<app, appSub, pays, created, auto, doubt, received>>
  BY DEF Upload, Accept, At
<1>2. Only(s) /\ appReq'[s].phase = "derive"
  BY <1>1, Moved DEF AppInv, AppPhase
<1>3. HasPaid' <=> HasPaid
  BY <1>1 DEF HasPaid
<1>4. Held(s)'
  BY <1>2 DEF Held, Paying
<1>5. HasPaid' => received'
  BY <1>1, <1>3 DEF AppInv, MoneyInv
<1>6. NothingUnpaid'
  BY <1>1 DEF AppInv, MoneyInv, NothingUnpaid
<1>7. ASSUME ~doubt' PROVE ~doubt /\ OthersIdle(s) /\ RowsInv' /\ MarkedInv' /\ Serving(s)'
  <2>1. ~doubt /\ OthersIdle(s) /\ RowsInv /\ MarkedInv /\ app.stage \in Wizard
    BY <1>1, <1>7, AtWork DEF Serving
  <2>2. RowsInv'
    BY <1>1, <2>1 DEF RowsInv
  <2>3. MarkedInv'
    BY <1>1, <2>1 DEF MarkedInv, Wizard
  <2>4. Serving(s)'
    BY <1>1, <1>2, <2>1 DEF Serving, Paying
  <2> QED
    BY <2>1, <2>2, <2>3, <2>4
<1>8. /\ app' \in AppRow /\ docs' \in {"none", "valid", "rejected"} /\ legal' \in BOOLEAN
      /\ appSub' \in AppSubRow /\ pays' \in Seq(AppPayRow) /\ Len(pays') <= MaxPays
      /\ created' \in Seq(Plan) /\ Len(created') <= MaxCreated /\ auto' \in BOOLEAN
      /\ received' \in BOOLEAN /\ doubt' \in BOOLEAN
  BY <1>1 DEF AppInv, AppTypeOK
<1>9. (received => received') /\ DOMAIN pays \subseteq DOMAIN pays'
  BY <1>1
<1> QED
  BY <1>2, <1>4, <1>5, <1>6, <1>7, <1>8, <1>9, ServedOne

LEMMA PlanSteps ==
  ASSUME AppInv, NEW s \in Session, SelectPlan(s) \/ Subscribe(s)
  PROVE  AppInv'
<1>0. AppTypeOK /\ appReq[s] \in AppRequest
  BY DEF AppInv, AppTypeOK
<1>1. /\ appReq[s].phase \in {"checked", "subscribe"}
      /\ appSub' = [plan |-> appReq[s].plan, status |-> "PENDING_PAYMENT"]
      /\ UNCHANGED <<app, docs, legal, pays, created, auto, doubt, received>>
  BY DEF SelectPlan, Subscribe, At
<1>2. appSub' \in AppSubRow /\ appSub'.plan = appReq[s].plan /\ appSub'.status # "ACTIVE"
  BY <1>0, <1>1 DEF AppSubRow, AppRequest
<1>3. \/ Only(s) /\ appReq'[s].phase = "idle"
      \/ /\ Only(s) /\ appReq'[s].phase = "stamp" /\ appReq'[s].stage = "PLAN_SELECTED"
         /\ appReq[s].op = "plan" /\ appReq[s].phase = "checked"
  <2>1. "PLAN_SELECTED" \in Stage
    BY DEF Stage, Wizard
  <2>2. CASE SelectPlan(s)
    BY <1>0, <2>1, <2>2, Stamping DEF SelectPlan, At
  <2>3. CASE Subscribe(s)
    BY <1>0, <2>3, Answered DEF Subscribe
  <2> QED
    BY <2>2, <2>3
<1>4. HasPaid' <=> HasPaid
  BY <1>1 DEF HasPaid
<1>5. Held(s)'
  BY <1>3 DEF Held, Paying
<1>6. HasPaid' => received'
  BY <1>1, <1>4 DEF AppInv, MoneyInv
<1>7. NothingUnpaid'
  BY <1>1 DEF AppInv, MoneyInv, NothingUnpaid
<1>8. ASSUME ~doubt' PROVE ~doubt /\ OthersIdle(s) /\ RowsInv' /\ MarkedInv' /\ Serving(s)'
  <2>1. ~doubt /\ OthersIdle(s) /\ RowsInv /\ MarkedInv /\ Serving(s)
    BY <1>1, <1>8, AtWork
  <2>2. appSub.status # "ACTIVE" /\ \A k \in DOMAIN pays : pays[k].plan = appReq[s].plan
    <3>1. CASE SelectPlan(s)
      <4>1. app.stage \in Wizard /\ \A k \in DOMAIN pays : pays[k].plan = appReq[s].plan
        BY <2>1, <3>1 DEF SelectPlan, At, Serving
      <4> QED
        BY <2>1, <4>1, WizardIsEarly DEF RowsInv
    <3>2. CASE Subscribe(s)
      <4>1. appSub.plan = NoPlan
        BY <3>2 DEF Subscribe
      <4>2. \A k \in DOMAIN pays : pays[k].plan \in Plan
        <5> SUFFICES ASSUME NEW k \in DOMAIN pays PROVE pays[k].plan \in Plan
          OBVIOUS
        <5>1. pays \in Seq(AppPayRow) /\ k \in 1..Len(pays)
          BY <1>0, LenProperties DEF AppTypeOK
        <5>2. pays[k] \in AppPayRow
          BY <5>1, ElementOfSeq
        <5> QED
          BY <5>2 DEF AppPayRow
      <4>3. DOMAIN pays = {}
        BY <2>1, <4>1, <4>2, AppPlanAssumption DEF RowsInv
      <4>4. appSub.status # "ACTIVE"
        BY <2>1, <4>1 DEF RowsInv
      <4> QED
        BY <4>3, <4>4
    <3> QED
      BY <3>1, <3>2
  <2>3. RowsInv'
    BY <1>1, <1>2, <2>1, <2>2 DEF RowsInv
  <2>4. appReq[s].phase # "row"
    BY <1>1
  <2>5. MarkedInv'
    BY <1>1, <1>4, <2>1, <2>4 DEF MarkedInv, OthersIdle
  <2>6. Serving(s)'
    BY <1>1, <1>3, <2>1 DEF Serving, Paying, Wizard
  <2> QED
    BY <2>1, <2>3, <2>5, <2>6
<1>9. /\ app' \in AppRow /\ docs' \in {"none", "valid", "rejected"} /\ legal' \in BOOLEAN
      /\ pays' \in Seq(AppPayRow) /\ Len(pays') <= MaxPays
      /\ created' \in Seq(Plan) /\ Len(created') <= MaxCreated /\ auto' \in BOOLEAN
      /\ received' \in BOOLEAN /\ doubt' \in BOOLEAN
  BY <1>1 DEF AppInv, AppTypeOK
<1>10. (received => received') /\ DOMAIN pays \subseteq DOMAIN pays' /\ Only(s)
  BY <1>1, <1>3
<1> QED
  BY <1>2, <1>5, <1>6, <1>7, <1>8, <1>9, <1>10, ServedOne
\* A payment of an application still in the wizard changes its state.
LEMMA WizardPays ==
  ASSUME RowsInv, MarkedInv, app.stage \in Wizard, UNCHANGED <<app, appSub, created>>,
         \A k \in DOMAIN pays' : pays'[k].plan = appSub.plan
  PROVE  RowsInv' /\ MarkedInv'
<1>1. created = <<>> /\ ~app.active /\ ~app.schema
  BY WizardIsEarly
<1>2. RowsInv'
  BY <1>1 DEF RowsInv
<1>3. MarkedInv'
  BY DEF MarkedInv, Wizard
<1> QED
  BY <1>2, <1>3

LEMMA PaySteps ==
  ASSUME AppInv, NEW s \in Session,
         \/ CreateCheckout(s) \/ ClaimPayment(s) \/ RefuseSignature(s) \/ PaymentFailed(s)
  PROVE  AppInv'
<1>t. AppTypeOK /\ appReq[s] \in AppRequest /\ Held(s) /\ (HasPaid => received)
      /\ doubt \in BOOLEAN /\ received \in BOOLEAN
  BY DEF AppInv, AppTypeOK, MoneyInv
\* what all of them leave alone
<1>u. ASSUME UNCHANGED <<app, docs, legal, appSub, created, auto>>, Only(s), doubt' \in BOOLEAN,
             received' \in BOOLEAN, received => received',
             pays' \in Seq(AppPayRow), Len(pays') <= MaxPays, DOMAIN pays \subseteq DOMAIN pays',
             HasPaid' => received', Held(s)',
             ~doubt' => /\ ~doubt /\ OthersIdle(s) /\ app.stage \in Wizard
                        /\ \A k \in DOMAIN pays' : pays'[k].plan = appSub.plan
                        /\ RowsInv /\ MarkedInv /\ Serving(s)'
      PROVE  AppInv'
  <2>1. NothingUnpaid'
    BY <1>u DEF AppInv, MoneyInv, NothingUnpaid
  <2>2. ~doubt' => RowsInv' /\ MarkedInv'
    BY <1>u, WizardPays
  <2>3. /\ app' \in AppRow /\ docs' \in {"none", "valid", "rejected"} /\ legal' \in BOOLEAN
        /\ appSub' \in AppSubRow
        /\ created' \in Seq(Plan) /\ Len(created') <= MaxCreated /\ auto' \in BOOLEAN
    BY <1>t, <1>u DEF AppTypeOK
  <2> QED
    BY <1>u, <2>1, <2>2, <2>3, ServedOne
<1>1. ASSUME CreateCheckout(s) PROVE AppInv'
  <2>1. /\ appReq[s].op = "checkout" /\ appReq[s].phase = "checked"
        /\ Len(pays) < MaxPays
        /\ pays' = Append(pays, [plan |-> appReq[s].plan, status |-> "CREATED"])
        /\ ToStamp(s, "PAYMENT_PENDING")
        /\ UNCHANGED <<app, docs, legal, appSub, created, auto, doubt, received>>
    BY <1>1 DEF CreateCheckout, At
  <2>2. appReq[s].plan \in Plan
    BY <1>t, <2>1 DEF Held
  <2>3. /\ pays' \in Seq(AppPayRow) /\ Len(pays') <= MaxPays
        /\ DOMAIN pays \subseteq DOMAIN pays'
        /\ \A j \in DOMAIN pays : pays'[j] = pays[j]
    BY <1>t, <2>1, <2>2, PaymentAdded
  <2>4. PICK k \in DOMAIN pays' :
          /\ pays'[k] = [plan |-> appReq[s].plan, status |-> "CREATED"]
          /\ DOMAIN pays' = DOMAIN pays \cup {k}
    BY <1>t, <2>1, <2>2, PaymentAdded
  <2>5. HasPaid' => received'
    BY <1>t, <2>1, <2>3, <2>4 DEF HasPaid
  <2>6. "PAYMENT_PENDING" \in Stage /\ "PAYMENT_PENDING" \in Wizard
    BY DEF Stage, Wizard
  <2>7. Only(s) /\ appReq'[s].phase = "stamp" /\ appReq'[s].stage = "PAYMENT_PENDING"
    BY <1>t, <2>1, <2>6, Stamping
  <2>8. Held(s)'
    BY <2>7 DEF Held, Paying
  <2>9. ASSUME ~doubt'
        PROVE  /\ ~doubt /\ OthersIdle(s) /\ app.stage \in Wizard
               /\ \A j \in DOMAIN pays' : pays'[j].plan = appSub.plan
               /\ RowsInv /\ MarkedInv /\ Serving(s)'
    <3>1. /\ ~doubt /\ OthersIdle(s) /\ RowsInv /\ MarkedInv /\ app.stage \in Wizard
          /\ appReq[s].plan = appSub.plan
      BY <2>1, <2>9, AtWork DEF Serving
    <3>2. \A j \in DOMAIN pays' : pays'[j].plan = appSub.plan
      BY <2>3, <2>4, <3>1 DEF RowsInv
    <3>3. Serving(s)'
      BY <2>1, <2>6, <2>7, <3>1 DEF Serving, Paying
    <3> QED
      BY <3>1, <3>2, <3>3
  <2> QED
    BY <1>t, <1>u, <2>1, <2>3, <2>5, <2>7, <2>8, <2>9
<1>2. ASSUME ClaimPayment(s) PROVE AppInv'
  <2> DEFINE k == appReq[s].pay
  <2>1. /\ appReq[s].op \in {"verify", "captured"} /\ appReq[s].phase = "checked"
        /\ pays' = [pays EXCEPT ![k].status = "PAID"]
        /\ received' = TRUE /\ Goto(s, "finish")
        /\ UNCHANGED <<app, docs, legal, appSub, created, auto, doubt>>
    BY <1>2 DEF ClaimPayment, At
  <2>2. k \in DOMAIN pays
    BY <1>t, <2>1 DEF Held
  <2> HIDE DEF k
  <2>3. /\ pays' \in Seq(AppPayRow) /\ Len(pays') = Len(pays) /\ DOMAIN pays' = DOMAIN pays
        /\ \A j \in DOMAIN pays : pays'[j].plan = pays[j].plan
    BY <1>t, <2>1, <2>2, PaymentSet
  <2>4. Only(s) /\ appReq'[s].phase = "finish" /\ "finish" \in AppPhase
    BY <1>t, <2>1, Moved DEF AppPhase
  <2>5. Held(s)'
    BY <2>4 DEF Held, Paying
  <2>6. Serving(s)'
    BY <2>4 DEF Serving, Paying
  <2>7. ASSUME ~doubt'
        PROVE  /\ ~doubt /\ OthersIdle(s) /\ app.stage \in Wizard
               /\ \A j \in DOMAIN pays' : pays'[j].plan = appSub.plan
               /\ RowsInv /\ MarkedInv
    <3>1. ~doubt /\ OthersIdle(s) /\ RowsInv /\ MarkedInv /\ app.stage \in Wizard
      BY <2>1, <2>7, AtWork DEF Serving
    <3> QED
      BY <2>3, <3>1 DEF RowsInv
  <2>8. Len(pays') <= MaxPays /\ received' \in BOOLEAN /\ doubt' \in BOOLEAN
    BY <1>t, <2>1, <2>3 DEF AppTypeOK
  <2> QED
    BY <1>u, <2>1, <2>3, <2>4, <2>5, <2>6, <2>7, <2>8
<1>3. ASSUME RefuseSignature(s) PROVE AppInv'
  <2> DEFINE k == appReq[s].pay
  <2>1. /\ appReq[s].op = "verify" /\ appReq[s].phase = "checked"
        /\ pays' = [pays EXCEPT ![k].status = "FAILED"]
        /\ ToStamp(s, "PAYMENT_FAILED")
        /\ UNCHANGED <<app, docs, legal, appSub, created, auto, doubt, received>>
    BY <1>3 DEF RefuseSignature, At
  <2>2. k \in DOMAIN pays
    BY <1>t, <2>1 DEF Held
  <2> HIDE DEF k
  <2>3. /\ pays' \in Seq(AppPayRow) /\ Len(pays') = Len(pays) /\ DOMAIN pays' = DOMAIN pays
        /\ pays'[k].status = "FAILED"
        /\ \A j \in DOMAIN pays : pays'[j].plan = pays[j].plan
        /\ \A j \in DOMAIN pays \ {k} : pays'[j] = pays[j]
    BY <1>t, <2>1, <2>2, PaymentSet
  <2>4. HasPaid' => received'
    BY <1>t, <2>1, <2>3 DEF HasPaid
  <2>5. "PAYMENT_FAILED" \in Stage /\ "PAYMENT_FAILED" \in Wizard
    BY DEF Stage, Wizard
  <2>6. Only(s) /\ appReq'[s].phase = "stamp" /\ appReq'[s].stage = "PAYMENT_FAILED"
    BY <1>t, <2>1, <2>5, Stamping
  <2>7. Held(s)'
    BY <2>6 DEF Held, Paying
  <2>8. ASSUME ~doubt'
        PROVE  /\ ~doubt /\ OthersIdle(s) /\ app.stage \in Wizard
               /\ \A j \in DOMAIN pays' : pays'[j].plan = appSub.plan
               /\ RowsInv /\ MarkedInv /\ Serving(s)'
    <3>1. ~doubt /\ OthersIdle(s) /\ RowsInv /\ MarkedInv /\ app.stage \in Wizard
      BY <2>1, <2>8, AtWork DEF Serving
    <3>2. \A j \in DOMAIN pays' : pays'[j].plan = appSub.plan
      BY <2>3, <3>1 DEF RowsInv
    <3>3. Serving(s)'
      BY <2>1, <2>5, <2>6, <3>1 DEF Serving, Paying
    <3> QED
      BY <3>1, <3>2, <3>3
  <2>9. Len(pays') <= MaxPays
    BY <1>t, <2>3 DEF AppTypeOK
  <2> QED
    BY <1>t, <1>u, <2>1, <2>3, <2>4, <2>6, <2>7, <2>8, <2>9
<1>4. ASSUME PaymentFailed(s) PROVE AppInv'
  <2>1. PICK k \in DOMAIN pays : /\ Start(s, "failed", "event", NoRequest, Late)
                                 /\ pays' = [pays EXCEPT ![k].status = "FAILED"]
    BY <1>4 DEF PaymentFailed
  <2>2. UNCHANGED <<app, docs, legal, appSub, created, auto, received>>
    BY <1>4 DEF PaymentFailed
  <2>3. /\ pays' \in Seq(AppPayRow) /\ Len(pays') = Len(pays) /\ DOMAIN pays' = DOMAIN pays
        /\ pays'[k].status = "FAILED"
        /\ \A j \in DOMAIN pays : pays'[j].plan = pays[j].plan
        /\ \A j \in DOMAIN pays \ {k} : pays'[j] = pays[j]
    BY <1>t, <2>1, PaymentSet
  <2>4. HasPaid' => received'
    BY <1>t, <2>2, <2>3 DEF HasPaid
  <2>5. "failed" \in AllAppOps /\ "event" \in AppPhase /\ Late \in BOOLEAN
    BY DEF AllAppOps, AppPhase, Late
  <2>6. /\ Only(s) /\ appReq'[s].op = "failed" /\ appReq'[s].phase = "event"
        /\ doubt' \in BOOLEAN
        /\ ~doubt' => ~doubt /\ ~Late /\ OthersIdle(s)
    BY <1>t, <2>1, <2>5, NoRequestType, Started
  <2>7. Held(s)'
    BY <2>6 DEF Held, Paying
  <2>8. ASSUME ~doubt'
        PROVE  /\ ~doubt /\ OthersIdle(s) /\ app.stage \in Wizard
               /\ \A j \in DOMAIN pays' : pays'[j].plan = appSub.plan
               /\ RowsInv /\ MarkedInv /\ Serving(s)'
    <3>1. ~doubt /\ OthersIdle(s) /\ RowsInv /\ MarkedInv /\ app.stage \in Wizard
      BY <2>6, <2>8 DEF Late, Wizard, AppInv, SoberApp
    <3>2. \A j \in DOMAIN pays' : pays'[j].plan = appSub.plan
      BY <2>3, <3>1 DEF RowsInv
    <3>3. Serving(s)'
      BY <2>2, <2>6, <3>1 DEF Serving, Paying
    <3> QED
      BY <3>1, <3>2, <3>3
  <2>9. Len(pays') <= MaxPays /\ received' = received /\ received' \in BOOLEAN
    BY <1>t, <2>2, <2>3 DEF AppTypeOK
  <2> QED
    BY <1>u, <2>2, <2>3, <2>4, <2>6, <2>7, <2>8, <2>9
<1> QED
  BY <1>1, <1>2, <1>3, <1>4

LEMMA MarkSteps ==
  ASSUME AppInv, NEW s \in Session, MarkStage(s) \/ MarkPayment(s)
  PROVE  AppInv'
<1>t. AppTypeOK /\ Held(s) /\ (HasPaid => received) /\ doubt \in BOOLEAN
  BY DEF AppInv, AppTypeOK, MoneyInv
<1>1. ASSUME MarkStage(s) PROVE AppInv'
  <2>1. /\ appReq[s].op = "mark" /\ appReq[s].phase = "checked" /\ Goto(s, "row")
        /\ app' = [app EXCEPT !.stage = "MANUAL_PAYMENT_RECEIVED"]
        /\ received' = TRUE
        /\ UNCHANGED <<docs, legal, appSub, pays, created, auto, doubt>>
    BY <1>1 DEF MarkStage, At
  <2>2. /\ Only(s) /\ appReq'[s].phase = "row" /\ appReq'[s].op = "mark"
        /\ appReq'[s].plan = appReq[s].plan
    BY <1>t, <2>1, Moved DEF AppPhase
  <2>3. /\ app' \in AppRow /\ app'.stage = "MANUAL_PAYMENT_RECEIVED"
        /\ app'.active = app.active /\ app'.schema = app.schema
    BY <1>t, <2>1 DEF AppTypeOK, AppRow, Stage, Manual
  <2>4. Held(s)'
    BY <1>t, <2>1, <2>2 DEF Held, Paying
  <2>5. NothingUnpaid'
    BY <2>1 DEF NothingUnpaid
  <2>6. ASSUME ~doubt'
        PROVE  ~doubt /\ OthersIdle(s) /\ RowsInv' /\ MarkedInv' /\ Serving(s)'
    <3>1. /\ ~doubt /\ OthersIdle(s) /\ RowsInv /\ ~app.active
          /\ appReq[s].plan = appSub.plan
      BY <2>1, <2>6, AtWork DEF Serving
    <3>2. RowsInv'
      BY <2>1, <2>3, <3>1 DEF RowsInv, Wizard
    <3>3. MarkedInv'
      BY <2>2 DEF MarkedInv
    <3>4. Serving(s)'
      BY <2>1, <2>2, <3>1 DEF Serving, Paying
    <3> QED
      BY <3>1, <3>2, <3>3, <3>4
  <2>7. /\ docs' \in {"none", "valid", "rejected"} /\ legal' \in BOOLEAN
        /\ appSub' \in AppSubRow /\ pays' \in Seq(AppPayRow) /\ Len(pays') <= MaxPays
        /\ created' \in Seq(Plan) /\ Len(created') <= MaxCreated /\ auto' \in BOOLEAN
        /\ received' \in BOOLEAN /\ doubt' \in BOOLEAN
    BY <1>t, <2>1 DEF AppTypeOK
  <2>8. (received => received') /\ (HasPaid' => received') /\ DOMAIN pays \subseteq DOMAIN pays'
    BY <2>1
  <2> QED
    BY <2>2, <2>3, <2>4, <2>5, <2>6, <2>7, <2>8, ServedOne
<1>2. ASSUME MarkPayment(s) PROVE AppInv'
  <2>1. /\ appReq[s].op = "mark" /\ appReq[s].phase = "row" /\ Respond(s)
        /\ UNCHANGED <<app, docs, legal, appSub, created, auto, doubt, received>>
    BY <1>2 DEF MarkPayment, At
  <2>2. appReq[s].plan \in Plan /\ received
    BY <1>t, <2>1 DEF Held
  <2>3. Only(s) /\ appReq'[s].phase = "idle"
    BY <1>t, <2>1, Answered
  <2>4. /\ pays' \in Seq(AppPayRow) /\ Len(pays') <= MaxPays
        /\ DOMAIN pays \subseteq DOMAIN pays'
        /\ \A j \in DOMAIN pays : pays'[j] = pays[j]
        /\ \A j \in DOMAIN pays' \ DOMAIN pays : pays'[j].plan = appReq[s].plan
        /\ \E k \in DOMAIN pays' : pays'[k].status = "PAID"
    <3>1. CASE HasPaid /\ UNCHANGED pays
      <4>1. pays' \in Seq(AppPayRow) /\ Len(pays') <= MaxPays
        BY <1>t, <3>1 DEF AppTypeOK
      <4>2. \E k \in DOMAIN pays' : pays'[k].status = "PAID"
        BY <3>1 DEF HasPaid
      <4> QED
        BY <3>1, <4>1, <4>2
    <3>2. CASE /\ Len(pays) < MaxPays
               /\ pays' = Append(pays, [plan |-> appReq[s].plan, status |-> "PAID"])
      <4>1. PICK k \in DOMAIN pays' :
              /\ pays'[k] = [plan |-> appReq[s].plan, status |-> "PAID"]
              /\ DOMAIN pays' = DOMAIN pays \cup {k}
        BY <1>t, <2>2, <3>2, PaymentAdded
      <4>2. /\ pays' \in Seq(AppPayRow) /\ Len(pays') <= MaxPays
            /\ DOMAIN pays \subseteq DOMAIN pays'
            /\ \A j \in DOMAIN pays : pays'[j] = pays[j]
        BY <1>t, <2>2, <3>2, PaymentAdded
      <4> QED
        BY <4>1, <4>2
    <3> QED
      BY <1>2, <3>1, <3>2 DEF MarkPayment
  <2>5. Held(s)' /\ Serving(s)'
    BY <2>3 DEF Held, Serving, Paying
  <2>6. NothingUnpaid' /\ (HasPaid' => received')
    BY <2>1, <2>2 DEF NothingUnpaid
  <2>7. ASSUME ~doubt' PROVE ~doubt /\ OthersIdle(s) /\ RowsInv' /\ MarkedInv'
    <3>1. ~doubt /\ OthersIdle(s) /\ RowsInv /\ appReq[s].plan = appSub.plan
      BY <2>1, <2>7, AtWork DEF Serving
    <3>2. \A k \in DOMAIN pays' : pays'[k].plan = appSub.plan
      BY <2>4, <3>1 DEF RowsInv
    <3>3. \A k \in DOMAIN created :
            \E p \in DOMAIN pays' : pays'[p] = [plan |-> created[k], status |-> "PAID"]
      BY <2>4, <3>1 DEF RowsInv
    <3>4. RowsInv'
      BY <2>1, <3>1, <3>2, <3>3 DEF RowsInv
    <3>5. MarkedInv'
      BY <2>4 DEF MarkedInv, HasPaid
    <3> QED
      BY <3>1, <3>4, <3>5
  <2>8. /\ app' \in AppRow /\ docs' \in {"none", "valid", "rejected"} /\ legal' \in BOOLEAN
        /\ appSub' \in AppSubRow
        /\ created' \in Seq(Plan) /\ Len(created') <= MaxCreated /\ auto' \in BOOLEAN
        /\ received' \in BOOLEAN /\ doubt' \in BOOLEAN /\ (received => received')
    BY <1>t, <2>1 DEF AppTypeOK
  <2> QED
    BY <2>3, <2>4, <2>5, <2>6, <2>7, <2>8, ServedOne
<1> QED
  BY <1>1, <1>2
\* The one step that activates: the plan it read is that of the payments, one of
\* which is paid, and nothing was activated before.
LEMMA ActivationStep ==
  ASSUME AppInv, NEW s \in Session, ActivateRestaurant(s)
  PROVE  AppInv'
<1>t. AppTypeOK /\ Held(s) /\ (HasPaid => received)
  BY DEF AppInv, MoneyInv
<1> DEFINE p == appReq[s].plan
<1>1. /\ appReq[s].phase = "activate" /\ Len(created) < MaxCreated
      /\ appSub' = [plan |-> p, status |-> "ACTIVE"]
      /\ app' = [app EXCEPT !.active = TRUE, !.stage = "ACTIVE"]
      /\ created' = Append(created, p)
      /\ Goto(s, "documents")
      /\ UNCHANGED <<docs, legal, pays, auto, doubt, received>>
  BY DEF ActivateRestaurant
<1>2. p \in Plan /\ received
  BY <1>t, <1>1 DEF Held, Paying
<1> HIDE DEF p
<1>3. Only(s) /\ appReq'[s].phase = "documents"
  BY <1>t, <1>1, Moved DEF AppPhase
<1>4. /\ app' \in AppRow /\ app'.stage = "ACTIVE" /\ app'.active = TRUE
      /\ app'.schema = app.schema
  BY <1>t, <1>1 DEF AppTypeOK, AppRow, Stage, Reviewing
<1>5. appSub' \in AppSubRow /\ appSub'.plan = p /\ appSub'.status = "ACTIVE"
  BY <1>1, <1>2 DEF AppSubRow
<1>6. /\ created \in Seq(Plan) /\ created' \in Seq(Plan)
      /\ Len(created') = Len(created) + 1 /\ Len(created) \in Nat
      /\ created'[Len(created) + 1] = p
      /\ DOMAIN created' = 1..Len(created')
  <2>1. created \in Seq(Plan)
    BY <1>t DEF AppTypeOK
  <2>2. /\ created' \in Seq(Plan) /\ Len(created') = Len(created) + 1
        /\ created'[Len(created) + 1] = p
    BY <1>1, <1>2, <2>1, AppendProperties
  <2> QED
    BY <2>1, <2>2, LenProperties
<1>7. Len(created') <= MaxCreated
  BY <1>1, <1>6, AppBoundAssumption
<1>8. Held(s)' /\ NothingUnpaid'
  BY <1>1, <1>2, <1>3 DEF Held, Paying, NothingUnpaid
<1>9. ASSUME ~doubt' PROVE ~doubt /\ OthersIdle(s) /\ RowsInv' /\ MarkedInv' /\ Serving(s)'
  <2>1. /\ ~doubt /\ OthersIdle(s) /\ RowsInv /\ HasPaid /\ ~app.active /\ app.schema
        /\ p = appSub.plan
    BY <1>1, <1>9, AtWork DEF Serving, Paying, p
  <2>2. Len(created) = 0
    <3>1. created = <<>>
      BY <2>1 DEF RowsInv
    <3> QED
      BY <3>1, EmptySeq
  <2>3. Len(created') = 1 /\ DOMAIN created' = {1} /\ created'[1] = p
    BY <1>6, <2>2
  <2>4. \E k \in DOMAIN pays : pays[k] = [plan |-> p, status |-> "PAID"]
    <3>1. PICK k \in DOMAIN pays : pays[k].status = "PAID"
      BY <2>1 DEF HasPaid
    <3>2. pays[k].plan = p
      BY <2>1, <3>1 DEF RowsInv
    <3>3. pays[k] \in AppPayRow
      <4>1. pays \in Seq(AppPayRow) /\ k \in 1..Len(pays)
        BY <1>t, LenProperties DEF AppTypeOK
      <4> QED
        BY <4>1, ElementOfSeq
    <3> QED
      BY <3>1, <3>2, <3>3 DEF AppPayRow
  <2>5. appSub'.plan # NoPlan
    BY <1>2, <1>5, AppPlanAssumption
  <2>6. RowsInv'
    <3>1. /\ app'.active <=> appSub'.status = "ACTIVE"
          /\ app'.schema /\ app'.active /\ app'.stage = "ACTIVE"
      BY <1>4, <1>5, <2>1
    <3>2. \A k \in DOMAIN pays' : pays'[k].plan = appSub'.plan
      BY <1>1, <1>5, <2>1 DEF RowsInv
    <3>3. \A k \in DOMAIN created' :
            \E j \in DOMAIN pays' : pays'[j] = [plan |-> created'[k], status |-> "PAID"]
      BY <1>1, <2>3, <2>4
    <3> QED
      BY <2>3, <2>5, <3>1, <3>2, <3>3 DEF RowsInv, Wizard
  <2>7. MarkedInv' /\ Serving(s)'
    BY <1>3, <1>4 DEF MarkedInv, Serving, Paying
  <2> QED
    BY <2>1, <2>6, <2>7
<1>10. /\ docs' \in {"none", "valid", "rejected"} /\ legal' \in BOOLEAN
       /\ pays' \in Seq(AppPayRow) /\ Len(pays') <= MaxPays /\ auto' \in BOOLEAN
       /\ received' \in BOOLEAN /\ doubt' \in BOOLEAN
  BY <1>t, <1>1 DEF AppTypeOK
<1>11. (received => received') /\ (HasPaid' => received') /\ DOMAIN pays \subseteq DOMAIN pays'
  BY <1>1, <1>2
<1> QED
  BY <1>3, <1>4, <1>5, <1>6, <1>7, <1>8, <1>9, <1>10, <1>11, ServedOne

\* Nobody's request: documents reviewed, the mode changed, a day passed.
LEMMA OutsideSteps ==
  ASSUME AppInv, ReviewDocuments \/ setReviewMode \/ TimePasses
  PROVE  AppInv'
<1>1. /\ docs' \in {"none", "valid", "rejected"} /\ auto' \in BOOLEAN
      /\ app' \in AppRow /\ app'.stage = app.stage /\ app'.active = app.active
      /\ app'.schema = app.schema
      /\ UNCHANGED <<legal, appSub, pays, created, appReq, doubt, received>>
  <2>0. AppTypeOK
    BY DEF AppInv
  <2>1. CASE ReviewDocuments
    BY <2>0, <2>1 DEF AppTypeOK, ReviewDocuments
  <2>2. CASE setReviewMode
    BY <2>0, <2>2 DEF AppTypeOK, setReviewMode
  <2>3. CASE TimePasses
    <3>1. app' = [app EXCEPT !.due = "past"]
      BY <2>3 DEF TimePasses
    <3>2. /\ app' \in AppRow /\ app'.stage = app.stage /\ app'.active = app.active
          /\ app'.schema = app.schema
      BY <2>0, <3>1 DEF AppTypeOK, AppRow
    <3> QED
      BY <2>0, <2>3, <3>2 DEF AppTypeOK, TimePasses
  <2> QED
    BY <2>1, <2>2, <2>3
<1>2. AppTypeOK'
  BY <1>1 DEF AppInv, AppTypeOK
<1>3. MoneyInv'
  BY <1>1 DEF AppInv, MoneyInv, HasPaid, NothingUnpaid, Held
<1>4. ASSUME ~doubt' PROVE SoberApp'
  <2>1. SoberApp
    BY <1>1, <1>4 DEF AppInv
  <2>2. AloneInv' /\ RowsInv'
    BY <1>1, <2>1 DEF SoberApp, AloneInv, RowsInv
  <2>3. MarkedInv'
    BY <1>1, <2>1 DEF SoberApp, MarkedInv, HasPaid
  <2>4. \A s \in Session : Serving(s)'
    BY <1>1, <2>1 DEF SoberApp, Serving, HasPaid
  <2> QED
    BY <2>2, <2>3, <2>4 DEF SoberApp
<1> QED
  BY <1>2, <1>3, <1>4 DEF AppInv

LEMMA AppStart == AppInit => AppInv
<1> SUFFICES ASSUME AppInit PROVE AppInv
  OBVIOUS
<1>1. /\ appReq = [s \in Session |-> NoRequest] /\ created = <<>> /\ auto \in BOOLEAN
      /\ doubt = FALSE /\ received = FALSE /\ appReq \in [Session -> AppRequest]
  BY NoRequestType DEF AppInit
<1>2. /\ app \in AppRow /\ app.active = FALSE /\ app.schema = FALSE /\ app.stage \in Wizard
      /\ docs \in {"none", "valid", "rejected"} /\ legal \in BOOLEAN
      /\ appSub \in AppSubRow /\ appSub.status # "ACTIVE"
      /\ pays \in Seq(AppPayRow) /\ Len(pays) <= 1
      /\ ~HasPaid /\ \A k \in DOMAIN pays : pays[k].plan = appSub.plan
  <2>1. NoApp \in AppRow /\ NoApp.active = FALSE /\ NoApp.schema = FALSE
        /\ NoApp.stage \in Wizard
    BY DEF NoApp, AppRow, Stage, Wizard
  <2>2. CASE Fresh
    <3>1. pays = <<>> /\ DOMAIN pays = {}
      BY <2>2 DEF Fresh
    <3>2. pays \in Seq(AppPayRow) /\ Len(pays) <= 1
      BY <3>1, EmptySeq
    <3> QED
      BY <2>1, <2>2, <3>1, <3>2 DEF Fresh, AppSubRow, HasPaid
  <2>3. CASE Legacy
    <3>1. PICK p \in Plan :
            /\ app = [NoApp EXCEPT !.stage = "PAYMENT_PENDING", !.linked = TRUE]
            /\ docs = "valid" /\ legal = TRUE
            /\ appSub = [plan |-> p, status |-> "PENDING_PAYMENT"]
            /\ pays = <<[plan |-> p, status |-> "CREATED"]>>
      BY <2>3 DEF Legacy
    <3>2. /\ app \in AppRow /\ app.active = FALSE /\ app.schema = FALSE
          /\ app.stage \in Wizard
      BY <2>1, <3>1 DEF AppRow, Stage, Wizard
    <3>3. [plan |-> p, status |-> "CREATED"] \in AppPayRow
      BY DEF AppPayRow
    <3>4. /\ pays \in Seq(AppPayRow) /\ DOMAIN pays = {1} /\ Len(pays) <= 1
          /\ pays[1] = [plan |-> p, status |-> "CREATED"]
      BY <3>1, <3>3
    <3>5. ~HasPaid /\ \A k \in DOMAIN pays : pays[k].plan = appSub.plan
      BY <3>1, <3>4 DEF HasPaid
    <3> QED
      BY <3>1, <3>2, <3>4, <3>5 DEF AppSubRow
  <2> QED
    BY <2>2, <2>3 DEF AppInit
<1>3. AppTypeOK
  <2>1. Len(pays) \in Nat /\ Len(pays) <= MaxPays
    BY <1>2, LenProperties, AppBoundAssumption
  <2>2. created \in Seq(Plan) /\ Len(created) <= MaxCreated
    BY <1>1, EmptySeq, AppBoundAssumption
  <2> QED
    BY <1>1, <1>2, <2>1, <2>2 DEF AppTypeOK
<1>4. \A s \in Session : appReq[s] = NoRequest /\ appReq[s].phase = "idle"
  BY <1>1, NoRequestType
<1>5. MoneyInv
  <2>1. \A s \in Session : Held(s)
    BY <1>4 DEF Held, Paying
  <2> QED
    BY <1>1, <1>2, <2>1 DEF MoneyInv, NothingUnpaid
<1>6. SoberApp
  <2>1. AloneInv /\ \A s \in Session : Serving(s)
    BY <1>4 DEF AloneInv, Serving, Paying
  <2>2. RowsInv
    <3>1. Len(created) <= 1 /\ DOMAIN created = {}
      BY <1>1, EmptySeq
    <3> QED
      BY <1>1, <1>2, <3>1 DEF RowsInv, Wizard
  <2>3. MarkedInv
    BY <1>2 DEF MarkedInv, Wizard
  <2> QED
    BY <2>1, <2>2, <2>3 DEF SoberApp
<1> QED
  BY <1>3, <1>5, <1>6 DEF AppInv

LEMMA AppStep == ASSUME AppInv, [AppNext]_appVars PROVE AppInv'
<1>1. ASSUME UNCHANGED appVars PROVE AppInv'
  <2>1. UNCHANGED <<app, docs, legal, appSub, pays, created, auto, appReq, doubt, received>>
    BY <1>1 DEF appVars
  <2>2. AppTypeOK'
    BY <2>1 DEF AppInv, AppTypeOK
  <2>3. MoneyInv'
    BY <2>1 DEF AppInv, MoneyInv, HasPaid, NothingUnpaid, Held
  <2>4. ~doubt' => SoberApp'
    BY <2>1 DEF AppInv, SoberApp, AloneInv, RowsInv, MarkedInv, HasPaid, Serving
  <2> QED
    BY <2>2, <2>3, <2>4 DEF AppInv
<1>2. ASSUME NEW s \in Session, Serve(s) PROVE AppInv'
  BY <1>2, ReadSteps, MovingSteps, RowSteps, PaperSteps, PlanSteps, PaySteps DEF Serve
<1>3. ASSUME NEW s \in Session, Decide(s) PROVE AppInv'
  BY <1>3, ReadSteps, MovingSteps, RowSteps, MarkSteps, ActivationStep DEF Decide
<1> QED
  BY <1>1, <1>2, <1>3, OutsideSteps DEF AppNext

\* What is read off the invariant.
LEMMA AppInvMeans == ASSUME AppInv PROVE OnlyPaidIsActivated /\ StageIsTrue
<1>1. NothingUnpaid
  BY DEF AppInv, MoneyInv
<1>2. PaidPlanIsActivated /\ ActivatedOnce
  BY DEF AppInv, SoberApp, RowsInv, PaidPlanIsActivated, ActivatedOnce
<1>3. StageIsTrue
  <2> SUFFICES ASSUME Quiet, ~doubt
               PROVE  /\ app.active <=> appSub.status = "ACTIVE"
                      /\ app.active => app.schema
                      /\ app.stage \in {"ACTIVE", "MANUAL_APPROVED"} => app.active
                      /\ app.active =>
                           app.stage \in {"ACTIVE", "MANUAL_APPROVED", "UNDER_REVIEW"}
                      /\ app.stage = "MANUAL_PAYMENT_RECEIVED" => HasPaid
    BY DEF StageIsTrue
  <2>1. RowsInv /\ MarkedInv
    BY DEF AppInv, SoberApp
  <2> QED
    BY <2>1 DEF RowsInv, MarkedInv, Quiet
<1> QED
  BY <1>1, <1>2, <1>3 DEF OnlyPaidIsActivated

LEMMA FrozenStep ==
  ASSUME AppInv, [AppNext]_appVars, Submitted, ~doubt'
  PROVE  app'.stage \notin Wizard
<1>0. app \in AppRow /\ app.stage \notin Wizard
  BY DEF AppInv, AppTypeOK, Submitted, Manual, Terminal, Wizard
<1>1. ASSUME NEW s \in Session, Serve(s) PROVE app'.stage \notin Wizard
  <2>1. CASE CreateRow(s)
    BY <1>0, <2>1 DEF CreateRow, Exists, Wizard
  <2>2. CASE Stamp(s)
    <3>1. appReq[s].phase = "stamp" /\ ~doubt
      BY <2>2 DEF Stamp
    <3> QED
      BY <1>0, <3>1, AtWork DEF Serving
  <2>3. CASE Link(s)
    BY <1>0, <2>3 DEF Link, AppRow
  <2>4. CASE Freeze(s)
    <3>1. app' = [app EXCEPT !.stage = "MANUAL_PENDING", !.active = FALSE,
                             !.due = "ahead", !.told = FALSE]
      BY <2>4 DEF Freeze
    <3>2. app'.stage = "MANUAL_PENDING"
      BY <1>0, <3>1 DEF AppRow
    <3> QED
      BY <3>2 DEF Wizard
  <2>5. CASE CreateQuick(s)
    BY <1>0, <2>5 DEF CreateQuick, Exists, Wizard
  <2>6. CASE finishVerifiedPayment(s)
    BY <1>0, <2>6 DEF finishVerifiedPayment, AppRow, Wizard
  <2>7. CASE UNCHANGED app
    BY <1>0, <2>7
  <2>8. \/ UNCHANGED app \/ CreateRow(s) \/ Stamp(s) \/ Link(s) \/ Freeze(s)
        \/ CreateQuick(s) \/ finishVerifiedPayment(s)
    BY <1>1
    DEF Serve, Rows, ReadForBusiness, ReadForUpload, Upload, ReadForLegal, Accept, Derive,
        ReadForPlan, SelectPlan, ReadForSubmit, ReadForQuick, Subscribe, ReadForCheckout,
        CreateCheckout, ReadForVerify, ClaimPayment, RefuseSignature, PaymentFailed,
        AfterFailure
  <2> QED
    BY <2>1, <2>2, <2>3, <2>4, <2>5, <2>6, <2>7, <2>8
<1>2. ASSUME NEW s \in Session, Decide(s) PROVE app'.stage \notin Wizard
  <2>1. ASSUME NEW stage \in {"MANUAL_PAYMENT_RECEIVED", "PROVISIONING", "ACTIVE",
                              "MANUAL_APPROVED", "UNDER_REVIEW", "REJECTED",
                              "MANUAL_REJECTED", "EXPIRED"},
               app'.stage = stage
        PROVE  app'.stage \notin Wizard
    BY <2>1 DEF Wizard
  <2>2. CASE MarkStage(s)
    BY <1>0, <2>1, <2>2 DEF MarkStage, AppRow
  <2>3. CASE Begin(s)
    <3>1. app' = [app EXCEPT !.stage = "PROVISIONING", !.active = FALSE]
      BY <2>3 DEF Begin
    <3> QED
      BY <1>0, <2>1, <3>1 DEF AppRow
  <2>4. CASE CreateSchema(s)
    BY <1>0, <2>4 DEF CreateSchema, AppRow
  <2>5. CASE ActivateRestaurant(s)
    <3>1. app' = [app EXCEPT !.active = TRUE, !.stage = "ACTIVE"]
      BY <2>5 DEF ActivateRestaurant
    <3> QED
      BY <1>0, <2>1, <3>1 DEF AppRow
  <2>6. CASE Approved(s)
    <3>1. app' = [app EXCEPT !.stage = "MANUAL_APPROVED", !.due = "none", !.told = FALSE]
      BY <2>6 DEF Approved
    <3> QED
      BY <1>0, <2>1, <3>1 DEF AppRow
  <2>7. CASE ProvisionFails(s)
    BY <1>0, <2>1, <2>7 DEF ProvisionFails, AppRow
  <2>8. CASE TurnDown(s)
    <3>1. PICK stage \in {"REJECTED", "MANUAL_REJECTED"} :
            app' = [app EXCEPT !.stage = stage, !.active = FALSE]
      BY <2>8 DEF TurnDown
    <3> QED
      BY <1>0, <2>1, <3>1 DEF AppRow
  <2>9. CASE Expire(s)
    <3>1. app' = [app EXCEPT !.stage = "EXPIRED", !.told = TRUE]
      BY <2>9 DEF Expire
    <3> QED
      BY <1>0, <2>1, <3>1 DEF AppRow
  <2>10. CASE UNCHANGED app
    BY <1>0, <2>10
  <2>11. \/ UNCHANGED app \/ MarkStage(s) \/ Begin(s) \/ CreateSchema(s)
         \/ ActivateRestaurant(s) \/ Approved(s) \/ ProvisionFails(s) \/ TurnDown(s)
         \/ Expire(s)
    BY <1>2
    DEF Decide, Rows, ReadForMark, MarkPayment, ReadForApprove, ReadForApproveManual,
        ReadForProvision, VerifyDocuments, ReadForReject, ReadForExpiry, Die
  <2> QED
    BY <2>2, <2>3, <2>4, <2>5, <2>6, <2>7, <2>8, <2>9, <2>10, <2>11
<1>3. ASSUME ReviewDocuments \/ setReviewMode \/ TimePasses \/ UNCHANGED appVars
      PROVE  app'.stage \notin Wizard
  BY <1>0, <1>3 DEF ReviewDocuments, setReviewMode, TimePasses, appVars, AppRow
<1> QED
  BY <1>1, <1>2, <1>3 DEF AppNext

-----------------------------------------------------------------------------

\* For any plans, sessions and payments: the invariant of an application.
THEOREM AppInvariant == AppSpec => []AppInv
<1>1. AppInit => AppInv
  BY AppStart
<1>2. AppInv /\ [AppNext]_appVars => AppInv'
  BY AppStep
<1> QED
  BY <1>1, <1>2, PTL DEF AppSpec

\* For the same: an application is activated once, for the plan that was paid, and never
\* without money, whatever the wizard, the provider's calls, the Super Admin and the
\* documents' reviews do at the same time.
THEOREM OnlyPaidIsActivatedAlways == AppSpec => []OnlyPaidIsActivated
<1>1. AppInv => OnlyPaidIsActivated
  BY AppInvMeans
<1> QED
  BY <1>1, AppInvariant, PTL

\* For the same, while requests come one at a time: the stage that is shown is what the
\* restaurant, its tenant and its subscription are.
THEOREM StageIsTrueAlways == AppSpec => []StageIsTrue
<1>1. AppInv => StageIsTrue
  BY AppInvMeans
<1> QED
  BY <1>1, AppInvariant, PTL

\* For the same: an application that was submitted does not go back into the wizard.
THEOREM FrozenAlways == AppSpec => FrozenStaysFrozen
<1>1. AppInv /\ [AppNext]_appVars => [Submitted /\ ~doubt' => app'.stage \notin Wizard]_appVars
  BY FrozenStep
<1> QED
  BY <1>1, AppInvariant, PTL DEF AppSpec, FrozenStaysFrozen

-----------------------------------------------------------------------------
(* Verification codes *)

OtpCall == [phase : {"idle", "cooldown", "delete", "create", "mail", "undo", "wrong", "right"},
            id : 0..MaxCodes, attempts : 0..MaxTries]

\* A code is one row, issued before the next; what was not issued was not guessed at.
CodesInv ==
  /\ \A q, r \in otpRows : q.id = r.id => q = r
  /\ \A r \in otpRows : r.id < otpNext
  /\ \A c \in Code : c >= otpNext => otpGuesses[c] = 0
  /\ \A s \in OtpSession : otpReq[s].phase = "wrong" => otpReq[s].attempts < MaxTries

\* One request at a time: no other is under way.
Alone ==
  \A s, t \in OtpSession : otpReq[s] # OtpIdle /\ otpReq[t] # OtpIdle => s = t

\* What the one request under way has found or left.
PhaseInv ==
  \A s \in OtpSession :
    /\ otpReq[s].phase = "create" => otpRows = {} /\ otpMailed = 0
    /\ otpReq[s].phase = "mail" =>
         /\ otpMailed = 0
         /\ \E r \in otpRows : r.id = otpReq[s].id
    /\ otpReq[s].phase = "undo" => otpMailed = 0
    /\ otpReq[s].phase = "wrong" =>
         \A r \in otpRows :
           /\ r.id = otpReq[s].id
           /\ r.attempts = otpReq[s].attempts
           /\ otpGuesses[r.id] = r.attempts + 1

\* With no guess under way a code's wrong guesses are the attempts of its row.
CountInv ==
  (\A s \in OtpSession : otpReq[s].phase # "wrong") =>
    \A r \in otpRows : ~r.verified => otpGuesses[r.id] = r.attempts

SoberInv ==
  /\ Alone
  /\ \A q, r \in otpRows : q = r
  /\ \A c \in Code : otpGuesses[c] <= MaxTries
  /\ otpMailed # 0 => \E r \in otpRows : r.id = otpMailed
  /\ PhaseInv
  /\ CountInv

OtpInv == OtpTypeOK /\ CodesInv /\ (~otpDoubt => SoberInv)

-----------------------------------------------------------------------------

LEMMA LargestExists ==
  ASSUME NEW S, IsFiniteSet(S), S \subseteq Nat, S # {}
  PROVE  \E x \in S : \A y \in S : y <= x
<1> DEFINE Above(x) == {y \in S : y > x}
           T == {Above(x) : x \in S}
<1>1. IsWellFoundedOn(StrictSubsetOrdering(S), FiniteSubsetsOf(S))
  BY FS_StrictSubsetOrderingWellFounded
<1>2. T \subseteq FiniteSubsetsOf(S) /\ T # {}
  <2>1. FiniteSubsetsOf(S) = SUBSET S
    BY FS_FiniteSubsetsOfFinite
  <2>2. T \subseteq SUBSET S /\ T # {}
    OBVIOUS
  <2> QED
    BY <2>1, <2>2
<1>3. PICK A \in T : \A B \in T : <<B, A>> \notin StrictSubsetOrdering(S)
  <2> HIDE DEF T
  <2> QED
    BY <1>1, <1>2, WFMin
<1>4. PICK x \in S : A = Above(x)
  OBVIOUS
<1>5. \A y \in S : y <= x
  <2> SUFFICES ASSUME NEW y \in S, y > x
               PROVE  FALSE
    OBVIOUS
  <2>0. x \in Nat /\ y \in Nat
    OBVIOUS
  <2>1. \A z \in S : z \in Nat /\ (z > y => z > x)
    BY <2>0
  <2>2. y \in Above(x) /\ y \notin Above(y) /\ Above(y) \subseteq Above(x)
    <3>1. y \in Above(x) /\ y \notin Above(y)
      BY <2>0
    <3>2. Above(y) \subseteq Above(x)
      BY <2>1
    <3> QED
      BY <3>1, <3>2
  <2>3. <<Above(y), Above(x)>> \in StrictSubsetOrdering(S)
    BY <2>2 DEF StrictSubsetOrdering
  <2> QED
    BY <2>3, <1>3, <1>4
<1> QED
  BY <1>5

LEMMA NewestIsThere ==
  ASSUME NEW rows \in SUBSET OtpRow, rows # {}
  PROVE  Newest(rows) \in rows
<1> DEFINE ids == {r.id : r \in rows}
<1>1. ids \subseteq 1..MaxCodes /\ ids # {}
  BY DEF OtpRow, Code
<1>2. IsFiniteSet(1..MaxCodes)
  BY OtpAssumption, FS_Interval
<1>3. IsFiniteSet(ids) /\ ids \subseteq Nat
  <2> HIDE DEF ids
  <2>1. IsFiniteSet(ids)
    BY <1>1, <1>2, FS_Subset
  <2>2. ids \subseteq Nat
    BY <1>1
  <2> QED
    BY <2>1, <2>2
<1>4. PICK x \in ids : \A y \in ids : y <= x
  <2> HIDE DEF ids
  <2> QED
    BY <1>1, <1>3, LargestExists
<1>5. \E r \in rows : \A q \in rows : q.id <= r.id
  BY <1>4
<1> QED
  BY <1>5 DEF Newest

\* One request goes on: its call changes and nobody else's.
LEMMA OneCall ==
  ASSUME OtpTypeOK, NEW s \in OtpSession, NEW call \in OtpCall,
         otpReq' = [otpReq EXCEPT ![s] = call]
  PROVE  /\ otpReq' \in [OtpSession -> OtpCall]
         /\ otpReq'[s] = call
         /\ \A t \in OtpSession \ {s} : otpReq'[t] = otpReq[t]
<1> QED
  BY DEF OtpTypeOK, OtpCall

LEMMA OtpStart0 == OtpInit => OtpInv
<1> SUFFICES ASSUME OtpInit PROVE OtpInv
  OBVIOUS
<1>1. OtpIdle \in OtpCall
  BY OtpAssumption DEF OtpIdle, OtpCall
<1>2. OtpTypeOK
  <2>1. otpReq \in [OtpSession -> OtpCall]
    BY <1>1 DEF OtpInit
  <2>2. otpGuesses \in [Code -> 0..MaxGuesses]
    BY OtpAssumption DEF OtpInit
  <2>3. otpNext \in 1..(MaxCodes + 1) /\ otpMailed \in 0..MaxCodes
    BY OtpAssumption DEF OtpInit
  <2>4. otpRows \subseteq OtpRow /\ otpDoubt \in BOOLEAN
    BY DEF OtpInit
  <2> QED
    BY <2>1, <2>2, <2>3, <2>4 DEF OtpTypeOK, OtpCall
<1>3. CodesInv
  BY DEF OtpInit, CodesInv, OtpIdle
<1>4. SoberInv
  BY OtpAssumption DEF OtpInit, SoberInv, Alone, PhaseInv, CountInv, OtpIdle
<1> QED
  BY <1>2, <1>3, <1>4 DEF OtpInv

LEMMA OtpStep == ASSUME OtpInv, [OtpNext]_otpVars PROVE OtpInv'
<1> USE OtpAssumption
<1>t. /\ otpRows \subseteq OtpRow /\ otpNext \in 1..(MaxCodes + 1)
      /\ otpReq \in [OtpSession -> OtpCall] /\ otpMailed \in 0..MaxCodes
      /\ otpGuesses \in [Code -> 0..MaxGuesses] /\ otpDoubt \in BOOLEAN
      /\ OtpTypeOK
  BY DEF OtpInv, OtpTypeOK, OtpCall
<1>i. OtpIdle \in OtpCall /\ OtpIdle.phase = "idle"
  BY DEF OtpIdle, OtpCall
<1>0. ASSUME UNCHANGED otpVars PROVE OtpInv'
  BY <1>0 DEF OtpInv, OtpTypeOK, otpVars, CodesInv, SoberInv, Alone, PhaseInv, CountInv
\* what is to be shown of a step of one request
<1>s. ASSUME NEW s \in OtpSession, NEW call \in OtpCall,
             otpReq' = [otpReq EXCEPT ![s] = call],
             otpRows' \subseteq OtpRow, otpNext' \in 1..(MaxCodes + 1),
             otpMailed' \in 0..MaxCodes, otpGuesses' \in [Code -> 0..MaxGuesses],
             otpDoubt' \in BOOLEAN, CodesInv', ~otpDoubt' => SoberInv'
      PROVE  OtpInv'
  BY <1>s, <1>t, OneCall DEF OtpInv, OtpTypeOK, OtpCall
<1>1. ASSUME AgeOtp PROVE OtpInv'
  <2>1. PICK r \in otpRows :
          /\ r.age < 3
          /\ otpRows' = (otpRows \ {r}) \cup {[r EXCEPT !.age = @ + 1]}
    BY <1>1 DEF AgeOtp
  <2> DEFINE o == [r EXCEPT !.age = @ + 1]
  <2>2. /\ o \in OtpRow /\ o.id = r.id /\ o.attempts = r.attempts
        /\ o.verified = r.verified
    BY <1>t, <2>1 DEF OtpRow
  <2> HIDE DEF o
  <2>3. UNCHANGED <<otpNext, otpReq, otpMailed, otpGuesses, otpDoubt>>
    BY <1>1 DEF AgeOtp
  <2>4. otpRows' = (otpRows \ {r}) \cup {o}
    BY <2>1 DEF o
  <2>5. OtpTypeOK'
    BY <1>t, <2>2, <2>3, <2>4 DEF OtpTypeOK
  <2>6. CodesInv'
    BY <1>t, <2>2, <2>3, <2>4 DEF OtpInv, CodesInv
  <2>7. ASSUME ~otpDoubt' PROVE SoberInv'
    <3>1. SoberInv
      BY <2>3, <2>7 DEF OtpInv
    <3>2. Alone' /\ (\A p, q \in otpRows' : p = q) /\ (\A c \in Code : otpGuesses'[c] <= MaxTries)
      BY <2>3, <2>4, <3>1 DEF SoberInv, Alone
    <3>3. otpMailed' # 0 => \E q \in otpRows' : q.id = otpMailed'
      BY <2>2, <2>3, <2>4, <3>1 DEF SoberInv
    <3>4. PhaseInv'
      BY <2>1, <2>2, <2>3, <2>4, <3>1 DEF SoberInv, PhaseInv
    <3>5. CountInv'
      BY <2>2, <2>3, <2>4, <3>1 DEF SoberInv, CountInv
    <3> QED
      BY <3>2, <3>3, <3>4, <3>5 DEF SoberInv
  <2> QED
    BY <2>5, <2>6, <2>7 DEF OtpInv
\* a request that starts knows whether it is alone
<1>2. ASSUME NEW s \in OtpSession, NEW phase, NEW id, NEW attempts,
             OtpStart(s, phase, id, attempts), ~otpDoubt'
      PROVE  /\ SoberInv
             /\ \A t \in OtpSession : otpReq[t] = OtpIdle
  BY <1>2 DEF OtpStart, OtpInv
<1>3. ASSUME NEW s \in OtpSession, recentRequestCount(s) PROVE OtpInv'
  <2> DEFINE call == [phase |-> "cooldown", id |-> 0, attempts |-> 0]
  <2>1. /\ otpReq' = [otpReq EXCEPT ![s] = call] /\ OtpStart(s, "cooldown", 0, 0)
        /\ UNCHANGED <<otpRows, otpNext, otpMailed, otpGuesses>>
        /\ otpDoubt' \in BOOLEAN
    BY <1>3 DEF recentRequestCount, OtpStart
  <2>2. call \in OtpCall /\ call.phase = "cooldown"
    BY DEF OtpCall
  <2> HIDE DEF call
  <2>3. otpReq'[s] = call /\ \A t \in OtpSession \ {s} : otpReq'[t] = otpReq[t]
    BY <1>t, <2>1, <2>2, OneCall
  <2>4. CodesInv'
    BY <2>1, <2>2, <2>3 DEF OtpInv, CodesInv
  <2>5. ASSUME ~otpDoubt' PROVE SoberInv'
    <3>1. SoberInv /\ \A t \in OtpSession : otpReq[t] = OtpIdle
      BY <1>2, <2>1, <2>5
    <3> QED
      BY <2>1, <2>2, <2>3, <3>1, <1>i DEF SoberInv, Alone, PhaseInv, CountInv
  <2> QED
    BY <1>s, <1>t, <2>1, <2>2, <2>4, <2>5
\* a step within the same request
<1>4. ASSUME NEW s \in OtpSession, NEW call \in OtpCall, call # OtpIdle,
             otpReq' = [otpReq EXCEPT ![s] = call], otpReq[s] # OtpIdle, Alone
      PROVE  Alone'
  BY <1>4, <1>t, OneCall DEF Alone
\* once answered, a request that was alone leaves nobody under way
<1>5. ASSUME NEW s \in OtpSession, OtpAnswer(s), otpReq[s] # OtpIdle
      PROVE  /\ otpReq' = [otpReq EXCEPT ![s] = OtpIdle]
             /\ \A t \in OtpSession \ {s} : otpReq'[t] = otpReq[t]
             /\ otpReq'[s] = OtpIdle
             /\ Alone => Alone' /\ \A t \in OtpSession : otpReq'[t] = OtpIdle
  BY <1>5, <1>t, <1>i, OneCall DEF OtpAnswer, Alone
<1>6. ASSUME NEW s \in OtpSession, Cooldown(s) PROVE OtpInv'
  <2>0. /\ otpReq[s].phase = "cooldown" /\ otpReq[s] # OtpIdle
        /\ UNCHANGED <<otpRows, otpNext, otpMailed, otpGuesses, otpDoubt>>
    BY <1>6, <1>i DEF Cooldown
  <2>1. CASE OtpGoto(s, "delete")
    <3> DEFINE call == [otpReq[s] EXCEPT !.phase = "delete"]
    <3>1. call \in OtpCall /\ call.phase = "delete" /\ otpReq' = [otpReq EXCEPT ![s] = call]
      BY <1>t, <2>1 DEF OtpGoto, OtpCall
    <3> HIDE DEF call
    <3>2. otpReq'[s] = call /\ \A t \in OtpSession \ {s} : otpReq'[t] = otpReq[t]
      BY <1>t, <3>1, OneCall
    <3>3. CodesInv'
      BY <2>0, <3>1, <3>2 DEF OtpInv, CodesInv
    <3>4. ASSUME ~otpDoubt' PROVE SoberInv'
      <4>1. SoberInv /\ Alone'
        BY <1>4, <1>i, <2>0, <3>1, <3>4 DEF OtpInv, SoberInv
      <4> QED
        BY <2>0, <3>1, <3>2, <4>1 DEF SoberInv, PhaseInv, CountInv
    <3> QED
      BY <1>s, <1>t, <2>0, <3>1, <3>3, <3>4
  <2>2. CASE OtpAnswer(s)
    <3>1. CodesInv'
      BY <1>5, <1>i, <2>0, <2>2 DEF OtpInv, CodesInv
    <3>2. ASSUME ~otpDoubt' PROVE SoberInv'
      BY <1>5, <1>i, <2>0, <2>2, <3>2 DEF OtpInv, SoberInv, PhaseInv, CountInv
    <3> QED
      BY <1>s, <1>t, <1>5, <1>i, <2>0, <2>2, <3>1, <3>2
  <2> QED
    BY <1>6, <2>1, <2>2 DEF Cooldown
<1>7. ASSUME NEW s \in OtpSession, DeleteRows(s) PROVE OtpInv'
  <2> DEFINE call == [otpReq[s] EXCEPT !.phase = "create"]
  <2>1. call \in OtpCall /\ call.phase = "create" /\ otpReq' = [otpReq EXCEPT ![s] = call]
    BY <1>t, <1>7 DEF DeleteRows, OtpGoto, OtpCall
  <2> HIDE DEF call
  <2>2. otpReq'[s] = call /\ \A t \in OtpSession \ {s} : otpReq'[t] = otpReq[t]
    BY <1>t, <2>1, OneCall
  <2>3. /\ otpReq[s] # OtpIdle /\ otpRows' = {} /\ otpMailed' = 0
        /\ UNCHANGED <<otpNext, otpGuesses, otpDoubt>>
    BY <1>7, <1>i DEF DeleteRows, Cleared
  <2>4. CodesInv' /\ otpMailed' \in 0..MaxCodes /\ otpRows' \subseteq OtpRow
    BY <2>1, <2>2, <2>3 DEF OtpInv, CodesInv
  <2>5. ASSUME ~otpDoubt' PROVE SoberInv'
    <3>1. SoberInv /\ Alone'
      BY <1>4, <1>i, <2>1, <2>3, <2>5 DEF OtpInv, SoberInv
    <3>2. \A t \in OtpSession \ {s} : otpReq'[t].phase = "idle"
      BY <1>i, <2>2, <2>3, <3>1 DEF SoberInv, Alone
    <3> QED
      BY <2>1, <2>2, <2>3, <3>1, <3>2 DEF SoberInv, PhaseInv, CountInv
  <2>6. /\ otpNext' \in 1..(MaxCodes + 1) /\ otpGuesses' \in [Code -> 0..MaxGuesses]
        /\ otpDoubt' \in BOOLEAN
    BY <1>t, <2>3
  <2> QED
    BY <1>s, <2>1, <2>4, <2>5, <2>6
<1>8. ASSUME NEW s \in OtpSession, CreateOtp(s) PROVE OtpInv'
  <2> DEFINE call == [otpReq[s] EXCEPT !.phase = "mail", !.id = otpNext]
             new  == [id |-> otpNext, attempts |-> 0, age |-> 0, verified |-> FALSE]
  <2>1. /\ call \in OtpCall /\ call.phase = "mail" /\ call.id = otpNext
        /\ otpReq' = [otpReq EXCEPT ![s] = call]
    <3>1. otpNext \in 0..MaxCodes /\ otpReq[s] \in OtpCall
      BY <1>t, <1>8 DEF CreateOtp
    <3>2. otpReq' = [otpReq EXCEPT ![s] = call]
      BY <1>t, <1>8 DEF CreateOtp
    <3> QED
      BY <3>1, <3>2 DEF OtpCall
  <2>2. new \in OtpRow /\ new.id = otpNext /\ new.attempts = 0
    BY <1>t, <1>8 DEF CreateOtp, OtpRow, Code
  <2>3. /\ otpReq[s].phase = "create" /\ otpReq[s] # OtpIdle /\ otpRows' = otpRows \cup {new}
        /\ otpNext' = otpNext + 1 /\ otpNext \in Code
        /\ UNCHANGED <<otpMailed, otpGuesses, otpDoubt>>
    BY <1>t, <1>8, <1>i DEF CreateOtp, Issued, Code
  <2> HIDE DEF call, new
  <2>4. otpReq'[s] = call /\ \A t \in OtpSession \ {s} : otpReq'[t] = otpReq[t]
    BY <1>t, <2>1, OneCall
  <2>5. CodesInv'
    <3>1. /\ \A q, r \in otpRows' : q.id = r.id => q = r
          /\ \A r \in otpRows' : r.id < otpNext'
      BY <1>t, <2>2, <2>3 DEF OtpInv, CodesInv, OtpRow, Code
    <3>2. \A c \in Code : c >= otpNext' => otpGuesses'[c] = 0
      BY <1>t, <2>3 DEF OtpInv, CodesInv, Code
    <3> QED
      BY <2>1, <2>4, <3>1, <3>2 DEF OtpInv, CodesInv
  <2>6. ASSUME ~otpDoubt' PROVE SoberInv'
    <3>1. SoberInv /\ Alone'
      BY <1>4, <1>i, <2>1, <2>3, <2>6 DEF OtpInv, SoberInv
    <3>2. \A t \in OtpSession \ {s} : otpReq'[t].phase = "idle"
      BY <1>i, <2>3, <2>4, <3>1 DEF SoberInv, Alone
    <3>3. otpRows = {} /\ otpMailed = 0
      BY <2>3, <3>1 DEF SoberInv, PhaseInv
    <3>4. otpGuesses[otpNext] = 0
      BY <1>t, <2>3 DEF OtpInv, CodesInv
    <3> QED
      BY <2>1, <2>2, <2>3, <2>4, <3>1, <3>2, <3>3, <3>4 DEF SoberInv, PhaseInv, CountInv
  <2>7. otpRows' \subseteq OtpRow /\ otpNext' \in 1..(MaxCodes + 1)
    BY <1>t, <2>2, <2>3 DEF Code
  <2> QED
    BY <1>s, <1>t, <2>1, <2>3, <2>5, <2>6, <2>7
<1>9. ASSUME NEW s \in OtpSession, SendOtpEmail(s) PROVE OtpInv'
  <2>0. /\ otpReq[s].phase = "mail" /\ otpReq[s] # OtpIdle
        /\ UNCHANGED <<otpRows, otpNext, otpGuesses, otpDoubt>>
    BY <1>9, <1>i DEF SendOtpEmail
  <2>1. CASE OtpGoto(s, "undo") /\ UNCHANGED otpMailed
    <3> DEFINE call == [otpReq[s] EXCEPT !.phase = "undo"]
    <3>1. call \in OtpCall /\ call.phase = "undo" /\ otpReq' = [otpReq EXCEPT ![s] = call]
      BY <1>t, <2>1 DEF OtpGoto, OtpCall
    <3> HIDE DEF call
    <3>2. otpReq'[s] = call /\ \A t \in OtpSession \ {s} : otpReq'[t] = otpReq[t]
      BY <1>t, <3>1, OneCall
    <3>3. CodesInv'
      BY <2>0, <3>1, <3>2 DEF OtpInv, CodesInv
    <3>4. ASSUME ~otpDoubt' PROVE SoberInv'
      <4>1. SoberInv /\ Alone'
        BY <1>4, <1>i, <2>0, <3>1, <3>4 DEF OtpInv, SoberInv
      <4> QED
        BY <2>0, <2>1, <3>1, <3>2, <4>1 DEF SoberInv, PhaseInv, CountInv
    <3> QED
      BY <1>s, <1>t, <2>0, <2>1, <3>1, <3>3, <3>4
  <2>2. CASE OtpAnswer(s) /\ otpMailed' = otpReq[s].id
    <3>1. CodesInv'
      BY <1>5, <1>i, <2>0, <2>2 DEF OtpInv, CodesInv
    <3>2. ASSUME ~otpDoubt' PROVE SoberInv'
      BY <1>5, <1>i, <2>0, <2>2, <3>2 DEF OtpInv, SoberInv, PhaseInv, CountInv
    <3>3. otpMailed' \in 0..MaxCodes
      BY <1>t, <2>2 DEF OtpCall
    <3> QED
      BY <1>s, <1>t, <1>5, <1>i, <2>0, <2>2, <3>1, <3>2, <3>3
  <2> QED
    BY <1>9, <2>1, <2>2 DEF SendOtpEmail
<1>10. ASSUME NEW s \in OtpSession, UndoOtp(s) PROVE OtpInv'
  <2>1. /\ otpReq[s].phase = "undo" /\ otpReq[s] # OtpIdle /\ OtpAnswer(s) /\ otpRows' = {}
        /\ UNCHANGED <<otpNext, otpMailed, otpGuesses, otpDoubt>>
    BY <1>10, <1>i DEF UndoOtp, Cleared
  <2>2. CodesInv'
    BY <1>5, <1>i, <2>1 DEF OtpInv, CodesInv
  <2>3. ASSUME ~otpDoubt' PROVE SoberInv'
    BY <1>5, <1>i, <2>1, <2>3 DEF OtpInv, SoberInv, PhaseInv, CountInv
  <2> QED
    BY <1>s, <1>t, <1>5, <1>i, <2>1, <2>2, <2>3
<1>11. ASSUME NEW s \in OtpSession, Guess(s) PROVE OtpInv'
  <2> DEFINE r == Newest(otpRows)
  <2>1. r \in otpRows /\ r \in OtpRow
    BY <1>t, <1>11, NewestIsThere DEF Guess
  <2>2. r.id \in Code /\ r.attempts \in 0..MaxTries /\ r.attempts < MaxTries /\ ~r.verified
    BY <1>11, <2>1 DEF Guess, Open, OtpRow
  <2>3. UNCHANGED <<otpRows, otpNext, otpMailed>>
    BY <1>11 DEF Guess
  <2>4. \/ /\ otpGuesses[r.id] < MaxGuesses
           /\ otpGuesses' = [otpGuesses EXCEPT ![r.id] = @ + 1]
           /\ OtpStart(s, "wrong", r.id, r.attempts)
        \/ UNCHANGED otpGuesses /\ OtpStart(s, "right", r.id, r.attempts)
    BY <1>11 DEF Guess
  <2> HIDE DEF r
  <2>5. CASE /\ otpGuesses[r.id] < MaxGuesses
             /\ otpGuesses' = [otpGuesses EXCEPT ![r.id] = @ + 1]
             /\ OtpStart(s, "wrong", r.id, r.attempts)
    <3> DEFINE call == [phase |-> "wrong", id |-> r.id, attempts |-> r.attempts]
    <3>1. /\ call \in OtpCall /\ call.phase = "wrong" /\ call.id = r.id
          /\ call.attempts = r.attempts /\ otpReq' = [otpReq EXCEPT ![s] = call]
          /\ otpDoubt' \in BOOLEAN
      BY <2>2, <2>5 DEF OtpCall, OtpStart, Code
    <3> HIDE DEF call
    <3>2. otpReq'[s] = call /\ \A t \in OtpSession \ {s} : otpReq'[t] = otpReq[t]
      BY <1>t, <3>1, OneCall
    <3>3. /\ otpGuesses' \in [Code -> 0..MaxGuesses]
          /\ otpGuesses'[r.id] = otpGuesses[r.id] + 1
          /\ \A c \in Code \ {r.id} : otpGuesses'[c] = otpGuesses[c]
      BY <1>t, <2>2, <2>5
    <3>4. CodesInv'
      <4>1. r.id < otpNext
        BY <2>1 DEF OtpInv, CodesInv
      <4>2. \A c \in Code : c >= otpNext' => otpGuesses'[c] = 0
        BY <1>t, <2>2, <2>3, <3>3, <4>1 DEF OtpInv, CodesInv, Code
      <4> QED
        BY <2>2, <2>3, <3>1, <3>2, <4>2 DEF OtpInv, CodesInv
    <3>5. ASSUME ~otpDoubt' PROVE SoberInv'
      <4>1. SoberInv /\ \A t \in OtpSession : otpReq[t] = OtpIdle
        BY <1>2, <2>5, <3>5
      <4>2. \A q \in otpRows : q = r
        BY <2>1, <4>1 DEF SoberInv
      <4>3. otpGuesses[r.id] = r.attempts
        BY <1>i, <2>1, <2>2, <4>1 DEF SoberInv, CountInv
      <4>4. \A c \in Code : otpGuesses'[c] <= MaxTries
        BY <1>t, <2>2, <3>3, <4>1, <4>3 DEF SoberInv
      <4>5. Alone'
        BY <3>2, <4>1 DEF Alone
      <4>6. PhaseInv'
        BY <1>i, <2>3, <3>1, <3>2, <3>3, <4>1, <4>2, <4>3 DEF PhaseInv
      <4>7. CountInv'
        BY <3>1, <3>2 DEF CountInv
      <4> QED
        BY <2>3, <4>1, <4>4, <4>5, <4>6, <4>7 DEF SoberInv
    <3> QED
      BY <1>s, <1>t, <2>3, <3>1, <3>3, <3>4, <3>5
  <2>6. CASE UNCHANGED otpGuesses /\ OtpStart(s, "right", r.id, r.attempts)
    <3> DEFINE call == [phase |-> "right", id |-> r.id, attempts |-> r.attempts]
    <3>1. /\ call \in OtpCall /\ call.phase = "right"
          /\ otpReq' = [otpReq EXCEPT ![s] = call] /\ otpDoubt' \in BOOLEAN
      BY <2>2, <2>6 DEF OtpCall, OtpStart, Code
    <3> HIDE DEF call
    <3>2. otpReq'[s] = call /\ \A t \in OtpSession \ {s} : otpReq'[t] = otpReq[t]
      BY <1>t, <3>1, OneCall
    <3>3. CodesInv'
      BY <2>3, <2>6, <3>1, <3>2 DEF OtpInv, CodesInv
    <3>4. ASSUME ~otpDoubt' PROVE SoberInv'
      <4>1. SoberInv /\ \A t \in OtpSession : otpReq[t] = OtpIdle
        BY <1>2, <2>6, <3>4
      <4> QED
        BY <1>i, <2>3, <2>6, <3>1, <3>2, <4>1 DEF SoberInv, Alone, PhaseInv, CountInv
    <3> QED
      BY <1>s, <1>t, <2>3, <2>6, <3>1, <3>3, <3>4
  <2> QED
    BY <2>4, <2>5, <2>6
\* what both answers to a guess do to the rows
<1>12. ASSUME NEW s \in OtpSession, NEW f \in [Compared(s) -> OtpRow],
              otpReq[s] # OtpIdle, OtpAnswer(s),
              otpRows' = (otpRows \ Compared(s)) \cup {f[r] : r \in Compared(s)},
              \A r \in Compared(s) : f[r].id = r.id,
              UNCHANGED <<otpNext, otpMailed, otpGuesses, otpDoubt>>
       PROVE  /\ otpRows' \subseteq OtpRow /\ CodesInv'
              /\ SoberInv => /\ Alone' /\ \A t \in OtpSession : otpReq'[t] = OtpIdle
                             /\ \A q, r \in otpRows' : q = r
                             /\ otpMailed' # 0 => \E r \in otpRows' : r.id = otpMailed'
  <2>1. otpRows' \subseteq OtpRow
    BY <1>12, <1>t DEF Compared
  <2>2. \A r \in otpRows' : \E q \in otpRows : r.id = q.id
    BY <1>12 DEF Compared
  <2>3. \A q, r \in otpRows' : q.id = r.id => q = r
    BY <1>12 DEF Compared, OtpInv, CodesInv
  <2>4. CodesInv'
    BY <1>5, <1>i, <1>12, <2>2, <2>3 DEF OtpInv, CodesInv
  <2>5. SoberInv => \A q, r \in otpRows' : q = r
    BY <2>2, <2>3 DEF SoberInv
  <2>6. \A q \in otpRows : \E r \in otpRows' : r.id = q.id
    BY <1>12 DEF Compared
  <2>7. SoberInv => (otpMailed' # 0 => \E r \in otpRows' : r.id = otpMailed')
    BY <1>12, <2>6 DEF SoberInv
  <2> QED
    BY <1>5, <1>12, <2>1, <2>4, <2>5, <2>7 DEF SoberInv
<1>13. ASSUME NEW s \in OtpSession, WrongCode(s) PROVE OtpInv'
  <2> DEFINE f == [r \in Compared(s) |-> Counted(r, otpReq[s].attempts)]
  <2>1. /\ otpReq[s].phase = "wrong" /\ otpReq[s] # OtpIdle /\ OtpAnswer(s)
        /\ otpRows' = (otpRows \ Compared(s)) \cup {f[r] : r \in Compared(s)}
        /\ UNCHANGED <<otpNext, otpMailed, otpGuesses, otpDoubt>>
    BY <1>13, <1>i DEF WrongCode
  <2>2. otpReq[s].attempts \in 0..MaxTries /\ otpReq[s].attempts < MaxTries
    BY <1>t, <2>1 DEF OtpInv, CodesInv, OtpCall
  <2>3. /\ f \in [Compared(s) -> OtpRow]
        /\ \A r \in Compared(s) : f[r].id = r.id /\ f[r].attempts = otpReq[s].attempts + 1
    BY <1>t, <2>2 DEF Counted, Compared, OtpRow
  <2> HIDE DEF f
  <2>4. /\ otpRows' \subseteq OtpRow /\ CodesInv'
        /\ SoberInv => /\ Alone' /\ \A t \in OtpSession : otpReq'[t] = OtpIdle
                       /\ \A q, r \in otpRows' : q = r
                       /\ otpMailed' # 0 => \E r \in otpRows' : r.id = otpMailed'
    BY <1>12, <2>1, <2>3
  <2>5. ASSUME ~otpDoubt' PROVE SoberInv'
    <3>1. SoberInv
      BY <2>1, <2>5 DEF OtpInv
    <3>2. \A r \in otpRows : r \in Compared(s) /\ otpGuesses[r.id] = otpReq[s].attempts + 1
      BY <2>1, <3>1 DEF SoberInv, PhaseInv, Compared
    <3>3. CountInv'
      <4>1. \A r \in otpRows' : \E q \in Compared(s) : r = f[q]
        BY <2>1, <3>2
      <4>2. \A q \in Compared(s) : otpGuesses'[f[q].id] = f[q].attempts
        BY <2>1, <2>3, <3>2 DEF Compared
      <4> QED
        BY <4>1, <4>2 DEF CountInv
    <3>4. PhaseInv'
      BY <1>i, <2>4, <3>1 DEF PhaseInv
    <3>5. /\ Alone' /\ \A q, r \in otpRows' : q = r
          /\ otpMailed' # 0 => \E r \in otpRows' : r.id = otpMailed'
      BY <2>4, <3>1
    <3>6. \A c \in Code : otpGuesses'[c] <= MaxTries
      BY <2>1, <3>1 DEF SoberInv
    <3> QED
      BY <3>3, <3>4, <3>5, <3>6 DEF SoberInv
  <2> QED
    BY <1>s, <1>t, <1>i, <1>5, <2>1, <2>4, <2>5
<1>14. ASSUME NEW s \in OtpSession, RightCode(s) PROVE OtpInv'
  <2> DEFINE f == [r \in Compared(s) |-> [r EXCEPT !.verified = TRUE, !.attempts = 0]]
  <2>1. /\ otpReq[s].phase = "right" /\ otpReq[s] # OtpIdle /\ OtpAnswer(s)
        /\ otpRows' = (otpRows \ Compared(s)) \cup {f[r] : r \in Compared(s)}
        /\ UNCHANGED <<otpNext, otpMailed, otpGuesses, otpDoubt>>
    BY <1>14, <1>i DEF RightCode
  <2>2. /\ f \in [Compared(s) -> OtpRow]
        /\ \A r \in Compared(s) : f[r].id = r.id /\ f[r].verified = TRUE
    <3>1. ASSUME NEW r \in OtpRow
          PROVE  /\ [r EXCEPT !.verified = TRUE, !.attempts = 0] \in OtpRow
                 /\ [r EXCEPT !.verified = TRUE, !.attempts = 0].id = r.id
                 /\ [r EXCEPT !.verified = TRUE, !.attempts = 0].verified = TRUE
      <4> DEFINE v == [r EXCEPT !.verified = TRUE]
                 w == [v EXCEPT !.attempts = 0]
      <4>1. v \in OtpRow /\ v.id = r.id /\ v.verified = TRUE
        BY DEF OtpRow
      <4> HIDE DEF v
      <4>2. w \in OtpRow /\ w.id = v.id /\ w.verified = v.verified
        BY <4>1 DEF OtpRow
      <4> HIDE DEF w
      <4>3. w \in OtpRow /\ w.id = r.id /\ w.verified = TRUE
        BY <4>1, <4>2
      <4> QED
        BY <4>3, Zenon DEF v, w
    <3>2. Compared(s) \subseteq OtpRow
      BY <1>t DEF Compared
    <3> QED
      BY <3>1, <3>2
  <2> HIDE DEF f
  <2>3. /\ otpRows' \subseteq OtpRow /\ CodesInv'
        /\ SoberInv => /\ Alone' /\ \A t \in OtpSession : otpReq'[t] = OtpIdle
                       /\ \A q, r \in otpRows' : q = r
                       /\ otpMailed' # 0 => \E r \in otpRows' : r.id = otpMailed'
    BY <1>12, <2>1, <2>2
  <2>4. ASSUME ~otpDoubt' PROVE SoberInv'
    <3>1. SoberInv
      BY <2>1, <2>4 DEF OtpInv
    <3>2. \A t \in OtpSession : otpReq[t].phase # "wrong"
      BY <1>i, <2>1, <3>1 DEF SoberInv, Alone
    <3>3. CountInv'
      BY <2>1, <2>2, <3>1, <3>2 DEF SoberInv, CountInv
    <3>4. PhaseInv'
      BY <1>i, <2>3, <3>1 DEF PhaseInv
    <3>5. /\ Alone' /\ \A q, r \in otpRows' : q = r
          /\ otpMailed' # 0 => \E r \in otpRows' : r.id = otpMailed'
      BY <2>3, <3>1
    <3>6. \A c \in Code : otpGuesses'[c] <= MaxTries
      BY <2>1, <3>1 DEF SoberInv
    <3> QED
      BY <3>3, <3>4, <3>5, <3>6 DEF SoberInv
  <2> QED
    BY <1>s, <1>t, <1>i, <1>5, <2>1, <2>3, <2>4
<1>15. ASSUME NEW s \in OtpSession, DieOtp(s) PROVE OtpInv'
  <2>1. /\ otpReq[s] # OtpIdle /\ OtpAnswer(s)
        /\ otpDoubt' = (otpDoubt \/ otpReq[s].phase = "wrong") /\ otpDoubt' \in BOOLEAN
        /\ UNCHANGED <<otpRows, otpNext, otpMailed, otpGuesses>>
    BY <1>15 DEF DieOtp
  <2>2. CodesInv'
    BY <1>5, <1>i, <2>1 DEF OtpInv, CodesInv
  <2>3. ASSUME ~otpDoubt' PROVE SoberInv'
    <3>1. SoberInv /\ otpReq[s].phase # "wrong"
      BY <2>1, <2>3 DEF OtpInv
    <3>2. Alone' /\ \A t \in OtpSession : otpReq'[t] = OtpIdle
      BY <1>5, <2>1, <3>1 DEF SoberInv
    <3>3. \A t \in OtpSession : otpReq[t].phase # "wrong"
      BY <1>i, <2>1, <3>1 DEF SoberInv, Alone
    <3> QED
      BY <1>i, <2>1, <3>1, <3>2, <3>3 DEF SoberInv, PhaseInv, CountInv
  <2> QED
    BY <1>s, <1>t, <1>5, <1>i, <2>1, <2>2, <2>3
<1> QED
  BY <1>0, <1>1, <1>3, <1>6, <1>7, <1>8, <1>9, <1>10, <1>11, <1>13, <1>14, <1>15
  DEF OtpNext

\* For any requests, codes and bounds: where requests about an address come one at a time,
\* a code is guessed at most MaxTries times, and the code that was mailed last is the one
\* that counts.
THEOREM CodesAreSafeAlways == OtpSpec => []CodesAreSafe
<1>1. OtpInit => OtpInv
  BY OtpStart0
<1>2. OtpInv /\ [OtpNext]_otpVars => OtpInv'
  BY OtpStep
<1>3. OtpInv => CodesAreSafe
  <2> SUFFICES ASSUME OtpInv PROVE CodesAreSafe
    OBVIOUS
  <2>1. TriesAreBounded
    BY DEF OtpInv, SoberInv, TriesAreBounded
  <2>2. LastCodeCounts
    <3> SUFFICES ASSUME ~otpDoubt, otpMailed # 0
                 PROVE  {r.id : r \in otpRows} = {otpMailed}
      BY DEF LastCodeCounts
    <3>1. PICK r \in otpRows : r.id = otpMailed
      BY DEF OtpInv, SoberInv
    <3>2. \A q \in otpRows : q = r
      BY DEF OtpInv, SoberInv
    <3> QED
      BY <3>1, <3>2
  <2> QED
    BY <2>1, <2>2 DEF CodesAreSafe
<1> QED
  BY <1>1, <1>2, <1>3, PTL DEF OtpSpec

-----------------------------------------------------------------------------
(* An application and its codes together *)

LEMMA IntakeSteps ==
  ASSUME AppInv, OtpInv, [MCNext]_<<appVars, otpVars, vars, mix>>
  PROVE  AppInv' /\ OtpInv'
<1>1. [AppNext]_appVars /\ [OtpNext]_otpVars
  BY DEF MCNext, Application, Codes, Renewals
<1> QED
  BY <1>1, AppStep, OtpStep

\* An application, its papers, payments and plan, the codes of its address and every
\* request about them keep their types, for any plans, sessions and bounds.
THEOREM IntakeTypesAlways == MCSpec => []IntakeTypeOK
<1>1. AppInv /\ OtpInv => IntakeTypeOK
  BY DEF AppInv, OtpInv, IntakeTypeOK
<1>2. MCInit => AppInv /\ OtpInv
  BY AppStart, OtpStart0 DEF MCInit
<1>3. AppInv /\ OtpInv /\ [MCNext]_<<appVars, otpVars, vars, mix>> => AppInv' /\ OtpInv'
  BY IntakeSteps
<1> QED
  BY <1>1, <1>2, <1>3, PTL DEF MCSpec

-----------------------------------------------------------------------------
(* Subscriptions: the inductive invariant *)

ActivationPhase == {"checked", "delivered", "claim"}

\* The gateway only knows payments that have been checked out.
RowInv == \A p \in Payments : gateway[p] # {} => pay[p] # NoPayment

\* An activation is only asked for what has been captured.
ServeInv ==
  \A s \in Sessions :
    req[s].phase \in ActivationPhase => "captured" \in gateway[req[s].pay]

SInv == TypeOK /\ RowInv /\ ServeInv

\* Only what has been captured is PAID.
PaidInv == \A p \in Payments : pay[p].status = "PAID" => "captured" \in gateway[p]

GInv == SInv /\ PaidInv /\ PaidIsGrantedOnce

\* A usable subscription has not been expired since it was last made active.
UsableInv ==
  \A r \in Restaurants :
    sub[r].status \in Usable => history[r].expired <= history[r].active

PInv == SInv /\ UsableInv /\ ExpiresOncePerPeriod

\* The instances Entitlement is implemented in.
OneAtATime == OneOpenPurchase /\ ~LateFailures /\ MaxAdmin = 0

\* Then a restaurant has one payment that is not paid yet,
OpenInv ==
  \A p, q \in Payments :
    /\ pay[p].status \in {"CREATED", "FAILED"}
    /\ pay[q].status \in {"CREATED", "FAILED"}
    /\ pay[p].rest = pay[q].rest
    => p = q

\* no request is the Super Admin's,
CustomerInv == \A s \in Sessions : req[s].phase \notin {"extend", "stop"}

\* and the date an activation has read is that of the subscription as long as
\* its payment is not paid.
ReadInv ==
  \A s \in Sessions :
    req[s].phase = "claim" /\ pay[req[s].pay].status # "PAID"
      => req[s].expiry = sub[pay[req[s].pay].rest].expiry

EInv == GInv /\ OpenInv /\ CustomerInv /\ ReadInv

-----------------------------------------------------------------------------
(* Requests and rows *)

\* A session in an activation has the request of one.
LEMMA ActivationRequest ==
  ASSUME TypeOK, NEW s \in Sessions, req[s].phase \in ActivationPhase
  PROVE  req[s] \in [phase : ActivationPhase, pay : Payments, expiry : Nat]
BY DEF TypeOK, Request, Idle, ActivationPhase

\* One that writes for the Super Admin has the request of that.
LEMMA AdminRequest ==
  ASSUME TypeOK, NEW s \in Sessions, req[s].phase \in {"extend", "stop"}
  PROVE  req[s] \in [phase : {"extend", "stop"}, rest : Restaurants, expiry : Nat]
BY DEF TypeOK, Request, Idle

\* What answering a session does to the requests.
LEMMA AnswerTypes ==
  ASSUME TypeOK, NEW s \in Sessions, NEW r \in Request, Answer(s, r)
  PROVE  /\ req' \in [Sessions -> Request]
         /\ req'[s] = r
         /\ \A t \in Sessions : t # s => req'[t] = req[t]
BY DEF TypeOK, Answer

\* Idle is a request, and not that of an activation.
LEMMA IdleRequest == /\ Idle \in Request
                     /\ Idle.phase = "idle"
                     /\ Idle.phase \notin ActivationPhase
BY DEF Idle, Request, ActivationPhase

\* What ends a request keeps what is known of the others.
LEMMA DoneKeeps ==
  ASSUME SInv, NEW s \in Sessions, Done(s), UNCHANGED gateway
  PROVE  /\ req' \in [Sessions -> Request]
         /\ req'[s] = Idle
         /\ \A t \in Sessions : t # s => req'[t] = req[t]
         /\ ServeInv'
<1>1. /\ req' \in [Sessions -> Request]
      /\ req'[s] = Idle
      /\ \A t \in Sessions : t # s => req'[t] = req[t]
  BY AnswerTypes, IdleRequest DEF SInv, Done
<1>2. ServeInv'
  BY <1>1, IdleRequest DEF SInv, ServeInv
<1> QED
  BY <1>1, <1>2

\* And so does what goes on with one for a captured payment.
LEMMA ServeKeeps ==
  ASSUME SInv, NEW s \in Sessions, NEW p \in Payments, "captured" \in gateway[p],
         NEW phase \in ActivationPhase, NEW e \in Nat,
         Answer(s, [phase |-> phase, pay |-> p, expiry |-> e]), UNCHANGED gateway
  PROVE  /\ req' \in [Sessions -> Request]
         /\ req'[s] = [phase |-> phase, pay |-> p, expiry |-> e]
         /\ \A t \in Sessions : t # s => req'[t] = req[t]
         /\ ServeInv'
<1> DEFINE r == [phase |-> phase, pay |-> p, expiry |-> e]
<1>1. r \in Request
  BY DEF Request, ActivationPhase
<1>2. r.phase = phase /\ r.pay = p
  OBVIOUS
<1> HIDE DEF r
<1>3. /\ req' \in [Sessions -> Request]
      /\ req'[s] = r
      /\ \A t \in Sessions : t # s => req'[t] = req[t]
  BY <1>1, AnswerTypes DEF SInv, r
<1>4. ServeInv'
  BY <1>2, <1>3 DEF SInv, ServeInv
<1> QED
  BY <1>3, <1>4 DEF r

\* The Super Admin's requests are no activations.
LEMMA AdminKeeps ==
  ASSUME SInv, NEW s \in Sessions, NEW phase \in {"extend", "stop"},
         NEW r \in Restaurants, NEW e \in Nat,
         Answer(s, [phase |-> phase, rest |-> r, expiry |-> e]), UNCHANGED gateway
  PROVE  req' \in [Sessions -> Request] /\ ServeInv'
<1> DEFINE q == [phase |-> phase, rest |-> r, expiry |-> e]
<1>1. q \in Request
  BY DEF Request
<1>2. q.phase \notin ActivationPhase
  BY DEF ActivationPhase
<1> HIDE DEF q
<1>3. /\ req' \in [Sessions -> Request]
      /\ req'[s] = q
      /\ \A t \in Sessions : t # s => req'[t] = req[t]
  BY <1>1, AnswerTypes DEF SInv, q
<1> QED
  BY <1>2, <1>3 DEF SInv, ServeInv

\* What a new status does to the payments.
LEMMA StatusTypes ==
  ASSUME TypeOK, NEW p \in Payments, pay[p] # NoPayment,
         NEW status \in {"PAID", "FAILED"}, SetStatus(p, status)
  PROVE  /\ pay' \in [Payments -> PayRow]
         /\ pay[p].rest \in Restaurants
         /\ pay'[p].status = status
         /\ pay'[p].rest = pay[p].rest
         /\ pay'[p] # NoPayment
         /\ \A q \in Payments : q # p => pay'[q] = pay[q]
<1>1. pay[p] \in [status : {"CREATED", "PAID", "FAILED"}, rest : Restaurants]
  BY DEF TypeOK, PayRow
<1>2. [pay[p] EXCEPT !.status = status] = [status |-> status, rest |-> pay[p].rest]
  BY <1>1
<1>3. /\ pay'[p] = [pay[p] EXCEPT !.status = status]
      /\ \A q \in Payments : q # p => pay'[q] = pay[q]
      /\ pay' = [pay EXCEPT ![p] = [pay[p] EXCEPT !.status = status]]
  BY DEF SetStatus, TypeOK
<1>4. [status |-> status, rest |-> pay[p].rest] \in PayRow
  BY <1>1 DEF PayRow
<1>5. pay'[p] = [status |-> status, rest |-> pay[p].rest]
  BY <1>2, <1>3
<1>6. pay'[p].status = status /\ pay'[p].rest = pay[p].rest
  BY <1>5
<1>7. pay'[p] # NoPayment
  BY <1>6 DEF NoPayment
<1> QED
  BY <1>1, <1>2, <1>3, <1>4, <1>6, <1>7 DEF TypeOK

\* The date a purchase counts from is a date.
LEMMA BaseType ==
  ASSUME TypeOK, NEW e \in Nat
  PROVE  Base(e) \in Nat /\ Base(e) + Cycle \in Nat
BY CycleAssumption DEF Base, TypeOK

\* A restaurant's row as its activation writes it.
LEMMA ExtendTypes ==
  ASSUME TypeOK, NEW r \in Restaurants, NEW e \in Nat,
         sub' = [sub EXCEPT ![r] = [status |-> "ACTIVE", expiry |-> e]],
         history' = [history EXCEPT ![r].active = @ + 1]
  PROVE  /\ sub' \in [Restaurants -> SubRow]
         /\ history' \in [Restaurants -> [active : Nat, expired : Nat]]
         /\ sub'[r].expiry = e
         /\ \A q \in Restaurants : q # r => sub'[q] = sub[q] /\ history'[q] = history[q]
         /\ history'[r].active = history[r].active + 1
         /\ history'[r].expired = history[r].expired
<1>1. [status |-> "ACTIVE", expiry |-> e] \in SubRow
  BY DEF SubRow, Usable
<1>2. history[r] \in [active : Nat, expired : Nat]
  BY DEF TypeOK
<1>3. history' = [history EXCEPT ![r] = [history[r] EXCEPT !.active = history[r].active + 1]]
  OBVIOUS
<1>4. [history[r] EXCEPT !.active = history[r].active + 1] \in [active : Nat, expired : Nat]
  BY <1>2
<1> QED
  BY <1>1, <1>2, <1>3, <1>4 DEF TypeOK

\* A restaurant's row as the expiry pass or the Super Admin closes it.
LEMMA CloseTypes ==
  ASSUME TypeOK, NEW r \in Restaurants,
         NEW status \in {"EXPIRED", "CANCELLED", "SUSPENDED"},
         sub' = [sub EXCEPT ![r].status = status]
  PROVE  /\ sub' \in [Restaurants -> SubRow]
         /\ sub'[r].status = status
         /\ \A q \in Restaurants : /\ sub'[q].expiry = sub[q].expiry
                                   /\ q # r => sub'[q] = sub[q]
<1>1. sub[r] \in SubRow
  BY DEF TypeOK
<1>2. sub' = [sub EXCEPT ![r] = [sub[r] EXCEPT !.status = status]]
  OBVIOUS
<1>3. /\ [sub[r] EXCEPT !.status = status] \in SubRow
      /\ [sub[r] EXCEPT !.status = status].status = status
      /\ [sub[r] EXCEPT !.status = status].expiry = sub[r].expiry
  BY <1>1 DEF SubRow
<1> QED
  BY <1>1, <1>2, <1>3 DEF TypeOK

-----------------------------------------------------------------------------
(* Type correctness *)

LEMMA SInit == Init => SInv
<1> SUFFICES ASSUME Init PROVE SInv
  OBVIOUS
<1>1. sub \in [Restaurants -> SubRow]
  BY CycleAssumption DEF Init, SubRow, Usable
<1>2. pay \in [Payments -> PayRow]
  BY DEF Init, PayRow
<1>3. req \in [Sessions -> Request]
  BY DEF Init, Request
<1>4. TypeOK
  BY <1>1, <1>2, <1>3 DEF Init, TypeOK
<1>5. ServeInv
  BY IdleRequest DEF Init, ServeInv
<1> QED
  BY <1>4, <1>5 DEF SInv, RowInv, Init

LEMMA SNext == SInv /\ [Next]_vars => SInv'
<1> SUFFICES ASSUME SInv, [Next]_vars PROVE SInv'
  OBVIOUS
<1> USE DEF SInv
<1>1. ASSUME NEW p \in Payments, NEW r \in Restaurants, Checkout(p, r)
     PROVE  SInv'
  <2>1. /\ [status |-> "CREATED", rest |-> r] \in PayRow
        /\ [status |-> "CREATED", rest |-> r].status # NoPayment.status
    BY DEF PayRow, NoPayment
  <2>2. pay' \in [Payments -> PayRow]
    BY <1>1, <2>1 DEF Checkout, TypeOK
  <2>3. RowInv'
    BY <1>1, <2>1 DEF Checkout, TypeOK, RowInv
  <2> QED
    BY <1>1, <2>2, <2>3 DEF Checkout, TypeOK, ServeInv
<1>2. ASSUME NEW p \in Payments, NEW outcome \in {"failed", "captured"}, Attempt(p, outcome)
     PROVE  SInv'
  <2>1. gateway' \in [Payments -> SUBSET {"failed", "captured"}]
    BY <1>2 DEF Attempt, TypeOK
  <2>2. \A q \in Payments : gateway[q] \subseteq gateway'[q]
    BY <1>2 DEF Attempt, TypeOK
  <2>3. ServeInv'
    BY <1>2, <2>2, ActivationRequest DEF Attempt, ServeInv
  <2>4. RowInv'
    BY <1>2 DEF Attempt, TypeOK, RowInv
  <2> QED
    BY <1>2, <2>1, <2>3, <2>4 DEF Attempt, TypeOK
<1>3. ASSUME NEW p \in Payments, WebhookFailed(p)
     PROVE  SInv'
  <2>1. pay[p] # NoPayment
    BY <1>3 DEF WebhookFailed, RowInv
  <2>2. pay' \in [Payments -> PayRow] /\ RowInv'
    BY <1>3, <2>1, StatusTypes DEF WebhookFailed, RowInv
  <2> QED
    BY <1>3, <2>2 DEF WebhookFailed, TypeOK, ServeInv
<1>4. ASSUME NEW s \in Sessions, NEW p \in Payments, WebhookCaptured(s, p)
     PROVE  SInv'
  <2>1. req' \in [Sessions -> Request] /\ ServeInv'
    BY <1>4, ServeKeeps DEF WebhookCaptured, ActivationPhase
  <2> QED
    BY <1>4, <2>1 DEF WebhookCaptured, TypeOK, RowInv
<1>5. ASSUME NEW s \in Sessions, NEW p \in Payments, Verify(s, p)
     PROVE  SInv'
  <2>1. req' \in [Sessions -> Request] /\ ServeInv'
    BY <1>5, ServeKeeps DEF Verify, ActivationPhase
  <2> QED
    BY <1>5, <2>1 DEF Verify, TypeOK, RowInv
<1>6. ASSUME NEW s \in Sessions, Reject(s)
     PROVE  SInv'
  <2>1. /\ req[s].pay \in Payments
        /\ "captured" \in gateway[req[s].pay]
    BY <1>6, ActivationRequest DEF Reject, ActivationPhase, ServeInv
  <2>2. pay[req[s].pay] # NoPayment
    BY <2>1 DEF RowInv
  <2>3. pay' \in [Payments -> PayRow] /\ RowInv'
    BY <1>6, <2>1, <2>2, StatusTypes DEF Reject, RowInv
  <2>4. req' \in [Sessions -> Request] /\ ServeInv'
    BY <1>6, DoneKeeps DEF Reject
  <2> QED
    BY <1>6, <2>3, <2>4 DEF Reject, TypeOK
<1>7. ASSUME NEW s \in Sessions, ActivateRead(s)
     PROVE  SInv'
  <2> DEFINE p == req[s].pay
  <2>1. /\ p \in Payments
        /\ "captured" \in gateway[p]
    BY <1>7, ActivationRequest DEF ActivateRead, ActivationPhase, ServeInv
  <2>2. pay[p] # NoPayment
    BY <2>1 DEF RowInv
  <2>3. sub[pay[p].rest].expiry \in Nat
    BY <2>1, <2>2 DEF TypeOK, PayRow, SubRow
  <2>4. req' \in [Sessions -> Request] /\ ServeInv'
    <3>1. CASE Claimable(p)
      BY <1>7, <2>1, <2>3, <3>1, ServeKeeps DEF ActivateRead, ActivationPhase
    <3>2. CASE ~Claimable(p)
      BY <1>7, <3>2, DoneKeeps DEF ActivateRead
    <3> QED
      BY <3>1, <3>2
  <2> QED
    BY <1>7, <2>4 DEF ActivateRead, TypeOK, RowInv
<1>8. ASSUME NEW s \in Sessions, AlreadyPaid(s)
     PROVE  SInv'
  <2>1. req' \in [Sessions -> Request] /\ ServeInv'
    BY <1>8, DoneKeeps DEF AlreadyPaid
  <2> QED
    BY <1>8, <2>1 DEF AlreadyPaid, TypeOK, RowInv
<1>9. ASSUME NEW s \in Sessions, Fail(s)
     PROVE  SInv'
  <2>1. req' \in [Sessions -> Request] /\ ServeInv'
    BY <1>9, DoneKeeps DEF Fail
  <2> QED
    BY <1>9, <2>1 DEF Fail, TypeOK, RowInv
<1>10. ASSUME NEW s \in Sessions, Activate(s)
     PROVE  SInv'
  <2> DEFINE p == req[s].pay
             e == Base(req[s].expiry) + Cycle
  <2>1. /\ p \in Payments
        /\ req[s].expiry \in Nat
        /\ "captured" \in gateway[p]
    BY <1>10, ActivationRequest DEF Activate, ActivationPhase, ServeInv
  <2>2. pay[p] # NoPayment
    BY <2>1 DEF RowInv
  <2>3. /\ pay' \in [Payments -> PayRow]
        /\ pay[p].rest \in Restaurants
        /\ RowInv'
    BY <1>10, <2>1, <2>2, StatusTypes DEF Activate, RowInv
  <2>4. e \in Nat
    BY <2>1, BaseType
  <2>5. /\ sub' = [sub EXCEPT ![pay[p].rest] = [status |-> "ACTIVE", expiry |-> e]]
        /\ history' = [history EXCEPT ![pay[p].rest].active = @ + 1]
    BY <1>10 DEF Activate
  <2> HIDE DEF e
  <2>6. /\ sub' \in [Restaurants -> SubRow]
        /\ history' \in [Restaurants -> [active : Nat, expired : Nat]]
    BY <2>3, <2>4, <2>5, ExtendTypes
  <2>7. granted' \in [Payments -> Nat]
    BY <1>10, <2>1 DEF Activate, TypeOK
  <2>8. req' \in [Sessions -> Request] /\ ServeInv'
    BY <1>10, DoneKeeps DEF Activate
  <2> QED
    BY <1>10, <2>3, <2>6, <2>7, <2>8 DEF Activate, TypeOK
<1>11. ASSUME NEW s \in Sessions, NEW r \in Restaurants, RenewRead(s, r)
     PROVE  SInv'
  <2>1. Base(sub[r].expiry) + Cycle \in Nat
    BY BaseType, CycleAssumption DEF TypeOK, SubRow
  <2>2. req' \in [Sessions -> Request] /\ ServeInv'
    BY <1>11, <2>1, AdminKeeps DEF RenewRead
  <2> QED
    BY <1>11, <2>2 DEF RenewRead, TypeOK, RowInv
<1>12. ASSUME NEW s \in Sessions, NEW r \in Restaurants, ResetRead(s, r)
     PROVE  SInv'
  <2>1. now + Cycle \in Nat
    BY BaseType, CycleAssumption DEF TypeOK, SubRow
  <2>2. req' \in [Sessions -> Request] /\ ServeInv'
    BY <1>12, <2>1, AdminKeeps DEF ResetRead
  <2> QED
    BY <1>12, <2>2 DEF ResetRead, TypeOK, RowInv
<1>13. ASSUME NEW s \in Sessions, NEW r \in Restaurants, StopRead(s, r)
     PROVE  SInv'
  <2>1. 0 \in Nat
    BY BaseType, CycleAssumption DEF TypeOK, SubRow
  <2>2. req' \in [Sessions -> Request] /\ ServeInv'
    BY <1>13, <2>1, AdminKeeps DEF StopRead
  <2> QED
    BY <1>13, <2>2 DEF StopRead, TypeOK, RowInv
<1>14. ASSUME NEW s \in Sessions, ExtendWrite(s)
     PROVE  SInv'
  <2>1. req[s].rest \in Restaurants /\ req[s].expiry \in Nat
    BY <1>14, AdminRequest DEF ExtendWrite
  <2>2. /\ sub' \in [Restaurants -> SubRow]
        /\ history' \in [Restaurants -> [active : Nat, expired : Nat]]
    BY <1>14, <2>1, ExtendTypes DEF ExtendWrite
  <2>3. req' \in [Sessions -> Request] /\ ServeInv'
    BY <1>14, DoneKeeps DEF ExtendWrite
  <2> QED
    BY <1>14, <2>2, <2>3 DEF ExtendWrite, TypeOK, RowInv
<1>15. ASSUME NEW s \in Sessions, StopWrite(s)
     PROVE  SInv'
  <2>1. req[s].rest \in Restaurants
    BY <1>15, AdminRequest DEF StopWrite
  <2>2. sub' \in [Restaurants -> SubRow]
    BY <1>15, <2>1, CloseTypes DEF StopWrite
  <2>3. req' \in [Sessions -> Request] /\ ServeInv'
    BY <1>15, DoneKeeps DEF StopWrite
  <2> QED
    BY <1>15, <2>2, <2>3 DEF StopWrite, TypeOK, RowInv
<1>16. ASSUME NEW c \in Crons, CronScan(c)
     PROVE  SInv'
  BY <1>16 DEF CronScan, TypeOK, RowInv, ServeInv
<1>17. ASSUME NEW c \in Crons, NEW r \in Restaurants, CronExpire(c, r)
     PROVE  SInv'
  <2>1. scan' \in [Crons -> SUBSET Restaurants]
    BY <1>17 DEF CronExpire, TypeOK
  <2>2. /\ sub' \in [Restaurants -> SubRow]
        /\ history' \in [Restaurants -> [active : Nat, expired : Nat]]
    <3>1. CASE sub[r].status \in Usable
      <4>1. sub' \in [Restaurants -> SubRow]
        BY <1>17, <3>1, CloseTypes DEF CronExpire
      <4>2. history' \in [Restaurants -> [active : Nat, expired : Nat]]
        BY <1>17, <3>1 DEF CronExpire, TypeOK
      <4> QED
        BY <4>1, <4>2
    <3>2. CASE sub[r].status \notin Usable
      BY <1>17, <3>2 DEF CronExpire, TypeOK
    <3> QED
      BY <3>1, <3>2
  <2> QED
    BY <1>17, <2>1, <2>2 DEF CronExpire, TypeOK, RowInv, ServeInv
<1>18. ASSUME NEW c \in Crons, NEW r \in Restaurants, CronSkip(c, r)
     PROVE  SInv'
  BY <1>18 DEF CronSkip, TypeOK, RowInv, ServeInv
<1>19. ASSUME NextDay
     PROVE  SInv'
  BY <1>19 DEF NextDay, TypeOK, RowInv, ServeInv
<1>20. ASSUME UNCHANGED vars
     PROVE  SInv'
  BY <1>20 DEF vars, TypeOK, RowInv, ServeInv
<1> QED
  BY <1>1, <1>2, <1>3, <1>4, <1>5, <1>6, <1>7, <1>8, <1>9, <1>10, <1>11, <1>12, <1>13, <1>14, <1>15, <1>16, <1>17, <1>18, <1>19, <1>20
     DEF Next, Purchase, Activation, Administration, ExpiryPass

\* Every variable keeps the type the schema gives it.
THEOREM TypeCorrect == Spec => []TypeOK
<1>1. SInv => TypeOK
  BY DEF SInv
<1> QED
  BY <1>1, SInit, SNext, PTL DEF Spec

-----------------------------------------------------------------------------
(* A payment is turned into time once *)

\* A rejected signature is recorded for a payment that is not paid.
LEMMA RejectEffect ==
  ASSUME ~LateFailures, SInv, NEW s \in Sessions, Reject(s)
  PROVE  /\ req[s].pay \in Payments
         /\ pay[req[s].pay].status \in {"CREATED", "FAILED"}
         /\ pay'[req[s].pay].status = "FAILED"
         /\ pay'[req[s].pay].rest = pay[req[s].pay].rest
         /\ \A q \in Payments : q # req[s].pay => pay'[q] = pay[q]
<1>1. /\ req[s].pay \in Payments
      /\ "captured" \in gateway[req[s].pay]
  BY ActivationRequest DEF Reject, ActivationPhase, SInv, ServeInv
<1>2. pay[req[s].pay] # NoPayment
  BY <1>1 DEF SInv, RowInv
<1>3. pay[req[s].pay].status \in {"CREATED", "FAILED"}
  BY <1>1, <1>2 DEF Reject, Claimable, SInv, TypeOK, PayRow
<1> QED
  BY <1>1, <1>2, <1>3, StatusTypes DEF Reject, SInv

LEMMA GInit == Init => GInv
BY SInit DEF Init, GInv, PaidInv, PaidIsGrantedOnce, NoPayment

LEMMA GNext ==
  ASSUME ~LateFailures, GInv, [Next]_vars
  PROVE  GInv'
<1> USE DEF GInv
<1>1. SInv'
  BY SNext
<1> DEFINE Grants == PaidInv' /\ PaidIsGrantedOnce'
<1>2. ASSUME NEW p \in Payments, NEW r \in Restaurants, Checkout(p, r)
     PROVE  Grants
  <2>1. /\ pay'[p].status = "CREATED"
        /\ \A q \in Payments : q # p => pay'[q] = pay[q]
        /\ pay[p].status = "NONE"
    BY <1>2 DEF Checkout, SInv, TypeOK, NoPayment
  <2> QED
    BY <1>2, <2>1 DEF Checkout, PaidInv, PaidIsGrantedOnce
<1>3. ASSUME NEW p \in Payments, NEW outcome \in {"failed", "captured"}, Attempt(p, outcome)
     PROVE  Grants
  <2>1. \A q \in Payments : gateway[q] \subseteq gateway'[q]
    BY <1>3 DEF Attempt, SInv, TypeOK
  <2> QED
    BY <1>3, <2>1 DEF Attempt, PaidInv, PaidIsGrantedOnce
<1>4. ASSUME NEW p \in Payments, WebhookFailed(p)
     PROVE  Grants
  <2>1. pay[p] # NoPayment
    BY <1>4 DEF WebhookFailed, SInv, RowInv
  <2>2. /\ pay'[p].status = "FAILED"
        /\ \A q \in Payments : q # p => pay'[q] = pay[q]
    BY <1>4, <2>1, StatusTypes DEF WebhookFailed, SInv
  <2>3. pay[p].status # "PAID"
    BY <1>4 DEF WebhookFailed, PaidInv
  <2> QED
    BY <1>4, <2>2, <2>3 DEF WebhookFailed, PaidInv, PaidIsGrantedOnce
<1>5. ASSUME NEW s \in Sessions, Activate(s)
     PROVE  Grants
  <2> DEFINE p == req[s].pay
  <2>1. p \in Payments /\ "captured" \in gateway[p]
    BY <1>5, ActivationRequest DEF Activate, ActivationPhase, SInv, ServeInv
  <2>2. pay[p] # NoPayment
    BY <2>1 DEF SInv, RowInv
  <2>3. /\ pay'[p].status = "PAID"
        /\ \A q \in Payments : q # p => pay'[q] = pay[q]
    BY <1>5, <2>1, <2>2, StatusTypes DEF Activate, SInv
  <2>4. granted[p] = 0
    BY <1>5, <2>1 DEF Activate, Claimable, PaidIsGrantedOnce
  <2>5. /\ granted'[p] = 1
        /\ \A q \in Payments : q # p => granted'[q] = granted[q]
    BY <1>5, <2>1, <2>4 DEF Activate, SInv, TypeOK
  <2> QED
    BY <1>5, <2>1, <2>3, <2>5 DEF Activate, PaidInv, PaidIsGrantedOnce
<1>6. ASSUME UNCHANGED <<pay, gateway, granted>>
     PROVE  Grants
  BY <1>6 DEF PaidInv, PaidIsGrantedOnce
<1>7. ASSUME NEW s \in Sessions
     PROVE  /\ ActivateRead(s) \/ AlreadyPaid(s) \/ Fail(s) \/ ExtendWrite(s) \/ StopWrite(s)
                 => UNCHANGED <<pay, gateway, granted>>
            /\ \A p \in Payments : WebhookCaptured(s, p) \/ Verify(s, p)
                 => UNCHANGED <<pay, gateway, granted>>
            /\ \A r \in Restaurants : RenewRead(s, r) \/ ResetRead(s, r) \/ StopRead(s, r)
                 => UNCHANGED <<pay, gateway, granted>>
  BY DEF ActivateRead, AlreadyPaid, Fail, ExtendWrite, StopWrite,
         WebhookCaptured, Verify, RenewRead, ResetRead, StopRead
<1>8. ExpiryPass \/ NextDay \/ UNCHANGED vars => UNCHANGED <<pay, gateway, granted>>
  BY DEF ExpiryPass, CronScan, CronExpire, CronSkip, NextDay, vars
<1>9. ASSUME NEW s \in Sessions, Reject(s)
     PROVE  Grants
  BY <1>9, RejectEffect DEF Reject, PaidInv, PaidIsGrantedOnce
<1>10. Grants
  BY <1>2, <1>3, <1>4, <1>5, <1>6, <1>7, <1>8, <1>9
     DEF Next, Purchase, Activation, Administration
<1> QED
  BY <1>1, <1>10

\* The callback, the webhooks and their repetitions, of any number of requests
\* and processes, activate a purchase once, where the gateway reports no
\* failure after the capture (activateSubscriptionPayment).
THEOREM PaymentIsGrantedOnce ==
  ASSUME ~LateFailures
  PROVE  Spec => []PaidIsGrantedOnce
<1>1. GInv /\ [Next]_vars => GInv'
  BY GNext
<1>2. GInv => PaidIsGrantedOnce
  BY DEF GInv
<1> QED
  BY <1>1, <1>2, GInit, PTL DEF Spec

-----------------------------------------------------------------------------
(* One expiration per period *)

LEMMA PInit == Init => PInv
BY SInit DEF Init, PInv, UsableInv, ExpiresOncePerPeriod

LEMMA PNext ==
  ASSUME PInv, [Next]_vars
  PROVE  PInv'
<1> USE DEF PInv
<1>1. SInv'
  BY SNext
<1>t. TypeOK
  BY DEF SInv
<1>h. \A r \in Restaurants : history[r].active \in Nat /\ history[r].expired \in Nat
  BY <1>t DEF TypeOK
<1> DEFINE Periods == UsableInv' /\ ExpiresOncePerPeriod'
<1>2. ASSUME NEW r \in Restaurants, NEW e \in Nat,
             sub' = [sub EXCEPT ![r] = [status |-> "ACTIVE", expiry |-> e]],
             history' = [history EXCEPT ![r].active = @ + 1]
     PROVE  Periods
  <2>1. /\ \A q \in Restaurants : q # r => sub'[q] = sub[q] /\ history'[q] = history[q]
        /\ history'[r].active = history[r].active + 1
        /\ history'[r].expired = history[r].expired
    BY <1>2, <1>t, ExtendTypes
  <2>2. history'[r].expired <= history'[r].active
    BY <1>h, <2>1 DEF ExpiresOncePerPeriod
  <2>3. history'[r].expired <= history'[r].active + 1
    BY <1>h, <2>1 DEF ExpiresOncePerPeriod
  <2> QED
    BY <2>1, <2>2, <2>3 DEF UsableInv, ExpiresOncePerPeriod
<1>3. ASSUME NEW s \in Sessions, Activate(s)
     PROVE  Periods
  <2> DEFINE e == Base(req[s].expiry) + Cycle
             r == pay[req[s].pay].rest
  <2>1. /\ req[s].pay \in Payments
        /\ req[s].expiry \in Nat
        /\ "captured" \in gateway[req[s].pay]
    BY <1>3, <1>t, ActivationRequest DEF Activate, ActivationPhase, SInv, ServeInv
  <2>2. r \in Restaurants
    BY <2>1, <1>t DEF SInv, RowInv, TypeOK, PayRow
  <2>3. e \in Nat
    BY <2>1, <1>t, BaseType
  <2>4. /\ sub' = [sub EXCEPT ![r] = [status |-> "ACTIVE", expiry |-> e]]
        /\ history' = [history EXCEPT ![r].active = @ + 1]
    BY <1>3 DEF Activate
  <2> HIDE DEF e, r
  <2> QED
    BY <1>2, <2>2, <2>3, <2>4
<1>4. ASSUME NEW s \in Sessions, ExtendWrite(s)
     PROVE  Periods
  <2>1. req[s].rest \in Restaurants /\ req[s].expiry \in Nat
    BY <1>4, <1>t, AdminRequest DEF ExtendWrite
  <2> QED
    BY <1>2, <1>4, <2>1 DEF ExtendWrite
<1>5. ASSUME NEW s \in Sessions, StopWrite(s)
     PROVE  Periods
  <2>1. req[s].rest \in Restaurants
    BY <1>5, <1>t, AdminRequest DEF StopWrite
  <2>2. \A q \in Restaurants : sub'[q].status \in Usable => sub[q].status \in Usable
    BY <1>5, <1>t, <2>1, CloseTypes DEF StopWrite, Usable
  <2> QED
    BY <1>5, <2>2 DEF StopWrite, UsableInv, ExpiresOncePerPeriod
<1>6. ASSUME NEW c \in Crons, NEW r \in Restaurants, CronExpire(c, r)
     PROVE  Periods
  <2>1. CASE sub[r].status \in Usable
    <3>1. /\ sub'[r].status = "EXPIRED"
          /\ \A q \in Restaurants : q # r => sub'[q] = sub[q]
      BY <1>6, <1>t, <2>1, CloseTypes DEF CronExpire
    <3>2. history[r] \in [active : Nat, expired : Nat]
      BY <1>t DEF TypeOK
    <3>3. /\ history'[r].expired = history[r].expired + 1
          /\ history'[r].active = history[r].active
          /\ \A q \in Restaurants : q # r => history'[q] = history[q]
      BY <1>6, <1>t, <2>1, <3>2 DEF CronExpire, TypeOK
    <3>4. history'[r].expired <= history'[r].active + 1
      BY <1>h, <2>1, <3>3 DEF UsableInv
    <3>5. sub'[r].status \notin Usable
      BY <3>1 DEF Usable
    <3> QED
      BY <3>1, <3>3, <3>4, <3>5 DEF UsableInv, ExpiresOncePerPeriod
  <2>2. CASE sub[r].status \notin Usable
    BY <1>6, <2>2 DEF CronExpire, UsableInv, ExpiresOncePerPeriod
  <2> QED
    BY <2>1, <2>2
<1>7. ASSUME UNCHANGED <<sub, history>>
     PROVE  Periods
  BY <1>7 DEF UsableInv, ExpiresOncePerPeriod
<1>8. ASSUME NEW s \in Sessions
     PROVE  /\ Reject(s) \/ ActivateRead(s) \/ AlreadyPaid(s) \/ Fail(s)
                 => UNCHANGED <<sub, history>>
            /\ \A p \in Payments : WebhookCaptured(s, p) \/ Verify(s, p)
                 => UNCHANGED <<sub, history>>
            /\ \A r \in Restaurants : RenewRead(s, r) \/ ResetRead(s, r) \/ StopRead(s, r)
                 => UNCHANGED <<sub, history>>
  BY DEF Reject, ActivateRead, AlreadyPaid, Fail, WebhookCaptured, Verify,
         RenewRead, ResetRead, StopRead
<1>9. Purchase \/ NextDay \/ UNCHANGED vars => UNCHANGED <<sub, history>>
  BY DEF Purchase, Checkout, Attempt, WebhookFailed, NextDay, vars
<1>10. ASSUME NEW c \in Crons
     PROVE  /\ CronScan(c) => UNCHANGED <<sub, history>>
            /\ \A r \in Restaurants : CronSkip(c, r) => UNCHANGED <<sub, history>>
  BY DEF CronScan, CronSkip
<1>11. Periods
  BY <1>3, <1>4, <1>5, <1>6, <1>7, <1>8, <1>9, <1>10
     DEF Next, Activation, Administration, ExpiryPass
<1> QED
  BY <1>1, <1>11

\* However many processes run the expiry pass, whatever they scanned before,
\* and whatever is bought, renewed, cancelled and suspended meanwhile, the
\* history holds one expiration per period (runExpiryPass).
THEOREM OneExpirationPerPeriod == Spec => []ExpiresOncePerPeriod
<1>1. PInv /\ [Next]_vars => PInv'
  BY PNext
<1>2. PInv => ExpiresOncePerPeriod
  BY DEF PInv
<1> QED
  BY <1>1, <1>2, PInit, PTL DEF Spec

-----------------------------------------------------------------------------
(* Purchases implement Entitlement *)

LEMMA EInit == Init => EInv
BY GInit, IdleRequest DEF Init, EInv, OpenInv, CustomerInv, ReadInv, NoPayment, Idle

\* What an activation's commit does to the rows, where purchases come one at a
\* time.
LEMMA ActivateEffect ==
  ASSUME EInv, NEW s \in Sessions, Activate(s)
  PROVE  LET p == req[s].pay
             r == pay[p].rest
         IN  /\ p \in Payments /\ r \in Restaurants
             /\ pay[p].status \in {"CREATED", "FAILED"}
             /\ pay'[p].status = "PAID" /\ pay'[p].rest = r
             /\ \A q \in Payments : q # p => pay'[q] = pay[q]
             /\ sub'[r].expiry = Base(sub[r].expiry) + Cycle
             /\ \A q \in Restaurants : q # r => sub'[q] = sub[q]
<1> DEFINE p == req[s].pay
           r == pay[p].rest
           e == Base(req[s].expiry) + Cycle
<1>t. TypeOK
  BY DEF EInv, GInv, SInv
<1>1. /\ p \in Payments
      /\ req[s].expiry \in Nat
      /\ "captured" \in gateway[p]
  BY <1>t, ActivationRequest DEF Activate, ActivationPhase, EInv, GInv, SInv, ServeInv
<1>2. pay[p] # NoPayment
  BY <1>1 DEF EInv, GInv, SInv, RowInv
<1>3. /\ pay'[p].status = "PAID" /\ pay'[p].rest = r
      /\ r \in Restaurants
      /\ \A q \in Payments : q # p => pay'[q] = pay[q]
  BY <1>t, <1>1, <1>2, StatusTypes DEF Activate
<1>4. pay[p].status \in {"CREATED", "FAILED"}
  BY <1>t, <1>1, <1>2 DEF Activate, Claimable, TypeOK, PayRow
<1>5. e = Base(sub[r].expiry) + Cycle
  BY <1>4 DEF Activate, EInv, ReadInv
<1>6. e \in Nat
  BY <1>1, <1>t, BaseType
<1>7. /\ sub' = [sub EXCEPT ![r] = [status |-> "ACTIVE", expiry |-> e]]
      /\ history' = [history EXCEPT ![r].active = @ + 1]
  BY DEF Activate
<1> HIDE DEF e, r
<1>8. sub'[r].expiry = e /\ \A q \in Restaurants : q # r => sub'[q] = sub[q]
  BY <1>t, <1>3, <1>6, <1>7, ExtendTypes
<1> QED
  BY <1>1, <1>3, <1>4, <1>5, <1>8 DEF r

\* No other step of these instances changes a date, or makes a payment paid.
LEMMA OtherEffect ==
  ASSUME OneAtATime, EInv, [Next]_vars, \A s \in Sessions : ~Activate(s)
  PROVE  /\ \A r \in Restaurants : sub'[r].expiry = sub[r].expiry
         /\ \A p \in Payments : pay'[p].status = "PAID" <=> pay[p].status = "PAID"
         /\ \A p \in Payments : pay[p] # NoPayment => pay'[p].rest = pay[p].rest
<1> DEFINE Kept == /\ \A r \in Restaurants : sub'[r].expiry = sub[r].expiry
                   /\ \A p \in Payments : pay'[p].status = "PAID" <=> pay[p].status = "PAID"
                   /\ \A p \in Payments : pay[p] # NoPayment => pay'[p].rest = pay[p].rest
<1>t. TypeOK
  BY DEF EInv, GInv, SInv
<1>1. ASSUME NEW p \in Payments, NEW r \in Restaurants, Checkout(p, r)
     PROVE  Kept
  <2>1. /\ pay'[p].status = "CREATED"
        /\ \A q \in Payments : q # p => pay'[q] = pay[q]
        /\ pay[p].status = "NONE"
    BY <1>1, <1>t DEF Checkout, TypeOK, NoPayment
  <2> QED
    BY <1>1, <2>1 DEF Checkout
<1>2. ASSUME NEW p \in Payments, WebhookFailed(p)
     PROVE  Kept
  <2>1. pay[p] # NoPayment
    BY <1>2 DEF WebhookFailed, EInv, GInv, SInv, RowInv
  <2>2. /\ pay'[p].status = "FAILED" /\ pay'[p].rest = pay[p].rest
        /\ \A q \in Payments : q # p => pay'[q] = pay[q]
    BY <1>2, <1>t, <2>1, StatusTypes DEF WebhookFailed
  <2>3. pay[p].status # "PAID"
    BY <1>2 DEF WebhookFailed, EInv, GInv, PaidInv, OneAtATime
  <2> QED
    BY <1>2, <2>2, <2>3 DEF WebhookFailed
<1>3. ASSUME NEW c \in Crons, NEW r \in Restaurants, CronExpire(c, r)
     PROVE  Kept
  <2>1. \A q \in Restaurants : sub'[q].expiry = sub[q].expiry
    BY <1>3, <1>t, CloseTypes DEF CronExpire
  <2> QED
    BY <1>3, <2>1 DEF CronExpire
<1>4. ASSUME UNCHANGED <<sub, pay>>
     PROVE  Kept
  BY <1>4
<1>5. ASSUME NEW s \in Sessions
     PROVE  /\ ~ExtendWrite(s) /\ ~StopWrite(s)
            /\ ActivateRead(s) \/ AlreadyPaid(s) \/ Fail(s) => UNCHANGED <<sub, pay>>
            /\ \A p \in Payments : WebhookCaptured(s, p) \/ Verify(s, p)
                 => UNCHANGED <<sub, pay>>
            /\ \A r \in Restaurants : RenewRead(s, r) \/ ResetRead(s, r) \/ StopRead(s, r)
                 => UNCHANGED <<sub, pay>>
  BY DEF OneAtATime, EInv, CustomerInv, ExtendWrite, StopWrite, ActivateRead,
         AlreadyPaid, Fail, WebhookCaptured, Verify, RenewRead, ResetRead, StopRead
<1>6. ASSUME NEW c \in Crons
     PROVE  /\ CronScan(c) => UNCHANGED <<sub, pay>>
            /\ \A r \in Restaurants : CronSkip(c, r) => UNCHANGED <<sub, pay>>
  BY DEF CronScan, CronSkip
<1>7. ASSUME NEW p \in Payments, NEW outcome \in {"failed", "captured"}
     PROVE  Attempt(p, outcome) => UNCHANGED <<sub, pay>>
  BY DEF Attempt
<1>8. NextDay \/ UNCHANGED vars => UNCHANGED <<sub, pay>>
  BY DEF NextDay, vars
<1>9. ASSUME NEW s \in Sessions, Reject(s)
     PROVE  Kept
  BY <1>9, RejectEffect DEF OneAtATime, EInv, GInv, Reject
<1>10. Kept
  BY <1>1, <1>2, <1>3, <1>4, <1>5, <1>6, <1>7, <1>8, <1>9
     DEF Next, Purchase, Activation, Administration, ExpiryPass
<1> QED
  BY <1>10

\* Those steps leave what an activation has read, or have it read now; and no
\* request of the Super Admin is begun.
LEMMA OtherRequests ==
  ASSUME OneAtATime, EInv, [Next]_vars, \A s \in Sessions : ~Activate(s)
  PROVE  \A t \in Sessions :
           /\ req'[t].phase \notin {"extend", "stop"}
           /\ req'[t].phase = "claim" =>
                \/ req'[t] = req[t]
                \/ /\ req'[t].expiry = sub[pay[req'[t].pay].rest].expiry
                   /\ pay[req'[t].pay] # NoPayment
<1> DEFINE Stays(t) == /\ req'[t].phase \notin {"extend", "stop"}
                       /\ req'[t].phase = "claim" =>
                            \/ req'[t] = req[t]
                            \/ /\ req'[t].expiry = sub[pay[req'[t].pay].rest].expiry
                               /\ pay[req'[t].pay] # NoPayment
<1>t. TypeOK
  BY DEF EInv, GInv, SInv
<1>u. \A t \in Sessions : req[t].phase \notin {"extend", "stop"}
  BY DEF EInv, CustomerInv
<1>1. ASSUME NEW s \in Sessions, Done(s)
     PROVE  \A t \in Sessions : Stays(t)
  BY <1>1, <1>t, <1>u, IdleRequest, AnswerTypes DEF Done
<1>2. ASSUME NEW s \in Sessions, NEW p \in Payments, WebhookCaptured(s, p) \/ Verify(s, p)
     PROVE  \A t \in Sessions : Stays(t)
  BY <1>2, <1>t, <1>u DEF WebhookCaptured, Verify, Answer, TypeOK
<1>3. ASSUME NEW s \in Sessions, ActivateRead(s)
     PROVE  \A t \in Sessions : Stays(t)
  <2> DEFINE p == req[s].pay
             q == [phase |-> "claim", pay |-> p, expiry |-> sub[pay[p].rest].expiry]
  <2>0. pay[p] # NoPayment
    BY <1>3, <1>t, ActivationRequest
       DEF ActivateRead, ActivationPhase, EInv, GInv, SInv, ServeInv, RowInv
  <2>1. CASE Claimable(p)
    <3>1. /\ q.phase = "claim"
          /\ q.expiry = sub[pay[q.pay].rest].expiry
          /\ pay[q.pay] # NoPayment
      BY <2>0
    <3>2. req' = [req EXCEPT ![s] = q]
      BY <1>3, <2>1 DEF ActivateRead, Answer
    <3> HIDE DEF q
    <3>3. req'[s] = q /\ \A t \in Sessions : t # s => req'[t] = req[t]
      BY <3>2, <1>t DEF TypeOK
    <3> QED
      BY <3>1, <3>3, <1>u
  <2>2. CASE ~Claimable(p)
    BY <1>1, <1>3, <2>2 DEF ActivateRead
  <2> QED
    BY <2>1, <2>2
<1>4. ASSUME NEW s \in Sessions, Reject(s) \/ AlreadyPaid(s) \/ Fail(s) \/ ExtendWrite(s) \/ StopWrite(s)
     PROVE  \A t \in Sessions : Stays(t)
  BY <1>1, <1>4 DEF Reject, AlreadyPaid, Fail, ExtendWrite, StopWrite
<1>5. ASSUME NEW s \in Sessions, NEW r \in Restaurants
     PROVE  ~RenewRead(s, r) /\ ~ResetRead(s, r) /\ ~StopRead(s, r)
  BY <1>t DEF OneAtATime, RenewRead, ResetRead, StopRead, TypeOK
<1>6. ASSUME UNCHANGED req
     PROVE  \A t \in Sessions : Stays(t)
  BY <1>6, <1>u
<1>7. Purchase \/ ExpiryPass \/ NextDay \/ UNCHANGED vars => UNCHANGED req
  BY DEF Purchase, Checkout, Attempt, WebhookFailed, ExpiryPass, CronScan, CronExpire,
         CronSkip, NextDay, vars
<1>8. \A t \in Sessions : Stays(t)
  BY <1>2, <1>3, <1>4, <1>5, <1>6, <1>7 DEF Next, Activation, Administration
<1> QED
  BY <1>8

\* At most one payment of a restaurant stays open.
LEMMA OpenNext ==
  ASSUME OneAtATime, EInv, [Next]_vars
  PROVE  OpenInv'
<1> DEFINE Waiting(p) == pay[p].status \in {"CREATED", "FAILED"}
<1>t. TypeOK
  BY DEF EInv, GInv, SInv
<1>1. ASSUME NEW p \in Payments, NEW r \in Restaurants, Checkout(p, r)
     PROVE  OpenInv'
  <2>1. /\ pay'[p].rest = r
        /\ \A q \in Payments : q # p => pay'[q] = pay[q]
        /\ \A q \in Payments : Waiting(q) => pay[q].rest # r
    BY <1>1, <1>t DEF Checkout, TypeOK, OneAtATime
  <2> QED
    BY <2>1 DEF EInv, OpenInv
<1>2. ASSUME NEW p \in Payments, WebhookFailed(p)
     PROVE  OpenInv'
  <2>1. pay[p] # NoPayment
    BY <1>2 DEF WebhookFailed, EInv, GInv, SInv, RowInv
  <2>2. /\ pay'[p].rest = pay[p].rest
        /\ \A q \in Payments : q # p => pay'[q] = pay[q]
    BY <1>2, <1>t, <2>1, StatusTypes DEF WebhookFailed
  <2>3. Waiting(p)
    BY <1>2, <1>t, <2>1 DEF WebhookFailed, EInv, GInv, PaidInv, OneAtATime, TypeOK, PayRow
  <2> QED
    BY <2>2, <2>3 DEF EInv, OpenInv
<1>3. ASSUME NEW s \in Sessions, Activate(s)
     PROVE  OpenInv'
  BY <1>3, ActivateEffect DEF EInv, OpenInv
<1>4. ASSUME UNCHANGED pay
     PROVE  OpenInv'
  BY <1>4 DEF EInv, OpenInv
<1>5. ASSUME NEW s \in Sessions
     PROVE  /\ ActivateRead(s) \/ AlreadyPaid(s) \/ Fail(s) \/ ExtendWrite(s) \/ StopWrite(s)
                 => UNCHANGED pay
            /\ \A p \in Payments : WebhookCaptured(s, p) \/ Verify(s, p) => UNCHANGED pay
            /\ \A r \in Restaurants : RenewRead(s, r) \/ ResetRead(s, r) \/ StopRead(s, r)
                 => UNCHANGED pay
  BY DEF ActivateRead, AlreadyPaid, Fail, ExtendWrite, StopWrite,
         WebhookCaptured, Verify, RenewRead, ResetRead, StopRead
<1>6. ExpiryPass \/ NextDay \/ UNCHANGED vars => UNCHANGED pay
  BY DEF ExpiryPass, CronScan, CronExpire, CronSkip, NextDay, vars
<1>7. \A p \in Payments, outcome \in {"failed", "captured"} : Attempt(p, outcome) => UNCHANGED pay
  BY DEF Attempt
<1>8. ASSUME NEW s \in Sessions, Reject(s)
     PROVE  OpenInv'
  BY <1>8, RejectEffect DEF OneAtATime, EInv, GInv, OpenInv
<1> QED
  BY <1>1, <1>2, <1>3, <1>4, <1>5, <1>6, <1>7, <1>8 DEF Next, Purchase, Activation, Administration

LEMMA ENext ==
  ASSUME OneAtATime, EInv, [Next]_vars
  PROVE  EInv'
<1>t. TypeOK
  BY DEF EInv, GInv, SInv
<1>1. GInv'
  BY GNext DEF EInv, OneAtATime
<1>2. OpenInv'
  BY OpenNext
<1>3. CASE \A s \in Sessions : ~Activate(s)
  <2>1. CustomerInv'
    BY <1>3, OtherRequests DEF CustomerInv
  <2>2. ASSUME NEW t \in Sessions, req'[t].phase = "claim", pay'[req'[t].pay].status # "PAID"
        PROVE  req'[t].expiry = sub'[pay'[req'[t].pay].rest].expiry
    <3> DEFINE p == req'[t].pay
    <3>1. p \in Payments /\ "captured" \in gateway'[p]
      <4>1. TypeOK' /\ ServeInv'
        BY <1>1 DEF GInv, SInv
      <4>2. req'[t] \in Request
        BY <4>1 DEF TypeOK
      <4>3. p \in Payments
        BY <2>2, <4>2 DEF Request, Idle
      <4> QED
        BY <2>2, <4>1, <4>3 DEF ServeInv, ActivationPhase
    <3>2. /\ pay[p].status # "PAID"
          /\ \A r \in Restaurants : sub'[r].expiry = sub[r].expiry
          /\ pay[p] # NoPayment => pay'[p].rest = pay[p].rest
      BY <1>3, <2>2, <3>1, OtherEffect
    <3>3. /\ req'[t].expiry = sub[pay[p].rest].expiry
          /\ pay[p] # NoPayment
      <4>1. CASE req'[t] = req[t]
        <5>1. "captured" \in gateway[p]
          BY <2>2, <4>1 DEF EInv, GInv, SInv, ServeInv, ActivationPhase
        <5>2. pay[p] # NoPayment
          BY <3>1, <5>1 DEF EInv, GInv, SInv, RowInv
        <5> QED
          BY <2>2, <3>2, <4>1, <5>2 DEF EInv, ReadInv
      <4>2. CASE req'[t] # req[t]
        BY <1>3, <2>2, <4>2, OtherRequests
      <4> QED
        BY <4>1, <4>2
    <3>6. pay[p].rest \in Restaurants
      BY <1>t, <3>1, <3>3 DEF TypeOK, PayRow
    <3> QED
      BY <3>2, <3>3, <3>6
  <2> QED
    BY <1>1, <1>2, <2>1, <2>2 DEF EInv, ReadInv
<1>4. ASSUME NEW s \in Sessions, Activate(s)
     PROVE  EInv'
  <2>1. /\ req'[s] = Idle
        /\ \A t \in Sessions : t # s => req'[t] = req[t]
    BY <1>4, <1>t, AnswerTypes, IdleRequest DEF Activate, Done
  <2>2. CustomerInv'
    BY <2>1, IdleRequest DEF CustomerInv, EInv
  <2>3. ASSUME NEW t \in Sessions, req'[t].phase = "claim", pay'[req'[t].pay].status # "PAID"
        PROVE  req'[t].expiry = sub'[pay'[req'[t].pay].rest].expiry
    <3>1. req'[t] = req[t] /\ req[t].phase = "claim"
      BY <2>1, <2>3, IdleRequest
    <3> DEFINE p == req[s].pay
               q == req[t].pay
    <3>2. q \in Payments /\ "captured" \in gateway[q]
      BY <3>1, <1>t, ActivationRequest DEF ActivationPhase, EInv, GInv, SInv, ServeInv
    <3>3. q # p
      BY <1>4, <2>3, <3>1, ActivateEffect
    <3>4. pay'[q] = pay[q] /\ pay[q].status # "PAID"
      BY <1>4, <2>3, <3>1, <3>2, <3>3, ActivateEffect
    <3>5. pay[q] # NoPayment
      BY <3>2 DEF EInv, GInv, SInv, RowInv
    <3>6. /\ pay[q].rest \in Restaurants
          /\ pay[q].status \in {"CREATED", "FAILED"}
      BY <1>t, <3>2, <3>4, <3>5 DEF TypeOK, PayRow
    <3>7. pay[q].rest # pay[p].rest
      BY <1>4, <3>2, <3>3, <3>6, ActivateEffect DEF EInv, OpenInv
    <3>8. sub'[pay[q].rest] = sub[pay[q].rest]
      BY <1>4, <3>6, <3>7, ActivateEffect
    <3> QED
      BY <3>1, <3>4, <3>8 DEF EInv, ReadInv
  <2> QED
    BY <1>1, <1>2, <2>2, <2>3 DEF EInv, ReadInv
<1> QED
  BY <1>3, <1>4

\* Every step is one of Entitlement, or none.
LEMMA NextImplements ==
  ASSUME OneAtATime, EInv, [Next]_vars
  PROVE  [E!Next]_(E!vars)
<1> DEFINE Until == [r \in Restaurants |-> sub[r].expiry]
           Used  == {p \in Payments : pay[p].status = "PAID"}
<1>t. TypeOK
  BY DEF EInv, GInv, SInv
<1>1. ASSUME NEW s \in Sessions, Activate(s)
     PROVE  E!Next
  <2>0. PICK p \in Payments, r \in Restaurants : p = req[s].pay /\ r = pay[p].rest
    BY <1>1, ActivateEffect
  <2>1. /\ pay[p].status \in {"CREATED", "FAILED"}
        /\ pay'[p].status = "PAID"
        /\ \A q \in Payments : q # p => pay'[q] = pay[q]
        /\ sub'[r].expiry = Base(sub[r].expiry) + Cycle
        /\ \A q \in Restaurants : q # r => sub'[q] = sub[q]
    BY <1>1, <2>0, ActivateEffect
  <2>2. p \in Payments \ Used /\ Used' = Used \cup {p}
    BY <2>1
  <2>3. Until' = [Until EXCEPT ![r] = E!Later(Until[r], now) + Cycle]
    BY <2>1 DEF E!Later, Base
  <2>4. UNCHANGED now
    BY <1>1 DEF Activate
  <2>5. E!Buy(r, p)
    BY <2>2, <2>3, <2>4 DEF E!Buy
  <2> QED
    BY <2>5 DEF E!Next
<1>2. CASE \A s \in Sessions : ~Activate(s)
  <2>1. Until' = Until
    BY <1>2, OtherEffect
  <2>2. Used' = Used
    BY <1>2, OtherEffect
  <2>3. CASE NextDay
    <3>1. E!NextDay
      BY <2>1, <2>2, <2>3 DEF NextDay, E!NextDay
    <3> QED
      BY <3>1 DEF E!Next
  <2>4. CASE ~NextDay
    <3>1. UNCHANGED now
      BY <1>2, <2>4
         DEF Next, Purchase, Activation, Administration, ExpiryPass, vars,
             Checkout, Attempt, WebhookFailed, WebhookCaptured, Verify, Reject,
             ActivateRead, AlreadyPaid, Fail, RenewRead, ResetRead, StopRead,
             ExtendWrite, StopWrite, CronScan, CronExpire, CronSkip
    <3> QED
      BY <2>1, <2>2, <3>1 DEF E!vars
  <2> QED
    BY <2>3, <2>4
<1> QED
  BY <1>1, <1>2

\* Where a restaurant opens one purchase at a time, the Super Admin leaves its
\* subscription alone, and no failure is reported after the capture, every
\* payment adds its cycle to the paid time exactly once, whatever is repeated,
\* raced or lost on the way.
THEOREM PurchasesImplementEntitlement ==
  ASSUME OneAtATime
  PROVE  Spec => ImplementsEntitlement
<1>1. EInv /\ [Next]_vars => EInv'
  BY ENext
<1>2. EInv /\ [Next]_vars => [E!Next]_(E!vars)
  BY NextImplements
<1>3. Init => EInv /\ E!Init
  <2> SUFFICES ASSUME Init PROVE EInv /\ E!Init
    OBVIOUS
  <2>1. EInv
    BY EInit
  <2>2. now \in Nat /\ [r \in Restaurants |-> sub[r].expiry] \in [Restaurants -> Nat]
    BY <2>1 DEF EInv, GInv, SInv, TypeOK, SubRow
  <2>3. {p \in Payments : pay[p].status = "PAID"} = {}
    BY DEF Init, NoPayment
  <2> QED
    BY <2>1, <2>2, <2>3 DEF E!Init
<1> QED
  BY <1>1, <1>2, <1>3, PTL DEF Spec, ImplementsEntitlement, E!Spec

=============================================================================
