-------------------------------- MODULE Access --------------------------------
(***************************************************************************)
(* Who may work with a restaurant: its row and its subscription, which the *)
(* Super Admin changes (super-admin.service.js), a captured payment        *)
(* (razorpay.service.js) and the nightly pass (subscription.cron.js); the  *)
(* accounts of its administrators, in the public schema, and of its staff, *)
(* in its own (user.controller.js); the tokens a login signs, which stay   *)
(* valid while the rows say so (auth.controller.js, auth.middleware.js).   *)
(*                                                                         *)
(* A login, and a change of password, read the account first and sign, or  *)
(* write, later.  Times are whole seconds, as in a token.  A password is   *)
(* the number of times it was changed.                                     *)
(***************************************************************************)
EXTENDS Integers, FiniteSets

CONSTANTS
  Admins,      \* accounts of the public schema
  Staff,       \* accounts of the restaurant's own schema
  Client,      \* requests being answered
  MaxSecond, MaxPasswords, MaxTokens

Accounts == Admins \cup Staff

ASSUME AccessAssumption ==
  /\ Admins \cap Staff = {}
  /\ MaxSecond \in Nat \ {0} /\ {MaxPasswords, MaxTokens} \subseteq Nat

VARIABLES
  house,    \* the Restaurant row
  plan,     \* its Subscription row, and whether its expiry date has passed
  account,  \* the User rows
  tokens,   \* tokens signed
  visit,    \* the login or password change a request is in
  second,   \* the time
  paid,     \* a purchase is open that may still be captured
  stopped,  \* a Super Admin stopped the restaurant and nothing lifted it
  barred    \* members of the staff disabled or deleted one by one

accessVars == <<house, plan, account, tokens, visit, second, paid, stopped, barred>>

-----------------------------------------------------------------------------
(* Rows *)

Out == [op |-> "none"]

AccessTypeOK ==
  /\ house \in [status : {"ACTIVE", "INACTIVE", "SUSPENDED"}, deleted : BOOLEAN]
  /\ plan \in [status : {"ACTIVE", "EXPIRED", "CANCELLED", "SUSPENDED"}, lapsed : BOOLEAN]
  /\ account \in [Accounts -> [there : BOOLEAN, active : BOOLEAN, deleted : BOOLEAN,
                             temp : BOOLEAN, pw : 0..MaxPasswords, changed : 0..MaxSecond]]
  /\ tokens \subseteq [who : Accounts, pw : 0..MaxPasswords, iat : 1..MaxSecond, met : BOOLEAN]
  /\ visit \in [Client -> {Out} \cup [op : {"login", "sign", "change"}, who : Accounts,
                                      pw : 0..MaxPasswords]]
  /\ second \in 1..MaxSecond /\ {paid, stopped} \subseteq BOOLEAN
  /\ barred \subseteq Staff

\* An administrator starts with the temporary password of an e-mail.
AccessInit ==
  /\ house = [status |-> "ACTIVE", deleted |-> FALSE]
  /\ plan = [status |-> "ACTIVE", lapsed |-> FALSE]
  /\ account = [p \in Accounts |-> [there |-> TRUE, active |-> TRUE, deleted |-> FALSE,
                                  temp |-> p \in Admins, pw |-> 0, changed |-> 0]]
  /\ tokens = {} /\ visit = [c \in Client |-> Out]
  /\ second = 1 /\ paid = FALSE /\ stopped = FALSE /\ barred = {}

-----------------------------------------------------------------------------
(* What a token opens: "pos" stands for every route but the self-service of *)
(* the subscription ("renew") and the change of a password ("password").    *)

Route == {"pos", "renew", "password"}

PasswordGate(a, route) == a.temp => route = "password"

HasRunOut == plan.status = "EXPIRED" \/ (plan.status = "ACTIVE" /\ plan.lapsed)

PlanGate(route) ==
  /\ plan.status \notin {"CANCELLED", "SUSPENDED"}
  /\ HasRunOut => route = "renew"

TokenIsFresh(a, t) == a.there /\ a.changed <= t.iat

Served(t, route) ==
  LET a == account[t.who] IN
    /\ TokenIsFresh(a, t)
    /\ a.active
    /\ PasswordGate(a, route)
    /\ house.status = "ACTIVE"
    /\ PlanGate(route)

\* A request of an administrator who is served.
ByAdmin(route) == \E t \in tokens : t.who \in Admins /\ Served(t, route)

-----------------------------------------------------------------------------
(* The Super Admin, a payment and the night *)

\* Mutant: the staff is enabled and disabled with the administrators.
Enabled_All(v) == [p \in Accounts |-> [account[p] EXCEPT !.active = v]]

Enabled(v) == [p \in Accounts |-> IF p \in Admins THEN [account[p] EXCEPT !.active = v]
                                ELSE account[p]]

People == UNCHANGED <<account, barred>>
Doors  == UNCHANGED <<tokens, visit, second>>

ChangeRestaurantStatus(st) ==
  /\ house' = [house EXCEPT !.status = st]
  /\ account' = Enabled(st = "ACTIVE")
  /\ stopped' = (st # "ACTIVE")
  /\ UNCHANGED <<plan, paid, barred>> /\ Doors

UpdateRestaurant(st) ==
  /\ house' = [house EXCEPT !.status = st]
  /\ stopped' = (st # "ACTIVE")
  /\ UNCHANGED <<plan, paid>> /\ People /\ Doors

RemoveRestaurant ==
  /\ ~house.deleted
  /\ house' = [status |-> "INACTIVE", deleted |-> TRUE]
  /\ account' = [p \in Accounts |->
       IF p \in Admins THEN [account[p] EXCEPT !.active = FALSE, !.deleted = TRUE]
       ELSE account[p]]
  /\ stopped' = TRUE
  /\ UNCHANGED <<plan, paid, barred>> /\ Doors

\* renewSubscription, changeSubscriptionPlan and activateSubscription agree here.
RenewSubscription ==
  /\ house' = [house EXCEPT !.status = "ACTIVE"]
  /\ plan' = [status |-> "ACTIVE", lapsed |-> FALSE]
  /\ account' = Enabled(TRUE)
  /\ stopped' = FALSE
  /\ UNCHANGED <<paid, barred>> /\ Doors

StopSubscription(planStatus, houseStatus) ==
  /\ plan' = [plan EXCEPT !.status = planStatus]
  /\ house' = [house EXCEPT !.status = houseStatus]
  /\ account' = Enabled(FALSE)
  /\ stopped' = TRUE
  /\ UNCHANGED <<paid, barred>> /\ Doors

CancelSubscription  == StopSubscription("CANCELLED", "INACTIVE")
SuspendSubscription == StopSubscription("SUSPENDED", "SUSPENDED")

\* A checkout opens a purchase, its capture activates it whatever has happened
\* since, and leaves the accounts alone.
OpenPurchase == /\ ~paid /\ ByAdmin("renew")
            /\ paid' = TRUE
            /\ UNCHANGED <<house, plan, stopped>> /\ People /\ Doors

Capture ==
  /\ paid
  /\ plan' = [status |-> "ACTIVE", lapsed |-> FALSE]
  /\ house' = [house EXCEPT !.status = "ACTIVE"]
  /\ paid' = FALSE /\ stopped' = FALSE
  /\ People /\ Doors

Lapse == /\ ~plan.lapsed
         /\ plan' = [plan EXCEPT !.lapsed = TRUE]
         /\ UNCHANGED <<house, paid, stopped>> /\ People /\ Doors

RunExpiryPass == /\ plan.lapsed /\ plan.status = "ACTIVE"
                 /\ plan' = [plan EXCEPT !.status = "EXPIRED"]
                 /\ UNCHANGED <<house, paid, stopped>> /\ People /\ Doors

-----------------------------------------------------------------------------
(* Accounts *)

Rows  == UNCHANGED <<house, plan, paid, stopped>>
Set(p, row) == account' = [account EXCEPT ![p] = row]

AdminToggleUserStatus(p) ==
  /\ Set(p, [account[p] EXCEPT !.active = ~@])
  /\ UNCHANGED barred /\ Rows /\ Doors

AdminDeleteUser(p) ==
  /\ Set(p, [account[p] EXCEPT !.active = FALSE, !.deleted = TRUE])
  /\ UNCHANGED barred /\ Rows /\ Doors

\* A password is written with the second it is written in.
WithPassword(p, temp) ==
  [account[p] EXCEPT !.pw = @ + 1, !.changed = second, !.temp = temp]

AdminResetPassword(p) ==
  /\ account[p].pw < MaxPasswords
  /\ Set(p, WithPassword(p, TRUE))
  /\ UNCHANGED barred /\ Rows /\ Doors

\* An administrator of the restaurant and its staff, through its own schema.
ChangeStaffStatus(p, v) ==
  /\ ByAdmin("pos") /\ account[p].there
  /\ Set(p, [account[p] EXCEPT !.active = v])
  /\ barred' = IF v THEN barred \ {p} ELSE barred \cup {p}
  /\ Rows /\ Doors

StaffPassword(p) ==
  /\ ByAdmin("pos") /\ account[p].there /\ account[p].pw < MaxPasswords
  /\ Set(p, WithPassword(p, FALSE))
  /\ UNCHANGED barred /\ Rows /\ Doors

DeleteUser(p) ==
  /\ ByAdmin("pos") /\ account[p].there
  /\ Set(p, [account[p] EXCEPT !.there = FALSE])
  /\ barred' = barred \cup {p}
  /\ Rows /\ Doors

-----------------------------------------------------------------------------
(* Logins and changes of one's own password *)

Visit(c, v) == visit' = [visit EXCEPT ![c] = v]
Leave(c)    == Visit(c, Out)

LoginRead(c, p) ==
  LET a == account[p] IN
    /\ visit[c] = Out
    /\ a.there /\ ~a.deleted /\ a.active
    /\ p \in Staff => house.status = "ACTIVE" /\ ~house.deleted
    /\ Visit(c, [op |-> "login", who |-> p, pw |-> a.pw])
    /\ UNCHANGED <<tokens, second>> /\ People /\ Rows

\* The row that lastLogin is written to must still be there.
LoginCheck(c) ==
  /\ visit[c].op = "login"
  /\ IF /\ house.status = "ACTIVE" /\ ~house.deleted
        /\ plan.status \notin {"CANCELLED", "SUSPENDED"}
        /\ account[visit[c].who].there
     THEN Visit(c, [visit[c] EXCEPT !.op = "sign"])
     ELSE Leave(c)
  /\ UNCHANGED <<tokens, second>> /\ People /\ Rows

\* The Super Admin's login as the restaurant's administrator
LoginAs(c, p) ==
  /\ visit[c] = Out
  /\ account[p].active /\ ~account[p].deleted
  /\ Visit(c, [op |-> "sign", who |-> p, pw |-> account[p].pw])
  /\ UNCHANGED <<tokens, second>> /\ People /\ Rows

\* A token remembers whether the password was changed under its login.
Sign(c) ==
  LET v == visit[c] IN
    /\ v.op = "sign" /\ Cardinality(tokens) < MaxTokens
    /\ tokens' = tokens \cup {[who |-> v.who, pw |-> v.pw, iat |-> second,
                               met |-> v.pw # account[v.who].pw]}
    /\ Leave(c)
    /\ UNCHANGED second /\ People /\ Rows

ChangeRead(c, t) ==
  /\ visit[c] = Out
  /\ Served(t, "password")
  /\ Visit(c, [op |-> "change", who |-> t.who, pw |-> account[t.who].pw])
  /\ UNCHANGED <<tokens, second>> /\ People /\ Rows

\* Mutant: the time of the change is not written.
Rewritten_Silently(p) == [account[p] EXCEPT !.pw = @ + 1, !.temp = FALSE]
Rewritten(p) == WithPassword(p, FALSE)

ChangeWrite(c) ==
  LET p == visit[c].who IN
    /\ visit[c].op = "change"
    /\ IF account[p].there
       THEN account[p].pw < MaxPasswords /\ Set(p, Rewritten(p))
       ELSE UNCHANGED account
    /\ Leave(c)
    /\ UNCHANGED <<tokens, second, barred>> /\ Rows

Tick == /\ second < MaxSecond
        /\ second' = second + 1
        /\ UNCHANGED <<tokens, visit>> /\ People /\ Rows

-----------------------------------------------------------------------------
AccessNext ==
  \/ \E st \in {"ACTIVE", "INACTIVE", "SUSPENDED"} :
       ChangeRestaurantStatus(st) \/ UpdateRestaurant(st)
  \/ RemoveRestaurant \/ RenewSubscription \/ CancelSubscription \/ SuspendSubscription
  \/ OpenPurchase \/ Capture \/ Lapse \/ RunExpiryPass \/ Tick
  \/ \E p \in Admins : AdminToggleUserStatus(p) \/ AdminDeleteUser(p) \/ AdminResetPassword(p)
  \/ \E p \in Staff : \/ StaffPassword(p) \/ DeleteUser(p)
                      \/ \E v \in BOOLEAN : ChangeStaffStatus(p, v)
  \/ \E c \in Client : \/ \E p \in Accounts : LoginRead(c, p)
                       \/ \E p \in Admins : LoginAs(c, p)
                       \/ \E t \in tokens : ChangeRead(c, t)
                       \/ LoginCheck(c) \/ Sign(c) \/ ChangeWrite(c)

AccessSpec == AccessInit /\ [][AccessNext]_accessVars

-----------------------------------------------------------------------------
(* Properties *)

\* A stop of the Super Admin closes the point of sale to every token, those
\* signed before included, until it is lifted or a payment is captured; members
\* of the staff barred one by one stay out whatever is lifted; and a password
\* that was changed opens nothing, unless its login met the change or came in
\* the same second (protect, auth.controller.js: "invalidates any token issued
\* before the change").
GateHolds ==
  \A t \in tokens :
    /\ stopped => ~Served(t, "pos")
    /\ t.who \in barred => \A r \in Route : ~Served(t, r)
    /\ t.pw # account[t.who].pw /\ ~t.met =>
         t.iat = account[t.who].changed \/ \A r \in Route : ~Served(t, r)

\* With a token of their own, an administrator whose subscription has run out
\* reaches its renewal, or can change the temporary password first that keeps
\* them from it (auth.middleware.js: "ADMIN can always reach subscription
\* self-service routes even when expired").
AdminCanRenew ==
  \A t \in tokens :
    /\ t.who \in Admins /\ account[t.who].active /\ TokenIsFresh(account[t.who], t)
    /\ house.status = "ACTIVE" /\ HasRunOut
    => Served(t, "renew") \/ Served(t, "password")
=============================================================================
