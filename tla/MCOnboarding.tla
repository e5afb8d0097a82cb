----------------------------- MODULE MCOnboarding -----------------------------
(* Onboarding, EmailOtp and Subscription: how a restaurant gets in and how it   *)
(* stays.  Four mixes, so that their states add up instead of multiplying: one  *)
(* request at a time with every operation of an application, two at a time over *)
(* an application that has all its papers and one plan to choose, the codes     *)
(* that verify its address, and the purchases that renew its subscription.      *)
EXTENDS Onboarding, EmailOtp, Subscription, TLC

\* p1, p2 are plans of Onboarding and payments of Subscription.
CONSTANTS r1, p1, p2, s1, s2, c1, c2

VARIABLE mix

Symm == Permutations({p1, p2}) \cup Permutations({s1, s2}) \cup Permutations({c1, c2})

Busy == {s \in Session : appReq[s].phase # "idle"}

Application ==
  /\ mix \in {"solo", "pair"} /\ UNCHANGED <<otpVars, vars>>
  /\ AppNext
  /\ mix = "solo" => Cardinality(Busy') <= 1
  /\ mix = "pair" =>
       /\ docs' = docs /\ Len(pays') <= 1
       /\ appSub'.plan = appSub.plan
       /\ app'.due # "past" \/ app'.stage \in InFlight \cup Terminal
       /\ \A s \in Session : appReq'[s].op \notin {"business", "upload", "legal"}

Codes == mix = "codes" /\ UNCHANGED <<appVars, vars>> /\ OtpNext

Renewals == mix = "renewals" /\ UNCHANGED <<appVars, otpVars>> /\ Next

MCInit ==
  /\ AppInit /\ OtpInit /\ Init
  /\ mix \in {"solo", "pair", "codes", "renewals"}
  /\ mix = "pair" => Legacy /\ ~auto
  /\ mix \in {"codes", "renewals"} => Fresh /\ ~auto
  /\ mix # "renewals" => \A r \in Restaurants : sub[r] = [status |-> "ACTIVE", expiry |-> 1]

MCNext == UNCHANGED mix /\ (Application \/ Codes \/ Renewals)

MCSpec == MCInit /\ [][MCNext]_<<appVars, otpVars, vars, mix>>

\* The rows and requests of an application and of its codes have their types.
IntakeTypeOK == AppTypeOK /\ OtpTypeOK
=============================================================================
