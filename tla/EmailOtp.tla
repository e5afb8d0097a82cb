------------------------------- MODULE EmailOtp -------------------------------
(***************************************************************************)
(* The verification codes of services/email-verification.service.js, for   *)
(* one address and purpose.  Issuing a code deletes the rows there are and *)
(* creates one, in two statements that no constraint holds together;       *)
(* checking a code reads a row and writes it back by its id.               *)
(*                                                                         *)
(* A code is the number of its row.  A row ages through the marks the code *)
(* compares with: a minute (cooldown), ten (validity), fifteen (window).   *)
(***************************************************************************)
EXTENDS Integers, FiniteSets

CONSTANTS
  OtpSession,   \* concurrent requests for the address
  MaxCodes,     \* bound on the codes issued
  MaxTries,     \* OTP_MAX_ATTEMPTS
  MaxGuesses    \* bound on the wrong guesses at one code

ASSUME OtpAssumption == MaxCodes \in Nat /\ MaxTries \in Nat \ {0} /\ MaxGuesses \in Nat

VARIABLES
  otpRows,     \* EmailVerification rows
  otpNext,     \* the next code and row id
  otpReq,      \* what each session is doing
  otpMailed,   \* ghost: the code the applicant was last told is under way, or 0
  otpGuesses,  \* ghost: wrong guesses compared with each code
  otpDoubt     \* ghost: two requests overlapped, or one died with a guess uncounted

otpVars == <<otpRows, otpNext, otpReq, otpMailed, otpGuesses, otpDoubt>>

Code == 1..MaxCodes

\* age: 0 within the cooldown, 1 valid, 2 expired within the window, 3 older
OtpRow == [id : Code, attempts : 0..MaxTries, age : 0..3, verified : BOOLEAN]

OtpIdle == [phase |-> "idle", id |-> 0, attempts |-> 0]

OtpTypeOK ==
  /\ otpRows \subseteq OtpRow
  /\ otpNext \in 1..(MaxCodes + 1)
  /\ otpReq \in [OtpSession ->
       [phase : {"idle", "cooldown", "delete", "create", "mail", "undo", "wrong", "right"},
        id : 0..MaxCodes, attempts : 0..MaxTries]]
  /\ otpMailed \in 0..MaxCodes
  /\ otpGuesses \in [Code -> 0..MaxGuesses]
  /\ otpDoubt \in BOOLEAN

OtpInit ==
  /\ otpRows = {} /\ otpNext = 1
  /\ otpReq = [s \in OtpSession |-> OtpIdle]
  /\ otpMailed = 0
  /\ otpGuesses = [c \in Code |-> 0]
  /\ otpDoubt = FALSE

-----------------------------------------------------------------------------
(* Helpers *)

\* findFirst by createdAt, latest first
Newest(rows) == CHOOSE r \in rows : \A q \in rows : q.id <= r.id

\* Mutant: the rows of an address are left to expire.
Cleared_Not(rows) == rows

\* deleteMany of the address and purpose
Cleared(rows) == {}

OtpStart(s, phase, id, attempts) ==
  /\ otpReq[s] = OtpIdle
  /\ otpReq' = [otpReq EXCEPT ![s] = [phase |-> phase, id |-> id, attempts |-> attempts]]
  /\ otpDoubt' = (otpDoubt \/ \E t \in OtpSession \ {s} : otpReq[t] # OtpIdle)

OtpGoto(s, phase) == otpReq' = [otpReq EXCEPT ![s].phase = phase]
OtpAnswer(s)      == otpReq' = [otpReq EXCEPT ![s] = OtpIdle]

-----------------------------------------------------------------------------
(* sendVerificationOtp *)

\* The row found, any one, was sent within the window: refused.  The window's
\* limit is never counted to.
recentRequestCount(s) ==
  /\ otpRows = {} \/ \E r \in otpRows : r.age = 3
  /\ otpNext <= MaxCodes
  /\ OtpStart(s, "cooldown", 0, 0)
  /\ UNCHANGED <<otpRows, otpNext, otpMailed, otpGuesses>>

Cooldown(s) ==
  /\ otpReq[s].phase = "cooldown"
  /\ \/ /\ otpRows = {} \/ \E r \in otpRows : r.age > 0
        /\ OtpGoto(s, "delete")
     \/ /\ \E r \in otpRows : r.age = 0
        /\ OtpAnswer(s)
  /\ UNCHANGED <<otpRows, otpNext, otpMailed, otpGuesses, otpDoubt>>

\* Ghost: what was told of earlier codes no longer counts.
DeleteRows(s) ==
  /\ otpReq[s].phase = "delete"
  /\ otpRows' = Cleared(otpRows)
  /\ otpMailed' = 0
  /\ OtpGoto(s, "create")
  /\ UNCHANGED <<otpNext, otpGuesses, otpDoubt>>

\* Mutant: a code keeps the attempts of the one before.
Issued_Attempts(rows) == rows \cup {[id |-> otpNext, attempts |-> MaxTries + 1,
                                     age |-> 0, verified |-> FALSE]}

Issued(rows) ==
  rows \cup {[id |-> otpNext, attempts |-> 0, age |-> 0, verified |-> FALSE]}

CreateOtp(s) ==
  /\ otpReq[s].phase = "create"
  /\ otpNext <= MaxCodes
  /\ otpRows' = Issued(otpRows)
  /\ otpNext' = otpNext + 1
  /\ otpReq' = [otpReq EXCEPT ![s].phase = "mail", ![s].id = otpNext]
  /\ UNCHANGED <<otpMailed, otpGuesses, otpDoubt>>

SendOtpEmail(s) ==
  /\ otpReq[s].phase = "mail"
  /\ \/ otpMailed' = otpReq[s].id /\ OtpAnswer(s)
     \/ UNCHANGED otpMailed /\ OtpGoto(s, "undo")
  /\ UNCHANGED <<otpRows, otpNext, otpGuesses, otpDoubt>>

\* A code that could not be sent takes every row of the address with it.
UndoOtp(s) ==
  /\ otpReq[s].phase = "undo"
  /\ otpRows' = Cleared(otpRows)
  /\ OtpAnswer(s)
  /\ UNCHANGED <<otpNext, otpMailed, otpGuesses, otpDoubt>>

-----------------------------------------------------------------------------
(* verifyOtp *)

\* Mutant: one guess too many.
Open_More(r) == ~r.verified /\ r.age <= 1 /\ r.attempts <= MaxTries

Open(r) == ~r.verified /\ r.age <= 1 /\ r.attempts < MaxTries

Guess(s) ==
  /\ otpRows # {}
  /\ LET r == Newest(otpRows) IN
       /\ Open(r)
       /\ \/ /\ otpGuesses[r.id] < MaxGuesses
             /\ otpGuesses' = [otpGuesses EXCEPT ![r.id] = @ + 1]
             /\ OtpStart(s, "wrong", r.id, r.attempts)
          \/ /\ UNCHANGED otpGuesses
             /\ OtpStart(s, "right", r.id, r.attempts)
  /\ UNCHANGED <<otpRows, otpNext, otpMailed>>

\* Mutant: a wrong guess is not written back.
Counted_Not(r, attempts) == r

\* The number read, plus one: a write that crossed another loses it.
Counted(r, attempts) == [r EXCEPT !.attempts = attempts + 1]

\* The row the code was compared with; a new code may have replaced it since: an error.
Compared(s) == {r \in otpRows : r.id = otpReq[s].id}

WrongCode(s) ==
  /\ otpReq[s].phase = "wrong"
  /\ otpRows' = (otpRows \ Compared(s)) \cup
                   {Counted(r, otpReq[s].attempts) : r \in Compared(s)}
  /\ OtpAnswer(s)
  /\ UNCHANGED <<otpNext, otpMailed, otpGuesses, otpDoubt>>

RightCode(s) ==
  /\ otpReq[s].phase = "right"
  /\ otpRows' = (otpRows \ Compared(s)) \cup
                   {[r EXCEPT !.verified = TRUE, !.attempts = 0] : r \in Compared(s)}
  /\ OtpAnswer(s)
  /\ UNCHANGED <<otpNext, otpMailed, otpGuesses, otpDoubt>>

-----------------------------------------------------------------------------
(* Time, and deaths *)

\* A row is never younger than one created after it.
AgeOtp ==
  /\ \E r \in otpRows :
       /\ r.age < 3
       /\ \A q \in otpRows : q.id < r.id => q.age > r.age
       /\ otpRows' = (otpRows \ {r}) \cup {[r EXCEPT !.age = @ + 1]}
  /\ UNCHANGED <<otpNext, otpReq, otpMailed, otpGuesses, otpDoubt>>

DieOtp(s) ==
  /\ otpReq[s] # OtpIdle
  /\ OtpAnswer(s)
  /\ otpDoubt' = (otpDoubt \/ otpReq[s].phase = "wrong")
  /\ UNCHANGED <<otpRows, otpNext, otpMailed, otpGuesses>>

OtpNext ==
  \/ AgeOtp
  \/ \E s \in OtpSession :
       \/ recentRequestCount(s) \/ Cooldown(s) \/ DeleteRows(s) \/ CreateOtp(s)
       \/ SendOtpEmail(s) \/ UndoOtp(s) \/ Guess(s) \/ WrongCode(s) \/ RightCode(s)
       \/ DieOtp(s)

OtpSpec == OtpInit /\ [][OtpNext]_otpVars

-----------------------------------------------------------------------------
(* Properties *)

\* A code is compared with at most MaxTries wrong guesses, whatever is issued,
\* expires, or dies elsewhere in between; overlapping requests excepted.
TriesAreBounded == ~otpDoubt => \A c \in Code : otpGuesses[c] <= MaxTries

\* The code an applicant was last told is under way is the one row there is, and
\* so the one that counts: the codes before it, and those whose mail failed, are
\* gone; overlapping requests excepted.
LastCodeCounts ==
  ~otpDoubt /\ otpMailed # 0 =>
    {r.id : r \in otpRows} = {otpMailed}

\* What a code is worth: it withstands guessing, and the one last mailed is the one.
CodesAreSafe == TriesAreBounded /\ LastCodeCounts
=============================================================================
