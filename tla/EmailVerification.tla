-------------------------- MODULE EmailVerification --------------------------
(***************************************************************************)
(* Register, VerifyEmail and ResendVerification of internal/app/auth: how  *)
(* a user comes to own an address.  VerifyEmail reads the code outside the *)
(* transaction that redeems it, and ResendVerification replaces the code   *)
(* in two statements without one, so requests of the same user interleave. *)
(***************************************************************************)
EXTENDS AuthStore

CONSTANTS
  MaxAttempts,     \* MAX_ATTEMPTS
  ResendCooldown   \* RESEND_COOLDOWN, in ticks

VARIABLES  \* mailboxes, and history read by the properties only
  mailed,     \* codes that have reached their user's mailbox
  lastCode,   \* [Users -> ticks since a code was last created for the user]
  invalid     \* [Codes -> answers "invalid code" given to wrong guesses at it]

mailHistory == <<mailed, lastCode, invalid>>
verificationVars == <<tables, req, mailHistory>>

\* An id is free again once its row and every request that read it are gone.
FreshCode(c) ==
  /\ ~CodeExists(c)
  /\ \A r \in Requests : req[r].at \in {"mail", "consume", "count"} => req[r].code # c

\* Six digits drawn anew: a mail about an earlier row is of no use for this one.
NewCode(tbl, c, u) ==
  /\ FreshCode(c)
  /\ verifications' = CreateEmailVerification(tbl, c, u)
  /\ mailed' = mailed \ {c}
  /\ lastCode' = [lastCode EXCEPT ![u] = 0]
  /\ invalid' = [invalid EXCEPT ![c] = 0]

-----------------------------------------------------------------------------
(* Register: the user and the first code are one transaction; a taken       *)
(* e-mail or username ends it.  The mail goes out after the commit.         *)

Register(r, u) ==
  /\ users[u] = "none"
  /\ \E c \in Codes :
       /\ Begin(r, [at |-> "mail", code |-> c])
       /\ NewCode(verifications, c, u)
  /\ users' = [users EXCEPT ![u] = "unverified"]
  /\ UNCHANGED sessions

\* A mail that fails is an Abort here: the answer is an error, the row stays.
SendVerificationCode(r) ==
  /\ Continue(r, "mail", Idle)
  /\ mailed' = mailed \cup {req[r].code}
  /\ UNCHANGED <<tables, lastCode, invalid>>

-----------------------------------------------------------------------------
(* VerifyEmail *)

\* Mutant: the attempt is counted against the code submitted.
VerifyReadSubmitted(r, u, c) ==
  LET active == GetActiveEmailVerification(u) IN
  /\ users[u] # "none"
  /\ HasActive(u)
  /\ verifications[active].age <= CodeTTL
  /\ Begin(r, IF c = active THEN [at |-> "consume", code |-> c, user |-> u]
                             ELSE [at |-> "count", code |-> c])
  /\ UNCHANGED <<tables, mailHistory>>

\* What the reads settle about a submission of c (Null: a wrong guess) for u.
\* An unknown address, no active code or an expired one end the request.
VerifyRead(r, u, c) ==
  LET active == GetActiveEmailVerification(u) IN
  /\ users[u] # "none"
  /\ HasActive(u)
  /\ verifications[active].age <= CodeTTL
  /\ Begin(r, IF c = active THEN [at |-> "consume", code |-> c, user |-> u]
                             ELSE [at |-> "count", code |-> active])
  /\ UNCHANGED <<tables, mailHistory>>

\* Mutant: one attempt too many.
MoreThanTooManyAttempts(attempts) == attempts > MaxAttempts

\* The increment returns the new count, which alone decides the answer.
TooManyAttempts(attempts) == attempts >= MaxAttempts

VerifyCount(r) ==
  LET c == req[r].code
      counted == IncrementVerificationAttempts(verifications, c, MaxAttempts)
  IN
  /\ Continue(r, "count", Idle)
  /\ verifications' = counted
  /\ invalid' =
       IF counted[c].user # Null /\ ~TooManyAttempts(counted[c].attempts)
       THEN [invalid EXCEPT ![c] = @ + 1]
       ELSE invalid
  /\ UNCHANGED <<users, sessions, mailed, lastCode>>

\* Mutant: the user is not marked verified.
VerifyConsumeOnly(r) ==
  LET u == req[r].user IN
  /\ Continue(r, "consume", Idle)
  /\ verifications' = ConsumeEmailVerification(verifications, req[r].code)
  /\ \E s \in SessionIds :
       FreshSession(s) /\ sessions' = CreateSession(sessions, s, u)
  /\ UNCHANGED <<users, mailHistory>>

VerifyConsume(r) ==
  LET u == req[r].user IN
  /\ Continue(r, "consume", Idle)
  /\ users' = [users EXCEPT ![u] = "verified"]
  /\ verifications' = ConsumeEmailVerification(verifications, req[r].code)
  /\ \E s \in SessionIds :
       FreshSession(s) /\ sessions' = CreateSession(sessions, s, u)
  /\ UNCHANGED mailHistory

-----------------------------------------------------------------------------
(* ResendVerification *)

\* Mutants: the cooldown is dropped; a user without a code counts as cooling down.
NeverCoolingDown(u) == FALSE
CoolingDownWithoutCode(u) ==
  HasActive(u) => verifications[GetActiveEmailVerification(u)].age < ResendCooldown

CoolingDown(u) ==
  HasActive(u) /\ verifications[GetActiveEmailVerification(u)].age < ResendCooldown

\* A verified or unknown address is a silent no-op.
ResendRead(r, u) ==
  /\ users[u] = "unverified"
  /\ Begin(r, [at |-> "cooldown", user |-> u])
  /\ UNCHANGED <<tables, mailHistory>>

\* So is an address in cooldown.  No code at all, for instance because it has
\* just been redeemed, is not a cooldown.
ResendCheck(r) ==
  LET u == req[r].user IN
  /\ Continue(r, "cooldown", IF CoolingDown(u) THEN Idle ELSE [at |-> "delete", user |-> u])
  /\ UNCHANGED <<tables, mailHistory>>

ResendDelete(r) ==
  LET u == req[r].user IN
  /\ Continue(r, "delete", [at |-> "create", user |-> u])
  /\ verifications' = DeleteEmailVerificationsByUser(verifications, u)
  /\ UNCHANGED <<users, sessions, mailHistory>>

ResendCreate(r) ==
  \E c \in Codes :
    /\ Continue(r, "create", [at |-> "mail", code |-> c])
    /\ NewCode(verifications, c, req[r].user)
    /\ UNCHANGED <<users, sessions>>

-----------------------------------------------------------------------------
MailInit == /\ mailed = {}
            /\ lastCode = [u \in Users |-> ResendCooldown]
            /\ invalid = [c \in Codes |-> 0]

Init == /\ users = [u \in Users |-> "none"]
        /\ sessions = [s \in SessionIds |-> NoSession]
        /\ verifications = [c \in Codes |-> NoVerification]
        /\ req = [r \in Requests |-> Idle]
        /\ MailInit

VerificationStep(r) ==
  \/ \E u \in Users : \/ Register(r, u)
                      \/ \E c \in mailed \cup {Null} : VerifyRead(r, u, c)
                      \/ ResendRead(r, u)
  \/ SendVerificationCode(r)
  \/ VerifyCount(r)
  \/ VerifyConsume(r)
  \/ ResendCheck(r)
  \/ ResendDelete(r)
  \/ ResendCreate(r)

MailTick ==
  /\ Tick
  /\ lastCode' = [u \in Users |-> IF lastCode[u] < ResendCooldown
                                  THEN lastCode[u] + 1 ELSE lastCode[u]]
  /\ UNCHANGED <<mailed, invalid>>

Fail(r) == Abort(r) /\ UNCHANGED mailHistory

Next == \/ \E r \in Requests : VerificationStep(r) \/ Fail(r)
        \/ MailTick

Spec == Init /\ [][Next]_verificationVars

(***************************************************************************)
(* Fairness.  Requests that have started finish now and then instead of    *)
(* failing for ever, a mail now and then arrives before its code expires,  *)
(* and the owner of the address keeps asking for a code and keeps          *)
(* submitting one that has arrived: nothing else is promised.              *)
(***************************************************************************)
StillGood(c) == CodeExists(c) /\ verifications[c].age <= CodeTTL

Fairness ==
  \A r \in Requests, u \in Users :
    /\ SF_verificationVars(ResendRead(r, u))
    /\ SF_verificationVars(ResendCheck(r))
    /\ SF_verificationVars(ResendDelete(r))
    /\ SF_verificationVars(ResendCreate(r))
    /\ SF_verificationVars(SendVerificationCode(r) /\ StillGood(req[r].code))
    /\ SF_verificationVars(\E c \in mailed : VerifyRead(r, u, c) /\ req'[r].at = "consume")
    /\ SF_verificationVars(VerifyConsume(r))
    /\ WF_verificationVars(SendVerificationCode(r) \/ VerifyCount(r) \/ Fail(r))
    /\ WF_verificationVars(MailTick)

-----------------------------------------------------------------------------
(* Properties *)

\* What the requests of this module hold; Sessions has others.
Holds(r) ==
  /\ req[r].at \in {"mail", "count", "consume"} => req[r].code \in Codes
  /\ req[r].at \in {"consume", "cooldown", "delete", "create"} => req[r].user \in Users

TypeOK ==
  /\ users \in [Users -> {"none", "unverified", "verified"}]
  /\ sessions \in [SessionIds -> Session]
  /\ verifications \in [Codes -> Verification(MaxAttempts)]
  /\ \A r \in Requests : Holds(r)
  /\ mailed \subseteq Codes
  /\ lastCode \in [Users -> 0 .. ResendCooldown]
  /\ invalid \in [Codes -> Nat]

\* However many wrong guesses race each other, fewer than MAX_ATTEMPTS of them
\* are answered "invalid code" for one code: no increment is lost.
InvalidAnswersBelowCap == \A c \in Codes : invalid[c] < MaxAttempts

\* One code opens one session (README.md:250, "single-use codes").
CodeIsSingleUse == \A c \in Codes : verifications[c].uses <= 1

\* A code whose wrong guesses have reached the cap verifies nobody any more
\* (README.md:250, "an attempt cap").
CapStopsTheCode ==
  \A c \in Codes : verifications[c].attempts = MaxAttempts => verifications[c].uses = 0

\* A user has one code that is still good, and none once verified.
OneActiveCode ==
  \A u \in Users : Cardinality(ActiveOf(u)) <= (IF users[u] = "verified" THEN 0 ELSE 1)

Created(u) == \E c \in Codes : ~CodeExists(c) /\ verifications'[c].user = u

\* Codes of one user are created at least the cooldown apart, also across a
\* request that failed between deleting the old code and creating the new one.
CooldownSpacesCodes ==
  [][\A u \in Users : Created(u) => lastCode[u] = ResendCooldown]_verificationVars

\* A registered user who keeps trying ends up verified, whatever was lost,
\* expired, guessed wrong or cut short on the way.
EventuallyVerified ==
  \A u \in Users : users[u] = "unverified" ~> users[u] = "verified"
=============================================================================
