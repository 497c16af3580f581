----------------------------- MODULE AuthService -----------------------------
(***************************************************************************)
(* internal/app/auth as a whole: the requests of Sessions and of           *)
(* EmailVerification interleaved over the same tables, from a database     *)
(* without users.  The properties of Sessions are read here of sessions    *)
(* that verifications open, too.                                           *)
(***************************************************************************)
EXTENDS Sessions

CONSTANTS
  MaxAttempts,     \* MAX_ATTEMPTS
  ResendCooldown   \* RESEND_COOLDOWN, in ticks

\* The ages of codes saturate past CodeTTL, which must not blur the cooldown.
ASSUME VerificationAssumption ==
  /\ MaxAttempts \in Nat \ {0}
  /\ ResendCooldown \in 0 .. CodeTTL

VARIABLES mailed, lastCode, invalid

V == INSTANCE EmailVerification

mailHistory == <<mailed, lastCode, invalid>>
authVars == <<tables, req, history, mailHistory>>

AuthInit == V!Init /\ HistoryInit

AuthNext ==
  \/ \E r \in Requests :
       \/ SessionStep(r) /\ UNCHANGED mailHistory
       \/ V!VerificationStep(r) /\ UNCHANGED history
       \/ V!Fail(r) /\ UNCHANGED history
  \/ V!MailTick /\ UNCHANGED history

AuthSpec == AuthInit /\ [][AuthNext]_authVars

\* Logins, refreshes and logouts happen or not, and do not keep a registered
\* user from being verified.
FairSpec == AuthSpec /\ V!Fairness

-----------------------------------------------------------------------------
(* Properties *)

AuthTypeOK == TypeOK /\ V!TypeOK

\* However many wrong guesses race each other and the resends that replace the
\* code, fewer than MAX_ATTEMPTS of them are answered "invalid code" for one code.
InvalidAnswersBelowCap == V!InvalidAnswersBelowCap

\* With requests one after the other, one code opens one session
\* (README.md:250, "single-use codes").
CodeIsSingleUse == V!CodeIsSingleUse

\* A user has one code that is still good, and none once verified, although a
\* resend replaces the code in two statements that may be cut apart.
OneActiveCode == V!OneActiveCode

\* Codes of one user are created at least the cooldown apart, also across a
\* request that failed between deleting the old code and creating the new one.
CooldownSpacesCodes == V!CooldownSpacesCodes

\* A registered user who keeps trying ends up verified, whatever was lost,
\* expired, guessed wrong or cut short on the way, and whatever else the
\* user's requests do meanwhile.
EventuallyVerified == V!EventuallyVerified
=============================================================================
