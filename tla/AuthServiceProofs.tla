-------------------------- MODULE AuthServiceProofs --------------------------
(***************************************************************************)
(* What is proved of sessions in SessionsProofs holds of the whole         *)
(* service: registering, verifying and resending, interleaved with logins, *)
(* refreshes and logouts, keep the same invariant, although a verification *)
(* opens sessions too.                                                     *)
(***************************************************************************)
EXTENDS AuthService, SessionsProofs

-----------------------------------------------------------------------------
(* The steps of a verification *)

\* Users are registered and verified, and a verified user stays verified.
LEMMA UsersGrow ==
  ASSUME Inv, NEW r \in Requests, V!VerificationStep(r)
  PROVE  /\ users' \in [Users -> {"none", "unverified", "verified"}]
         /\ \A u \in Users : users[u] = "verified" => users'[u] = "verified"
<1> USE DEF Inv, TypeInv, TypeOK
<1>1. CASE \E u \in Users : V!Register(r, u)
  BY <1>1 DEF V!Register
<1>2. CASE V!VerifyConsume(r)
  <2>1. users' = [users EXCEPT ![req[r].user] = "verified"]
    BY <1>2 DEF V!VerifyConsume
  <2> QED  BY <2>1
<1>3. CASE UNCHANGED users
  BY <1>3
<1> QED
  BY <1>1, <1>2, <1>3 DEF V!VerificationStep, V!VerifyRead, V!ResendRead,
     V!SendVerificationCode,
     V!VerifyCount, V!ResendCheck, V!ResendDelete, V!ResendCreate, V!tables

\* Whatever stage the request goes to, it is none of those of Sessions.
LEMMA VerificationRequests ==
  ASSUME Inv, NEW r \in Requests, V!VerificationStep(r)
  PROVE  /\ req' = [q \in Requests |-> req'[q]]
         /\ \A q \in Requests : q # r => req'[q] = req[q]
         /\ req'[r].at \notin {"issue", "revokeAll", "rotate", "revoke"}
<1> USE DEF Inv, TypeInv, TypeOK, V!Begin, V!Continue, V!Idle
<1>1. CASE \E u \in Users : V!Register(r, u) \/ V!ResendRead(r, u)
  BY <1>1 DEF V!Register, V!ResendRead
<1>2. CASE \E u \in Users, c \in mailed \cup {Null} : V!VerifyRead(r, u, c)
  BY <1>2 DEF V!VerifyRead
<1>3. CASE V!SendVerificationCode(r) \/ V!VerifyCount(r) \/ V!VerifyConsume(r)
  BY <1>3 DEF V!SendVerificationCode, V!VerifyCount, V!VerifyConsume
<1>4. CASE V!ResendCheck(r)
  BY <1>4 DEF V!ResendCheck
<1>5. CASE V!ResendDelete(r) \/ V!ResendCreate(r)
  BY <1>5 DEF V!ResendDelete, V!ResendCreate
<1> QED
  BY <1>1, <1>2, <1>3, <1>4, <1>5 DEF V!VerificationStep

\* Sessions stay as they are, or one is opened for the user just verified.
LEMMA SessionsOpen ==
  ASSUME NEW r \in Requests, V!VerificationStep(r)
  PROVE  \/ UNCHANGED sessions
         \/ \E s \in SessionIds :
              /\ FreshSession(s)
              /\ sessions' = CreateSession(sessions, s, req[r].user)
              /\ req[r].at = "consume"
              /\ users' = [users EXCEPT ![req[r].user] = "verified"]
<1>1. CASE V!VerifyConsume(r)
  BY <1>1 DEF V!VerifyConsume, V!Continue, V!FreshSession, V!CreateSession, FreshSession,
     CreateSession
<1>2. CASE UNCHANGED sessions
  BY <1>2
<1> QED
  BY <1>1, <1>2 DEF V!VerificationStep, V!Register, V!VerifyRead, V!ResendRead,
     V!SendVerificationCode, V!VerifyCount, V!ResendCheck, V!ResendDelete,
        V!ResendCreate, V!tables

\* The user a code is redeemed for is the one it was asked for.
ConsumesHold == \A r \in Requests : req[r].at = "consume" => req[r].user \in Users

AuthInv == Inv /\ ConsumesHold

\* A verification's step keeps all that is claimed of sessions.
LEMMA VerificationKeepsInv ==
  ASSUME AuthInv, NEW r \in Requests, V!VerificationStep(r), UNCHANGED history
  PROVE  Inv'
<1>1. Inv /\ TypeInv /\ Relations
  BY DEF AuthInv, Inv, Relations
<1>2. /\ users' \in [Users -> {"none", "unverified", "verified"}]
      /\ \A u \in Users : users[u] = "verified" => users'[u] = "verified"
  BY <1>1, UsersGrow
<1>3. /\ req' = [q \in Requests |-> req'[q]]
      /\ \A q \in Requests : q # r => req'[q] = req[q]
      /\ req'[r].at \notin {"issue", "revokeAll", "rotate", "revoke"}
  BY <1>1, VerificationRequests
<1>4. \A q \in Requests : Holds(q)'
  BY <1>1, <1>3, RequestFields DEF TypeInv, Holds
<1>5. CASE UNCHANGED sessions
  <2>1. TypeInv'
    BY <1>1, <1>2, <1>3, <1>4, <1>5 DEF TypeInv, TypeOK, RowsComplete, history
  <2>2. ReadsHold'
    BY <1>1, <1>2, <1>3, <1>5, RequestFields DEF Inv, TypeInv, ReadsHold, Exists
  <2>3. Relations'
    <3>1. OnlyVerifiedHoldSessions'
      <4> SUFFICES ASSUME NEW t \in SessionIds, Exists(t)
                   PROVE  users'[sessions[t].user] = "verified"
        BY <1>5 DEF OnlyVerifiedHoldSessions, Exists
      <4>1. sessions[t].user \in Users /\ users[sessions[t].user] = "verified"
        BY <1>1 DEF TypeInv, TypeOK, RowsComplete, Session, Exists, Relations,
           OnlyVerifiedHoldSessions
      <4> QED  BY <4>1, <1>2
    <3> QED
      BY <1>1, <1>5, <3>1 DEF Relations, HistoryOfExisting, RotationKillsParent,
         NoStrayRevocation, SurvivorsRacedTheEnd, Exists, Live, Child, history
  <2> QED  BY <2>1, <2>2, <2>3 DEF Inv, Relations
<1>6. CASE ~UNCHANGED sessions
  <2>1. PICK s \in SessionIds :
          /\ FreshSession(s)
          /\ sessions' = CreateSession(sessions, s, req[r].user)
          /\ req[r].at = "consume"
          /\ users' = [users EXCEPT ![req[r].user] = "verified"]
    BY <1>6, SessionsOpen
  <2>2. PICK u \in Users : u = req[r].user
    BY <2>1 DEF AuthInv, ConsumesHold
  <2>3. users'[u] = "verified"
    BY <1>1, <2>1, <2>2 DEF TypeInv, TypeOK
  <2>4. Relations'
    BY <1>1, <1>2, <2>1, <2>2, <2>3, OpeningKeepsRelations
  <2>5. sessions' \in [SessionIds -> Session] /\ RowsComplete'
    BY <1>1, <2>1, <2>2, QueriesType, QueriesComplete DEF TypeInv, TypeOK, RowsComplete
  <2>6. TypeInv'
    BY <1>1, <1>2, <1>3, <1>4, <2>5 DEF TypeInv, TypeOK, history
  <2>7. \A t \in SessionIds : Exists(t) => sessions'[t] = sessions[t]
    BY <1>1, <2>1 DEF TypeInv, TypeOK, CreateSession, FreshSession, Exists
  <2>8. ReadsHold'
    BY <1>1, <1>2, <1>3, <2>7, RequestFields DEF Inv, TypeInv, ReadsHold, Exists
  <2> QED  BY <2>4, <2>6, <2>8 DEF Inv, Relations
<1> QED  BY <1>5, <1>6

-----------------------------------------------------------------------------
(* Every step of the service *)

\* Only the read of a code begins a redemption.
LEMMA VerificationKeepsConsumes ==
  ASSUME AuthInv, NEW r \in Requests, V!VerificationStep(r)
  PROVE  ConsumesHold'
<1> SUFFICES req'[r].at = "consume" => req'[r].user \in Users
  BY VerificationRequests DEF AuthInv, ConsumesHold
<1> USE DEF AuthInv, Inv, TypeInv, TypeOK, V!Begin, V!Continue, V!Idle
<1>1. CASE \E u \in Users, c \in mailed \cup {Null} : V!VerifyRead(r, u, c)
  BY <1>1 DEF V!VerifyRead
<1>2. CASE \E u \in Users : V!Register(r, u) \/ V!ResendRead(r, u)
  BY <1>2 DEF V!Register, V!ResendRead
<1>3. CASE V!SendVerificationCode(r) \/ V!VerifyCount(r) \/ V!VerifyConsume(r)
  BY <1>3 DEF V!SendVerificationCode, V!VerifyCount, V!VerifyConsume
<1>4. CASE V!ResendCheck(r)
  BY <1>4 DEF V!ResendCheck
<1>5. CASE V!ResendDelete(r) \/ V!ResendCreate(r)
  BY <1>5 DEF V!ResendDelete, V!ResendCreate
<1> QED
  BY <1>1, <1>2, <1>3, <1>4, <1>5 DEF V!VerificationStep

\* All other steps are steps of Sessions.
LEMMA OthersAreOfSessions ==
  AuthNext =>
    \/ \E r \in Requests : V!VerificationStep(r) /\ UNCHANGED history
    \/ Next
  BY DEF AuthNext, V!Fail, V!MailTick, V!Abort, V!Tick, Next, Abort, Tick, V!tables, tables,
         V!Idle, Idle, V!FreshSession, FreshSession,
         V!CodeExists, CodeExists, V!Older, Older

LEMMA SessionsKeepConsumes == AuthInv /\ [Next]_sessionVars => ConsumesHold'
<1> SUFFICES ASSUME AuthInv, [Next]_sessionVars, NEW r \in Requests
             PROVE  req'[r].at # "consume" \/ req'[r] = req[r]
  BY DEF AuthInv, ConsumesHold
<1> QED
  BY DEF AuthInv, Inv, TypeInv, TypeOK, Next, SessionStep, LoginRead, LoginIssue,
     RefreshReadRevoked, RefreshReadLive, ReadForRotation, RefreshRevokeAll, RefreshRotate,
     LogoutRead, LogoutRevoke, Abort, Tick, Begin, Continue, Idle, sessionVars, tables

\* The invariant of Sessions is one of the whole service.
LEMMA AuthInvariance == AuthSpec => []AuthInv
<1>1. AuthInit => AuthInv
  BY InitInv, NullAssumption, TTLAssumption
  DEF AuthInit, V!Init, V!NoSession, V!Idle, NoSession, Idle, HistoryInit, AuthInv,
     ConsumesHold, Inv,
      TypeInv, TypeOK, RowsComplete, Holds, Session, Ages, HistoryOfExisting, ReadsHold,
      OnlyVerifiedHoldSessions, RotationKillsParent, NoStrayRevocation, SurvivorsRacedTheEnd,
      Exists, Child
<1>2. AuthInv /\ [AuthNext]_authVars => AuthInv'
  <2> SUFFICES ASSUME AuthInv, [AuthNext]_authVars PROVE AuthInv'
    OBVIOUS
  <2>1. ASSUME NEW r \in Requests, V!VerificationStep(r), UNCHANGED history PROVE AuthInv'
    BY <2>1, VerificationKeepsInv, VerificationKeepsConsumes DEF AuthInv
  <2>2. CASE [Next]_sessionVars
    BY <2>2, StepTypeInv, StepReadsHold, StepRelations, SessionsKeepConsumes
    DEF AuthInv, Inv, Relations
  <2>3. UNCHANGED authVars => UNCHANGED sessionVars
    BY DEF authVars, sessionVars
  <2> QED  BY <2>1, <2>2, <2>3, OthersAreOfSessions
<1> QED  BY <1>1, <1>2, PTL DEF AuthSpec

-----------------------------------------------------------------------------
(* Results *)

\* No interleaving of the requests gives a session to a user whose e-mail is
\* not verified.
THEOREM VerifiedUsersHoldSessions == AuthSpec => []OnlyVerifiedHoldSessions
  BY AuthInvariance, PTL DEF AuthInv, Inv

\* Whatever else happens, a rotation's successor never lives beside its parent.
THEOREM RotationsAreAtomic == AuthSpec => []RotationKillsParent
  BY AuthInvariance, PTL DEF AuthInv, Inv

\* Nothing the service does revokes a session without one of the three causes.
THEOREM RevocationsHaveACause == AuthSpec => []NoStrayRevocation
  BY AuthInvariance, PTL DEF AuthInv, Inv

\* No request of any kind brings back a session that a replay has ended.
THEOREM ReplayAnswersAreFinal == AuthSpec => []CondemnedStayRevoked
<1>1. AuthInv => CondemnedStayRevoked
  BY DEF AuthInv, Inv, HistoryOfExisting, CondemnedStayRevoked, Live
<1> QED  BY <1>1, AuthInvariance, PTL

\* In the whole service, too, only a refresh that had read its token before a
\* replay or a logout leaves a successor behind.
THEOREM OnlyRacersEscape == AuthSpec => []SurvivorsRacedTheEnd
  BY AuthInvariance, PTL DEF AuthInv, Inv

-----------------------------------------------------------------------------
(* Without late rotations *)

\* A verification's step leaves every replay under way grounded.
LEMMA VerificationKeepsReplays ==
  ASSUME AuthInv, ReplaysHold, NEW r \in Requests, V!VerificationStep(r)
  PROVE  ReplaysHold'
<1>1. \A s \in SessionIds : sessions[s].state = "revoked" => sessions'[s] = sessions[s]
  BY SessionsOpen DEF AuthInv, Inv, TypeInv, TypeOK, FreshSession, CreateSession
<1>2. /\ \A q \in Requests : q # r => req'[q] = req[q]
      /\ req'[r].at # "revokeAll"
  BY VerificationRequests DEF AuthInv
<1> QED  BY <1>1, <1>2 DEF ReplaysHold

\* It issues a token or does nothing the promise knows of.
LEMMA VerificationPromise ==
  ASSUME AuthInv, NEW r \in Requests, V!VerificationStep(r)
  PROVE  Promise!Next \/ UNCHANGED Promise!tokenVars
<1>1. CASE UNCHANGED sessions
  BY <1>1 DEF Promise!tokenVars, Live
<1>2. CASE ~UNCHANGED sessions
  <2>1. PICK s \in SessionIds :
          /\ FreshSession(s)
          /\ sessions' = CreateSession(sessions, s, req[r].user)
          /\ req[r].user \in Users
    BY <1>2, SessionsOpen DEF AuthInv, ConsumesHold
  <2> QED  BY <2>1, OpeningIsIssue DEF AuthInv, Inv, TypeInv, TypeOK
<1> QED  BY <1>1, <1>2

\* The whole service keeps the promise for as long as no rotation commits over a
\* session that died since it was read, however its requests overlap otherwise.
THEOREM OnlyLateRotationsBreakTheService ==
  AuthSpec /\ []NoLateRotation => KeepsPromise
<1>1. AuthInit => ReplaysHold
  BY DEF AuthInit, V!Init, V!Idle, ReplaysHold
<1>2. AuthInit => Promise!Init
  BY NullAssumption DEF AuthInit, V!Init, V!NoSession, Promise!Init, Live
<1>3. UNCHANGED authVars => UNCHANGED sessionVars
  BY DEF authVars, sessionVars
<1>4. AuthInv /\ ReplaysHold /\ [AuthNext]_authVars => ReplaysHold'
  <2> SUFFICES ASSUME AuthInv, ReplaysHold, [AuthNext]_authVars PROVE ReplaysHold'
    OBVIOUS
  <2>1. CASE \E r \in Requests : V!VerificationStep(r)
    BY <2>1, VerificationKeepsReplays
  <2>2. CASE [Next]_sessionVars
    BY <2>2, StepReplaysHold DEF AuthInv
  <2> QED  BY <1>3, <2>1, <2>2, OthersAreOfSessions
<1>5. AuthInv /\ ReplaysHold /\ NoLateRotation' /\ [AuthNext]_authVars
        => [Promise!Next]_(Promise!tokenVars)
  <2> SUFFICES ASSUME AuthInv, ReplaysHold, NoLateRotation', [AuthNext]_authVars
               PROVE  [Promise!Next]_(Promise!tokenVars)
    OBVIOUS
  <2>1. CASE \E r \in Requests : V!VerificationStep(r)
    BY <2>1, VerificationPromise
  <2>2. CASE [Next]_sessionVars
    BY <2>2, StepPromise DEF AuthInv
  <2> QED  BY <1>3, <2>1, <2>2, OthersAreOfSessions
<1>6. AuthSpec => []ReplaysHold
  BY <1>1, <1>4, AuthInvariance, PTL DEF AuthSpec
<1> QED
  BY <1>2, <1>5, <1>6, AuthInvariance, PTL DEF AuthSpec, KeepsPromise, Promise!Spec

\* A replay ends all that descends from its token (service.go:316), unless a
\* rotation that had read the token before is late: nothing else escapes.
THEOREM OnlyLateRotationsOutliveAReplay ==
  AuthSpec /\ []NoLateRotation => []NoLiveDescendantOfCondemned
<1>1. SurvivorsRacedTheEnd /\ NoLateRotation /\ CondemnedStayRevoked
        => NoLiveDescendantOfCondemned
  BY DEF SurvivorsRacedTheEnd, NoLateRotation, CondemnedStayRevoked,
         NoLiveDescendantOfCondemned
<1> QED
  BY <1>1, OnlyRacersEscape, ReplayAnswersAreFinal, PTL
=============================================================================
