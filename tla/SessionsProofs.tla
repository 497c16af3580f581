---------------------------- MODULE SessionsProofs ----------------------------
(***************************************************************************)
(* What holds of refresh tokens for every number of users, sessions and    *)
(* requests in flight, however their round trips interleave.               *)
(***************************************************************************)
EXTENDS Sessions, TLAPS

(***************************************************************************)
(* The properties are not inductive alone.  Two links are missing: a       *)
(* session row that does not exist is mentioned nowhere, so inserting it   *)
(* disturbs nothing, and what a request has read of a row's owner is       *)
(* still true when it writes, because rows never change hands.             *)
(***************************************************************************)
RowsComplete ==
  \A s \in SessionIds : sessions[s].user = Null <=> sessions[s].state = "none"

HistoryOfExisting ==
  /\ \A s \in condemned : sessions[s].state = "revoked"
  /\ \A s \in loggedOut : sessions[s].state = "revoked"
  /\ \A s, p \in SessionIds : Child(s, p) => Exists(s) /\ Exists(p)

ReadsHold ==
  \A r \in Requests :
    /\ req[r].at = "issue" => users[req[r].user] = "verified"
    /\ req[r].at = "rotate" =>
         /\ Exists(req[r].session)
         /\ sessions[req[r].session].user = req[r].user
         /\ req[r].saw = "live"
    /\ req[r].at = "revoke" => Exists(req[r].session)

TypeInv == TypeOK /\ RowsComplete

Inv == /\ TypeInv
       /\ HistoryOfExisting
       /\ ReadsHold
       /\ OnlyVerifiedHoldSessions
       /\ RotationKillsParent
       /\ NoStrayRevocation
       /\ SurvivorsRacedTheEnd

-----------------------------------------------------------------------------
(* Type correctness *)

USE NullAssumption, TTLAssumption

\* An age one tick older is still an age.
LEMMA OlderType ==
  ASSUME NEW age \in Ages(RefreshTTL)
  PROVE  Older(age, RefreshTTL) \in Ages(RefreshTTL)
  BY DEF Ages, Older

\* The three queries that write the session table keep its type.
LEMMA QueriesType ==
  ASSUME sessions \in [SessionIds -> Session]
  PROVE  /\ \A s \in SessionIds, u \in Users :
              CreateSession(sessions, s, u) \in [SessionIds -> Session]
         /\ \A s \in SessionIds :
              RevokeSession(sessions, s) \in [SessionIds -> Session]
         /\ \A u \in Users :
              RevokeAllUserSessions(sessions, u) \in [SessionIds -> Session]
         /\ \A old, s \in SessionIds, u \in Users :
              Rotation(old, s, u) \in [SessionIds -> Session]
  <1>1. 0 \in Ages(RefreshTTL)
    BY DEF Ages
  <1>2. QED
    BY <1>1 DEF CreateSession, RevokeSession, RevokeAllUserSessions, Rotation, Session

\* What may be read of a request at each of its stages.
LEMMA RequestFields ==
  ASSUME TypeOK, NEW r \in Requests
  PROVE  /\ req[r].at \in {"issue", "revokeAll", "rotate"} => req[r].user \in Users
         /\ req[r].at \in {"rotate", "revoke"} => req[r].session \in SessionIds
         /\ req[r].at = "rotate" => req[r].saw \in {"live", "revoked"}
  BY DEF TypeOK, Holds

\* The types hold in the empty tables.
LEMMA InitTypeInv == Init => TypeInv
  BY DEF Init, HistoryInit, TypeInv, TypeOK, RowsComplete, Idle, Holds,
         NoSession, Session, Ages

\* The queries touch the owner of no row but the one they insert.
LEMMA QueriesComplete ==
  ASSUME sessions \in [SessionIds -> Session], RowsComplete,
         NEW tbl \in [SessionIds -> Session],
         \/ \E s \in SessionIds : Exists(s) /\ tbl = RevokeSession(sessions, s)
         \/ \E u \in Users : tbl = RevokeAllUserSessions(sessions, u)
         \/ \E s \in SessionIds, u \in Users : tbl = CreateSession(sessions, s, u)
         \/ \E old, s \in SessionIds, u \in Users :
              Exists(old) /\ tbl = Rotation(old, s, u)
  PROVE  \A s \in SessionIds : tbl[s].user = Null <=> tbl[s].state = "none"
  BY DEF RowsComplete, Exists, RevokeSession, RevokeAllUserSessions, CreateSession,
         Rotation, Session

\* Every step preserves the types, and rows that exist have an owner.
LEMMA StepTypeInv == TypeInv /\ ReadsHold /\ [Next]_sessionVars => TypeInv'
  <1> SUFFICES ASSUME TypeInv, ReadsHold, [Next]_sessionVars PROVE TypeInv'
    OBVIOUS
  <1> USE DEF TypeInv, TypeOK, tables, history, Begin, Continue, Idle, Holds
  <1>1. ASSUME NEW r \in Requests, NEW u \in Users, LoginRead(r, u) PROVE TypeInv'
    BY <1>1 DEF LoginRead, RowsComplete
  <1>2. ASSUME NEW r \in Requests, LoginIssue(r) PROVE TypeInv'
    <2>1. PICK s \in SessionIds : sessions' = CreateSession(sessions, s, req[r].user)
      BY <1>2 DEF LoginIssue
    <2>2. req[r].user \in Users
      BY <1>2, RequestFields DEF LoginIssue
    <2>3. sessions' \in [SessionIds -> Session]
      BY <2>1, <2>2, QueriesType
    <2>4. RowsComplete'
      BY <2>1, <2>2, <2>3, QueriesComplete DEF RowsComplete
    <2>5. QED
      BY <1>2, <2>3, <2>4 DEF LoginIssue
  <1>3. ASSUME NEW r \in Requests, NEW s \in SessionIds, RefreshReadRevoked(r, s)
        PROVE  TypeInv'
    <2>1. sessions[s].user \in Users
      BY <1>3 DEF RefreshReadRevoked, RowsComplete, Session
    <2>2. QED
      BY <1>3, <2>1 DEF RefreshReadRevoked, RowsComplete
  <1>4. ASSUME NEW r \in Requests, NEW s \in SessionIds, RefreshReadLive(r, s)
        PROVE  TypeInv'
    <2>1. sessions[s].user \in Users
      BY <1>4 DEF RefreshReadLive, ReadForRotation, RowsComplete, Session
    <2>2. QED
      BY <1>4, <2>1 DEF RefreshReadLive, ReadForRotation, RowsComplete
  <1>5. ASSUME NEW r \in Requests, RefreshRevokeAll(r) PROVE TypeInv'
    <2>1. RowsComplete'
      BY <1>5, QueriesType, QueriesComplete, RequestFields
      DEF RefreshRevokeAll, RowsComplete
    <2>2. QED
      BY <1>5, <2>1, QueriesType, RequestFields DEF RefreshRevokeAll
  <1>6. ASSUME NEW r \in Requests, RefreshRotate(r) PROVE TypeInv'
    <2>1. PICK s \in SessionIds :
            /\ sessions' = Rotation(req[r].session, s, req[r].user)
            /\ parent' = [parent EXCEPT ![s] = req[r].session]
            /\ late' \in {late, late \cup {s}}
      BY <1>6 DEF RefreshRotate
    <2>2. req[r].session \in SessionIds /\ req[r].user \in Users /\ Exists(req[r].session)
      BY <1>6, RequestFields DEF RefreshRotate, ReadsHold
    <2>3. sessions' \in [SessionIds -> Session]
      BY <2>1, <2>2, QueriesType
    <2>4. RowsComplete'
      BY <2>1, <2>2, <2>3, QueriesComplete DEF RowsComplete
    <2>5. QED
      BY <1>6, <2>1, <2>2, <2>3, <2>4 DEF RefreshRotate
  <1>7. ASSUME NEW r \in Requests, NEW s \in SessionIds, LogoutRead(r, s)
        PROVE  TypeInv'
    BY <1>7 DEF LogoutRead, RowsComplete
  <1>8. ASSUME NEW r \in Requests, LogoutRevoke(r) PROVE TypeInv'
    <2>1. req[r].session \in SessionIds /\ Exists(req[r].session)
      BY <1>8, RequestFields DEF LogoutRevoke, ReadsHold
    <2>2. RowsComplete'
      BY <1>8, <2>1, QueriesType, QueriesComplete DEF LogoutRevoke, RowsComplete
    <2>3. QED
      BY <1>8, <2>1, <2>2, QueriesType DEF LogoutRevoke
  <1>9. ASSUME NEW r \in Requests, Abort(r), UNCHANGED history PROVE TypeInv'
    BY <1>9 DEF Abort, RowsComplete
  <1>10. ASSUME Tick, UNCHANGED history PROVE TypeInv'
    <2>1. sessions' \in [SessionIds -> Session]
      BY <1>10, OlderType DEF Tick, FreshSession, Session
    <2>2. QED
      BY <1>10, <2>1 DEF Tick, RowsComplete, FreshSession, Session
  <1>11. CASE UNCHANGED sessionVars
    BY <1>11 DEF sessionVars, RowsComplete
  <1> QED
    BY <1>1, <1>2, <1>3, <1>4, <1>5, <1>6, <1>7, <1>8, <1>9, <1>10, <1>11
    DEF Next, SessionStep

-----------------------------------------------------------------------------
(* Safety *)

Relations == /\ HistoryOfExisting
             /\ OnlyVerifiedHoldSessions
             /\ RotationKillsParent
             /\ NoStrayRevocation
             /\ SurvivorsRacedTheEnd

\* A step that writes neither a table nor the history keeps every relation
\* between them.
LEMMA ReadsKeepRelations ==
  ASSUME Relations, UNCHANGED <<users, sessions, history>>
  PROVE  Relations'
  BY DEF Relations, HistoryOfExisting, OnlyVerifiedHoldSessions, RotationKillsParent,
         NoStrayRevocation, SurvivorsRacedTheEnd, Exists, Live, Child, history

\* Rows keep their owner and never vanish, so what requests have read of them
\* stays true whatever the other requests write.
LEMMA RowsKeepOwner ==
  ASSUME TypeInv, ReadsHold, [Next]_sessionVars, NEW s \in SessionIds, Exists(s)
  PROVE  Exists(s)' /\ sessions'[s].user = sessions[s].user
  <1> USE DEF TypeInv, TypeOK, Exists, FreshSession, Session
  <1>1. ASSUME NEW r \in Requests, LoginIssue(r) \/ RefreshRevokeAll(r) \/ LogoutRevoke(r)
        PROVE  Exists(s)' /\ sessions'[s].user = sessions[s].user
    BY <1>1 DEF LoginIssue, RefreshRevokeAll, LogoutRevoke, CreateSession,
                RevokeAllUserSessions, RevokeSession
  <1>2. ASSUME NEW r \in Requests, RefreshRotate(r)
        PROVE  Exists(s)' /\ sessions'[s].user = sessions[s].user
    BY <1>2 DEF RefreshRotate, Rotation, CreateSession, RevokeSession
  <1>3. ASSUME Tick
        PROVE  Exists(s)' /\ sessions'[s].user = sessions[s].user
    BY <1>3 DEF Tick
  <1>4. ASSUME UNCHANGED sessions
        PROVE  Exists(s)' /\ sessions'[s].user = sessions[s].user
    BY <1>4
  <1> QED
    BY <1>1, <1>2, <1>3, <1>4 DEF Next, SessionStep, LoginRead, RefreshReadRevoked,
       RefreshReadLive, ReadForRotation, LogoutRead, Abort, sessionVars, tables

\* No step of these requests touches a user.
LEMMA UsersUnchanged == [Next]_sessionVars => UNCHANGED users
  BY DEF Next, SessionStep, LoginRead, LoginIssue, RefreshReadRevoked, RefreshReadLive,
     ReadForRotation,
     RefreshRevokeAll, RefreshRotate, LogoutRead, LogoutRevoke, Abort, Tick,
     sessionVars, tables

\* What a request has read is still so when it writes.
LEMMA StepReadsHold == Inv /\ [Next]_sessionVars => ReadsHold'
  <1> SUFFICES ASSUME Inv, [Next]_sessionVars, NEW r \in Requests
               PROVE  /\ req'[r].at = "issue" => users'[req'[r].user] = "verified"
                      /\ req'[r].at = "rotate" =>
                           /\ sessions'[req'[r].session].state # "none"
                           /\ sessions'[req'[r].session].user = req'[r].user
                           /\ req'[r].saw = "live"
                      /\ req'[r].at = "revoke" =>
                           sessions'[req'[r].session].state # "none"
    BY DEF ReadsHold, Exists
  <1>1. users' = users
    BY UsersUnchanged
  <1>2. \A s \in SessionIds :
          sessions[s].state # "none" =>
            sessions'[s].state # "none" /\ sessions'[s].user = sessions[s].user
    BY RowsKeepOwner DEF Inv, TypeInv, Exists
  <1>3. Holds(r)'
    BY StepTypeInv DEF Inv, TypeInv, TypeOK
  <1>4. CASE req'[r] = req[r]
    BY <1>1, <1>2, <1>4, RequestFields DEF Inv, TypeInv, TypeOK, ReadsHold, Exists
  <1>5. CASE req'[r] = Idle
    BY <1>5 DEF Idle
  <1>6. ASSUME NEW u \in Users, LoginRead(r, u)
        PROVE  req'[r].at = "issue" /\ users[req'[r].user] = "verified"
    BY <1>6 DEF LoginRead, Begin, Inv, TypeInv, TypeOK
  <1>7. ASSUME NEW s \in SessionIds,
               \/ RefreshReadRevoked(r, s) \/ RefreshReadLive(r, s) \/ LogoutRead(r, s)
        PROVE  /\ req'[r].at # "issue"
               /\ req'[r].at = "rotate" =>
                         /\ sessions'[req'[r].session].state # "none"
                         /\ sessions'[req'[r].session].user = req'[r].user
                         /\ req'[r].saw = "live"
               /\ req'[r].at = "revoke" =>
                         sessions'[req'[r].session].state # "none"
    BY <1>7 DEF RefreshReadRevoked, RefreshReadLive, ReadForRotation, LogoutRead, Begin,
                FreshSession,
                Inv, TypeInv, TypeOK, tables
  <1>8. \/ req'[r] = req[r]
        \/ req'[r] = Idle
        \/ \E u \in Users : LoginRead(r, u)
        \/ \E s \in SessionIds : \/ RefreshReadRevoked(r, s)
                                 \/ RefreshReadLive(r, s)
                                 \/ LogoutRead(r, s)
    BY DEF Inv, TypeInv, TypeOK, Next, SessionStep, LoginRead, LoginIssue,
       RefreshReadRevoked,
       RefreshReadLive, ReadForRotation, RefreshRevokeAll, RefreshRotate, LogoutRead,
       LogoutRevoke, Abort,
       Tick, Begin, Continue, sessionVars, tables
  <1> QED
    BY <1>1, <1>4, <1>5, <1>6, <1>7, <1>8

\* Opening a session for a verified user keeps them, too.
LEMMA OpeningKeepsRelations ==
  ASSUME TypeInv, Relations,
         NEW s \in SessionIds, FreshSession(s),
         NEW u \in Users, users'[u] = "verified",
         sessions' = CreateSession(sessions, s, u),
         \A v \in Users : users[v] = "verified" => users'[v] = "verified",
         UNCHANGED history
  PROVE  Relations'
  <1> USE DEF TypeInv, TypeOK, Session, Exists, Live, Child, FreshSession,
  CreateSession, history
  <1>1. HistoryOfExisting'
    BY DEF Relations, HistoryOfExisting
  <1>2. OnlyVerifiedHoldSessions'
    <2> SUFFICES ASSUME NEW t \in SessionIds, sessions'[t].state # "none"
                 PROVE  users'[sessions'[t].user] = "verified"
      BY DEF OnlyVerifiedHoldSessions
    <2>1. CASE t = s
      BY <2>1
    <2>2. CASE t # s
      <3>1. sessions'[t] = sessions[t]
        BY <2>2
      <3>2. users[sessions[t].user] = "verified" /\ sessions[t].user \in Users
        BY <3>1 DEF Relations, OnlyVerifiedHoldSessions, RowsComplete
      <3> QED  BY <3>1, <3>2
    <2> QED  BY <2>1, <2>2
  <1>3. RotationKillsParent'
    BY DEF Relations, RotationKillsParent, HistoryOfExisting
  <1>4. NoStrayRevocation'
    BY DEF Relations, NoStrayRevocation
  <1>5. SurvivorsRacedTheEnd'
    BY DEF Relations, SurvivorsRacedTheEnd
  <1> QED  BY <1>1, <1>2, <1>3, <1>4, <1>5 DEF Relations

\* Every step keeps what is claimed of sessions and their history.
LEMMA StepRelations == Inv /\ [Next]_sessionVars => Relations'
  <1> SUFFICES ASSUME Inv, [Next]_sessionVars PROVE Relations'
    OBVIOUS
  <1> USE DEF Inv, TypeInv, TypeOK, Session, Exists, Live, Child, FreshSession
  <1>1. Relations /\ UNCHANGED users
    BY UsersUnchanged DEF Relations
  <1>2. ASSUME UNCHANGED <<sessions, history>> PROVE Relations'
    BY <1>1, <1>2, ReadsKeepRelations
  <1>3. ASSUME NEW r \in Requests, LoginIssue(r) PROVE Relations'
    <2>1. PICK s \in SessionIds :
            FreshSession(s) /\ sessions' = CreateSession(sessions, s, req[r].user)
      BY <1>3 DEF LoginIssue
    <2>2. req[r].user \in Users /\ users[req[r].user] = "verified"
      BY <1>3, RequestFields DEF LoginIssue, Continue, ReadsHold
    <2>3. UNCHANGED history
      BY <1>3 DEF LoginIssue
    <2> HIDE DEF TypeInv, TypeOK
    <2>4. QED
      BY <1>1, <2>1, <2>2, <2>3, OpeningKeepsRelations
  <1>4. ASSUME NEW r \in Requests, RefreshRevokeAll(r) PROVE Relations'
    <2>1. req[r].user \in Users
      BY <1>4, RequestFields DEF RefreshRevokeAll, Continue
    <2> USE <1>1, <1>4, <2>1 DEF RefreshRevokeAll, RevokeAllUserSessions
    <2>2. HistoryOfExisting'
      BY DEF HistoryOfExisting, RowsComplete
    <2>3. OnlyVerifiedHoldSessions'
      BY DEF OnlyVerifiedHoldSessions
    <2>4. RotationKillsParent'
      BY DEF RotationKillsParent
    <2>5. NoStrayRevocation'
      BY DEF NoStrayRevocation
    <2>6. SurvivorsRacedTheEnd'
      BY DEF SurvivorsRacedTheEnd, RotationKillsParent
    <2>7. QED
      BY <2>2, <2>3, <2>4, <2>5, <2>6 DEF Relations
  <1>5. ASSUME NEW r \in Requests, RefreshRotate(r) PROVE Relations'
    <2> DEFINE old == req[r].session
    <2>1. /\ old \in SessionIds /\ req[r].user \in Users
          /\ Exists(old) /\ sessions[old].user = req[r].user /\ req[r].saw = "live"
      BY <1>5, RequestFields DEF RefreshRotate, Continue, ReadsHold
    <2>2. PICK s \in SessionIds :
            /\ FreshSession(s)
            /\ sessions' = Rotation(old, s, req[r].user)
            /\ parent' = [parent EXCEPT ![s] = old]
            /\ late' = IF req[r].saw = "live" /\ sessions[old].state = "revoked"
                       THEN late \cup {s} ELSE late
      BY <1>5 DEF RefreshRotate
    <2>3. condemned' = condemned /\ loggedOut' = loggedOut
      BY <1>5 DEF RefreshRotate
    <2>4. old # s /\ old # Null /\ parent[s] = Null
      BY <1>1, <2>1, <2>2 DEF Relations, HistoryOfExisting
    <2> HIDE DEF old
    <2> USE <1>1, <2>1, <2>2, <2>3, <2>4 DEF Rotation, CreateSession, RevokeSession
    <2>5. HistoryOfExisting'
      <3>1. \A t \in SessionIds : Exists(t) => Exists(t)'
        OBVIOUS
      <3>2. Exists(s)' /\ s \notin condemned
        BY DEF Relations, HistoryOfExisting
      <3>3. \A t \in condemned : sessions'[t].state = "revoked"
        BY <3>2 DEF Relations, HistoryOfExisting
      <3>4. \A t \in loggedOut : sessions'[t].state = "revoked"
        BY DEF Relations, HistoryOfExisting
      <3>5. ASSUME NEW t \in SessionIds, NEW p \in SessionIds, Child(t, p)'
            PROVE  Exists(t)' /\ Exists(p)'
        BY <3>1, <3>2, <3>5 DEF Relations, HistoryOfExisting
      <3> QED  BY <3>3, <3>4, <3>5 DEF HistoryOfExisting
    <2>6. OnlyVerifiedHoldSessions'
      BY DEF OnlyVerifiedHoldSessions
    <2>7. RotationKillsParent'
      BY DEF RotationKillsParent, HistoryOfExisting
    <2>8. NoStrayRevocation'
      <3> SUFFICES ASSUME NEW t \in SessionIds, sessions'[t].state = "revoked"
                   PROVE  \/ t \in loggedOut \cup condemned
                          \/ \E c \in SessionIds : Child(c, t)'
        BY DEF NoStrayRevocation
      <3>1. CASE t = old
        BY <3>1
      <3>2. CASE t # old
        <4>1. sessions[t].state = "revoked"
          BY <3>2
        <4>2. \A c \in SessionIds : Child(c, t) => Child(c, t)'
          OBVIOUS
        <4> QED  BY <4>1, <4>2 DEF NoStrayRevocation
      <3> QED  BY <3>1, <3>2
    <2>9. SurvivorsRacedTheEnd'
      BY DEF SurvivorsRacedTheEnd, HistoryOfExisting
    <2>10. QED
      BY <2>5, <2>6, <2>7, <2>8, <2>9 DEF Relations
  <1>6. ASSUME NEW r \in Requests, LogoutRevoke(r) PROVE Relations'
    <2>1. req[r].session \in SessionIds /\ Exists(req[r].session)
      BY <1>6, RequestFields DEF LogoutRevoke, Continue, ReadsHold
    <2> USE <1>1, <1>6, <2>1 DEF LogoutRevoke, RevokeSession
    <2>2. HistoryOfExisting'
      BY DEF HistoryOfExisting
    <2>3. OnlyVerifiedHoldSessions'
      BY DEF OnlyVerifiedHoldSessions
    <2>4. RotationKillsParent'
      BY DEF RotationKillsParent
    <2>5. NoStrayRevocation'
      BY DEF NoStrayRevocation
    <2>6. SurvivorsRacedTheEnd'
      BY DEF SurvivorsRacedTheEnd, RotationKillsParent
    <2>7. QED
      BY <2>2, <2>3, <2>4, <2>5, <2>6 DEF Relations
  <1>7. ASSUME Tick, UNCHANGED history PROVE Relations'
    BY <1>1, <1>7
    DEF Tick, history, Relations, HistoryOfExisting, OnlyVerifiedHoldSessions,
        RotationKillsParent, NoStrayRevocation, SurvivorsRacedTheEnd
  <1> QED
    BY <1>2, <1>3, <1>4, <1>5, <1>6, <1>7
    DEF Next, SessionStep, LoginRead, RefreshReadRevoked, RefreshReadLive,
        ReadForRotation, LogoutRead,
        Abort, sessionVars, tables

\* The invariant holds in the empty tables.
LEMMA InitInv == Init => Inv
  BY InitTypeInv
  DEF Init, HistoryInit, Inv, HistoryOfExisting, ReadsHold, OnlyVerifiedHoldSessions,
      RotationKillsParent, NoStrayRevocation, SurvivorsRacedTheEnd, Exists, Child,
      NoSession, Idle

\* Inv is an inductive invariant of the specification.
THEOREM Invariance == Spec => []Inv
  <1>1. Inv /\ [Next]_sessionVars => Inv'
    BY StepTypeInv, StepReadsHold, StepRelations DEF Inv, Relations
  <1> QED
    BY InitInv, <1>1, PTL DEF Spec

\* The tables, the requests in flight and the history keep their types.
THEOREM TypeCorrectness == Spec => []TypeOK
  BY Invariance, PTL DEF Inv, TypeInv

\* Only users whose e-mail is verified hold sessions.
THEOREM SessionsOfVerifiedUsers == Spec => []OnlyVerifiedHoldSessions
  BY Invariance, PTL DEF Inv

\* A successor never lives beside the session it replaced.
THEOREM RotationIsAtomic == Spec => []RotationKillsParent
  BY Invariance, PTL DEF Inv

\* No session is revoked for another user's or another token's sake.
THEOREM RevocationHasACause == Spec => []NoStrayRevocation
  BY Invariance, PTL DEF Inv

\* The answer to a replay is final for every session that existed.
THEOREM ReplayAnswerIsFinal == Spec => []CondemnedStayRevoked
  <1>1. Inv => CondemnedStayRevoked
    BY DEF Inv, HistoryOfExisting, CondemnedStayRevoked, Live
  <1> QED
    BY <1>1, Invariance, PTL

\* The only way around the answer to a replay, or around a logout, is a refresh
\* that had read its token before it.
THEOREM OnlyRacersSurvive == Spec => []SurvivorsRacedTheEnd
  BY Invariance, PTL DEF Inv

-----------------------------------------------------------------------------
(***************************************************************************)
(* When the tables keep the promise of RefreshTokens: as long as no        *)
(* rotation commits over a parent that died since it was read.             *)
(***************************************************************************)

\* No rotation has committed over a session that died since it was read.
NoLateRotation == late = {}

\* A replay about to be answered did present a token that is still revoked.
ReplaysHold ==
  \A r \in Requests :
    req[r].at = "revokeAll" =>

           \E s \in SessionIds : sessions[s].state = "revoked" /\ sessions[s].user = req[r].user

\* No step brings a revoked session back to life.
LEMMA RevokedStaysRevoked ==
  ASSUME Inv, [Next]_sessionVars, NEW s \in SessionIds, sessions[s].state = "revoked"
  PROVE  sessions'[s].state = "revoked" /\ sessions'[s].user = sessions[s].user
  <1> USE DEF Inv, TypeInv, TypeOK, FreshSession, Session
  <1>1. ASSUME NEW r \in Requests, LoginIssue(r) \/ RefreshRevokeAll(r) \/ LogoutRevoke(r)
        PROVE  sessions'[s].state = "revoked" /\ sessions'[s].user = sessions[s].user
    BY <1>1 DEF LoginIssue, RefreshRevokeAll, LogoutRevoke, CreateSession,
                RevokeAllUserSessions, RevokeSession
  <1>2. ASSUME NEW r \in Requests, RefreshRotate(r)
        PROVE  sessions'[s].state = "revoked" /\ sessions'[s].user = sessions[s].user
    BY <1>2 DEF RefreshRotate, Rotation, CreateSession, RevokeSession
  <1>3. ASSUME Tick
        PROVE  sessions'[s].state = "revoked" /\ sessions'[s].user = sessions[s].user
    BY <1>3 DEF Tick
  <1> QED
    BY <1>1, <1>2, <1>3 DEF Next, SessionStep, LoginRead, RefreshReadRevoked,
       RefreshReadLive, ReadForRotation, LogoutRead, Abort, sessionVars, tables

\* Every step keeps the replays that are under way grounded.
LEMMA StepReplaysHold == Inv /\ ReplaysHold /\ [Next]_sessionVars => ReplaysHold'
  <1> SUFFICES ASSUME Inv, ReplaysHold, [Next]_sessionVars,
                      NEW r \in Requests, req'[r].at = "revokeAll"
               PROVE  \E s \in SessionIds : /\ sessions'[s].state = "revoked"
                                            /\ sessions'[s].user = req'[r].user
    BY DEF ReplaysHold
  <1>1. CASE req'[r] = req[r]
    <2>1. PICK s \in SessionIds : /\ sessions[s].state = "revoked"
                                  /\ sessions[s].user = req[r].user
      BY <1>1 DEF ReplaysHold
    <2>2. QED
      BY <1>1, <2>1, RevokedStaysRevoked
  <1>2. ASSUME NEW s \in SessionIds, RefreshReadRevoked(r, s)
        PROVE  /\ sessions'[s].state = "revoked"
               /\ sessions'[s].user = req'[r].user
    BY <1>2 DEF RefreshReadRevoked, Begin, tables, Inv, TypeInv, TypeOK
  <1>3. \/ req'[r] = req[r]
        \/ \E s \in SessionIds : RefreshReadRevoked(r, s)
    BY DEF Inv, TypeInv, TypeOK, Next, SessionStep, LoginRead, LoginIssue,
       RefreshReadRevoked, RefreshReadLive, ReadForRotation, RefreshRevokeAll,
       RefreshRotate, LogoutRead,
       LogoutRevoke, Abort, Tick, Begin, Continue, Idle, sessionVars, tables
  <1> QED
    BY <1>1, <1>2, <1>3

-----------------------------------------------------------------------------
(* Refinement *)

\* The empty tables hold no token.
LEMMA InitPromise == Init => Promise!Init
  BY NullAssumption DEF Init, Promise!Init, NoSession, Live

\* A session that is opened is a token issued.
LEMMA OpeningIsIssue ==
  ASSUME sessions \in [SessionIds -> Session], RowsComplete,
         NEW s \in SessionIds, FreshSession(s), NEW u \in Users,
         sessions' = CreateSession(sessions, s, u)
  PROVE  Promise!Next
  <1>1. /\ [x \in SessionIds |-> sessions'[x].user]
             = [[x \in SessionIds |-> sessions[x].user] EXCEPT ![s] = u]
        /\ {x \in SessionIds : sessions'[x].state = "live"}
             = {x \in SessionIds : sessions[x].state = "live"} \cup {s}
    BY DEF CreateSession, Session
  <1>2. s \notin Promise!Issued
    BY DEF RowsComplete, FreshSession, Promise!Issued
  <1>3. Promise!Issue(s, u)
    BY <1>1, <1>2 DEF Promise!Issue, Live
  <1> QED
    BY <1>3 DEF Promise!Next

\* A step that commits no late rotation is a step of the promise.
LEMMA StepPromise ==
  Inv /\ ReplaysHold /\ NoLateRotation' /\ [Next]_sessionVars
    => [Promise!Next]_(Promise!tokenVars)
  <1> SUFFICES ASSUME Inv, ReplaysHold, NoLateRotation', [Next]_sessionVars
               PROVE  Promise!Next \/ UNCHANGED Promise!tokenVars
    OBVIOUS
  <1>0. /\ sessions \in [SessionIds -> Session]
        /\ RowsComplete
    BY DEF Inv, TypeInv, TypeOK
  <1>1. ASSUME NEW r \in Requests, LoginIssue(r) PROVE Promise!Next
    <2>1. PICK s \in SessionIds :
            FreshSession(s) /\ sessions' = CreateSession(sessions, s, req[r].user)
      BY <1>1 DEF LoginIssue
    <2>2. req[r].user \in Users
      BY <1>1, RequestFields DEF LoginIssue, Continue, Inv, TypeInv
    <2>3. QED
      BY <1>0, <2>1, <2>2, OpeningIsIssue
  <1>2. ASSUME NEW r \in Requests, RefreshRevokeAll(r) PROVE Promise!Next
    <2>1. req[r].user \in Users /\ req[r].at = "revokeAll"
      BY <1>2, RequestFields DEF RefreshRevokeAll, Continue, Inv, TypeInv
    <2>2. PICK s \in SessionIds : /\ sessions[s].state = "revoked"
                                  /\ sessions[s].user = req[r].user
      BY <2>1 DEF ReplaysHold
    <2>3. /\ [x \in SessionIds |-> sessions'[x].user]
               = [x \in SessionIds |-> sessions[x].user]
          /\ {x \in SessionIds : sessions'[x].state = "live"}
               = {x \in {y \in SessionIds : sessions[y].state = "live"} :
                    [y \in SessionIds |-> sessions[y].user][x]
                      # [y \in SessionIds |-> sessions[y].user][s]}
      BY <1>0, <1>2, <2>1, <2>2 DEF RefreshRevokeAll, RevokeAllUserSessions, Session
    <2>4. s \in Promise!Issued /\ ~Live(s)
      BY <1>0, <2>2 DEF RowsComplete, Promise!Issued, Live
    <2>5. Promise!Replay(s)
      BY <2>3, <2>4 DEF Promise!Replay, Live
    <2>6. QED
      BY <2>5 DEF Promise!Next
  <1>3. ASSUME NEW r \in Requests, RefreshRotate(r) PROVE Promise!Next
    <2> DEFINE old == req[r].session
    <2>1. /\ old \in SessionIds /\ req[r].user \in Users
          /\ sessions[old].user = req[r].user /\ Exists(old) /\ req[r].saw = "live"
      BY <1>3, RequestFields DEF RefreshRotate, Continue, ReadsHold, Inv, TypeInv
    <2>2. PICK s \in SessionIds :
            /\ FreshSession(s)
            /\ sessions' = Rotation(old, s, req[r].user)
            /\ late' = IF req[r].saw = "live" /\ sessions[old].state = "revoked"
                       THEN late \cup {s} ELSE late
      BY <1>3 DEF RefreshRotate
    <2>3. sessions[old].state = "live"
      BY <1>0, <2>1, <2>2 DEF Session, Exists, NoLateRotation
    <2> HIDE DEF old
    <2>4. /\ [x \in SessionIds |-> sessions'[x].user]
               = [[x \in SessionIds |-> sessions[x].user] EXCEPT
                    ![s] = [x \in SessionIds |-> sessions[x].user][old]]
          /\ {x \in SessionIds : sessions'[x].state = "live"}
               = ({x \in SessionIds : sessions[x].state = "live"} \ {old}) \cup {s}
      BY <1>0, <2>1, <2>2, <2>3
      DEF Rotation, CreateSession, RevokeSession, Session, FreshSession
    <2>5. s \notin Promise!Issued /\ Live(old)
      BY <1>0, <2>2, <2>3 DEF RowsComplete, FreshSession, Promise!Issued, Live
    <2>6. Promise!Exchange(old, s)
      BY <2>1, <2>4, <2>5 DEF Promise!Exchange, Live
    <2>7. QED
      BY <2>1, <2>6 DEF Promise!Next
  <1>4. ASSUME NEW r \in Requests, LogoutRevoke(r) PROVE Promise!Next
    <2>1. req[r].session \in SessionIds /\ Exists(req[r].session)
      BY <1>4, RequestFields DEF LogoutRevoke, Continue, ReadsHold, Inv, TypeInv
    <2>2. /\ [x \in SessionIds |-> sessions'[x].user]
               = [x \in SessionIds |-> sessions[x].user]
          /\ {x \in SessionIds : sessions'[x].state = "live"}
               = {x \in SessionIds : sessions[x].state = "live"} \ {req[r].session}
      BY <1>0, <1>4, <2>1 DEF LogoutRevoke, RevokeSession, Session
    <2>3. Promise!End(req[r].session)
      BY <2>2 DEF Promise!End, Live
    <2>4. QED
      BY <2>1, <2>3 DEF Promise!Next
  <1> USE <1>0 DEF Session, Live, Promise!tokenVars
  <1>5. ASSUME Tick PROVE UNCHANGED Promise!tokenVars
    BY <1>5 DEF Tick, FreshSession
  <1>6. ASSUME UNCHANGED sessions PROVE UNCHANGED Promise!tokenVars
    BY <1>6
  <1> QED
    BY <1>1, <1>2, <1>3, <1>4, <1>5, <1>6
    DEF Next, SessionStep, LoginRead, RefreshReadRevoked, RefreshReadLive,
        ReadForRotation, LogoutRead,
        Abort, sessionVars, tables

\* However many requests overlap, the promise is kept for as long as no
\* rotation commits over a dead parent: that race is the only way to break it.
THEOREM OnlyLateRotationsBreakThePromise ==
  Spec /\ []NoLateRotation => KeepsPromise
  <1>1. Init => ReplaysHold
    BY DEF Init, ReplaysHold, Idle
  <1>2. Spec => []ReplaysHold
    BY <1>1, StepReplaysHold, Invariance, PTL DEF Spec
  <1> QED
    BY <1>2, InitPromise, StepPromise, Invariance, PTL DEF Spec, KeepsPromise,
       Promise!Spec

=============================================================================
