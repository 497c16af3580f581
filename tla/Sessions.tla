------------------------------- MODULE Sessions -------------------------------
(***************************************************************************)
(* Login, Refresh and Logout of internal/app/auth: the life of a refresh   *)
(* token.  Each request is a goroutine that first reads the session row    *)
(* and, in a later round trip, writes; the reads are outside the           *)
(* transaction, so requests interleave between them.                       *)
(*                                                                         *)
(* A client may present any token ever issued, at any time and any number  *)
(* of times: an answer that was lost and retried, a duplicate and a token  *)
(* kept after logout are all behaviours of it.                             *)
(***************************************************************************)
EXTENDS AuthStore

VARIABLES  \* history, read by the properties only
  parent,     \* [SessionIds -> the session a rotation replaced by this one]
  condemned,  \* sessions that existed when a replay of their user's was answered
  loggedOut,  \* live sessions a logout has ended
  late        \* sessions a rotation inserted that had read its parent live and found
              \* it dead when it committed

history == <<parent, condemned, loggedOut, late>>
sessionVars == <<tables, req, history>>

-----------------------------------------------------------------------------
(* Login *)

\* A wrong password, an unknown identifier or an unverified user ends here.
LoginRead(r, u) ==
  /\ users[u] = "verified"
  /\ Begin(r, [at |-> "issue", user |-> u])
  /\ UNCHANGED <<tables, history>>

LoginIssue(r) ==
  /\ Continue(r, "issue", Idle)
  /\ \E s \in SessionIds :
       /\ FreshSession(s)
       /\ sessions' = CreateSession(sessions, s, req[r].user)
  /\ UNCHANGED <<users, verifications, history>>

-----------------------------------------------------------------------------
(* Refresh *)

\* An unknown token, or a live one past its expiry, is answered 401 here.
RefreshReadRevoked(r, s) ==
  /\ sessions[s].state = "revoked"
  /\ Begin(r, [at |-> "revokeAll", user |-> sessions[s].user])
  /\ UNCHANGED <<tables, history>>

\* saw is the state of the row at the read: history, the code drops it.
ReadForRotation(r, s) ==
  /\ sessions[s].age <= RefreshTTL
  /\ Begin(r, [at |-> "rotate", session |-> s, user |-> sessions[s].user,
               saw |-> sessions[s].state])
  /\ UNCHANGED <<tables, history>>

\* Mutant: RevokedAt is not looked at.
RefreshReadAny(r, s) == ~FreshSession(s) /\ ReadForRotation(r, s)

RefreshReadLive(r, s) == sessions[s].state = "live" /\ ReadForRotation(r, s)

RefreshRevokeAll(r) ==
  LET u == req[r].user IN
  /\ Continue(r, "revokeAll", Idle)
  /\ sessions' = RevokeAllUserSessions(sessions, u)
  /\ condemned' = condemned \cup {s \in SessionIds : sessions[s].user = u}
  /\ UNCHANGED <<users, verifications, parent, loggedOut, late>>

\* Mutant: the old session stays as it is.
RotationKeepsOld(old, s, u) == CreateSession(sessions, s, u)

\* RevokeSession has no "still live" condition: the commit is blind to
\* whatever happened to the row since it was read.
Rotation(old, s, u) == CreateSession(RevokeSession(sessions, old), s, u)

RefreshRotate(r) ==
  LET old == req[r].session IN
  /\ Continue(r, "rotate", Idle)
  /\ \E s \in SessionIds :
       /\ FreshSession(s)
       /\ sessions' = Rotation(old, s, req[r].user)
       /\ parent' = [parent EXCEPT ![s] = old]
       /\ late' = IF req[r].saw = "live" /\ sessions[old].state = "revoked"
                  THEN late \cup {s} ELSE late
  /\ UNCHANGED <<users, verifications, condemned, loggedOut>>

-----------------------------------------------------------------------------
(* Logout *)

LogoutRead(r, s) ==
  /\ ~FreshSession(s)
  /\ Begin(r, [at |-> "revoke", session |-> s])
  /\ UNCHANGED <<tables, history>>

\* RevokedAt is not looked at: logging out a session that was rotated or revoked
\* before writes its row again and ends nothing.
LogoutRevoke(r) ==
  LET s == req[r].session IN
  /\ Continue(r, "revoke", Idle)
  /\ sessions' = RevokeSession(sessions, s)
  /\ loggedOut' = IF sessions[s].state = "live" THEN loggedOut \cup {s} ELSE loggedOut
  /\ UNCHANGED <<users, verifications, parent, condemned, late>>

-----------------------------------------------------------------------------
HistoryInit == /\ parent = [s \in SessionIds |-> Null]
               /\ condemned = {}
               /\ loggedOut = {}
               /\ late = {}

Init == /\ users \in [Users -> {"unverified", "verified"}]
        /\ sessions = [s \in SessionIds |-> NoSession]
        /\ verifications = [c \in Codes |-> NoVerification]
        /\ req = [r \in Requests |-> Idle]
        /\ HistoryInit

SessionStep(r) ==
  \/ \E u \in Users : LoginRead(r, u)
  \/ LoginIssue(r)
  \/ \E s \in SessionIds : \/ RefreshReadRevoked(r, s)
                           \/ RefreshReadLive(r, s)
                           \/ LogoutRead(r, s)
  \/ RefreshRevokeAll(r)
  \/ RefreshRotate(r)
  \/ LogoutRevoke(r)

Next == \/ \E r \in Requests : SessionStep(r) \/ (Abort(r) /\ UNCHANGED history)
        \/ Tick /\ UNCHANGED history

Spec == Init /\ [][Next]_sessionVars

-----------------------------------------------------------------------------
(* Properties *)

\* What the requests of this module hold; EmailVerification has others.
Holds(r) ==
  /\ req[r].at \in {"issue", "revokeAll", "rotate"} => req[r].user \in Users
  /\ req[r].at \in {"rotate", "revoke"} => req[r].session \in SessionIds
  /\ req[r].at = "rotate" => req[r].saw \in {"live", "revoked"}

TypeOK ==
  /\ users \in [Users -> {"none", "unverified", "verified"}]
  /\ sessions \in [SessionIds -> Session]
  /\ req = [r \in Requests |-> req[r]] /\ \A r \in Requests : Holds(r)
  /\ parent \in [SessionIds -> SessionIds \cup {Null}]
  /\ condemned \subseteq SessionIds
  /\ loggedOut \subseteq SessionIds
  /\ late \subseteq SessionIds

Exists(s) == sessions[s].state # "none"
Live(s) == sessions[s].state = "live"
Child(s, p) == parent[s] = p /\ p # Null

\* A session exists only for a user whose e-mail is verified, however the
\* verification and the requests that open sessions interleave.
OnlyVerifiedHoldSessions ==
  \A s \in SessionIds : Exists(s) => users[sessions[s].user] = "verified"

\* Revoking the old session and creating its successor are one transaction
\* (service.go:345): no successor lives beside a live predecessor, and both
\* belong to the same user.
RotationKillsParent ==
  \A s, p \in SessionIds :
    Child(s, p) => /\ sessions[p].state = "revoked"
                   /\ sessions[s].user = sessions[p].user

\* A session is revoked only because it was rotated, because its own token
\* was logged out, or by the answer to a replay of its own user's token.
NoStrayRevocation ==
  \A s \in SessionIds :
    sessions[s].state = "revoked" =>
      \/ s \in loggedOut \cup condemned
      \/ \E c \in SessionIds : Child(c, s)

\* The answer to a replay reaches every session the user had by then, and no
\* request that was in flight brings one of them back.
CondemnedStayRevoked ==
  \A s \in condemned : ~Live(s)

\* Whatever descends from a session that a replay or a logout has ended, and is
\* not itself ended by a replay, was inserted by a refresh that had read its
\* token live, before the end, and committed after it (service.go:308, 347, 377).
SurvivorsRacedTheEnd ==
  \A s, p \in SessionIds :
    /\ Child(s, p)
    /\ p \in condemned \cup loggedOut
    /\ s \notin condemned
    => s \in late

\* Reuse of a revoked token ends all that descends from it (service.go:316).
NoLiveDescendantOfCondemned ==
  \A s, p \in SessionIds : Child(s, p) /\ p \in condemned => ~Live(s)

-----------------------------------------------------------------------------
(* Refinement *)

Promise == INSTANCE RefreshTokens
             WITH Tokens <- SessionIds,
                  Owners <- Users,
                  NoOwner <- Null,
                  owner <- [s \in SessionIds |-> sessions[s].user],
                  live <- {s \in SessionIds : Live(s)}

\* As long as no rotation is late, the tables, the round trips and the clock
\* implement the promise: every commit is one step of it.
KeepsPromise == Promise!Spec
=============================================================================
