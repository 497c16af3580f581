------------------------------ MODULE AuthStore ------------------------------
(***************************************************************************)
(* The tables of the auth schema and the queries of internal/adapter/store *)
(* on them.  A query that writes is an operator from a table to a table,   *)
(* so that a transaction is the composition of its queries.                *)
(*                                                                         *)
(* Time is the age of each row in ticks.  An age saturates one tick past   *)
(* the last comparison the code makes with it, so time itself is unbounded.*)
(***************************************************************************)
EXTENDS Naturals, FiniteSets

CONSTANTS
  Users,        \* rows web_user can come to hold, one per distinct e-mail
  SessionIds,   \* rows session can come to hold; an id stands for its token too
  Codes,        \* ids of email_verification; an id stands for its six digits too
  Requests,     \* HTTP requests the server handles at the same time
  RefreshTTL,   \* REFRESH_TTL, in ticks
  CodeTTL,      \* CODE_TTL, in ticks
  Null

ASSUME TTLAssumption == RefreshTTL \in Nat /\ CodeTTL \in Nat
ASSUME CodesAssumption == IsFiniteSet(Codes)
ASSUME NullAssumption == Null \notin Users \cup SessionIds \cup Codes

VARIABLES
  users,          \* [Users -> "none" | "unverified" | "verified"]
  sessions,       \* [SessionIds -> Session]
  verifications,  \* [Codes -> Verification]
  req             \* [Requests -> where the request stands and what it has read]

tables == <<users, sessions, verifications>>

(***************************************************************************)
(* Rows                                                                    *)
(***************************************************************************)
Ages(ttl) == 0 .. ttl + 1
Older(age, ttl) == IF age > ttl THEN age ELSE age + 1

\* revoked_at is told apart only as NULL or not: no query orders by it.
Session == [state : {"none", "live", "revoked"},
            user  : Users \cup {Null},
            age   : Ages(RefreshTTL)]

NoSession == [state |-> "none", user |-> Null, age |-> 0]

\* nth is the place of created_at among the rows of the user, which are deleted
\* together; uses counts the requests that redeemed the code: history, no column.
Verification(maxAttempts) ==
  [user : Users \cup {Null}, nth : 0 .. Cardinality(Codes), age : Ages(CodeTTL),
   attempts : 0 .. maxAttempts, consumed : BOOLEAN, uses : 0 .. 2]

NoVerification == [user |-> Null, nth |-> 0, age |-> 0, attempts |-> 0,
                   consumed |-> FALSE, uses |-> 0]

(***************************************************************************)
(* session.sql                                                             *)
(***************************************************************************)
\* Mutant: opening a session ends the user's other ones.
CreateSessionAlone(tbl, s, u) ==
  [t \in SessionIds |->
     IF t = s THEN [state |-> "live", user |-> u, age |-> 0]
     ELSE IF tbl[t].user = u THEN [tbl[t] EXCEPT !.state = "revoked"] ELSE tbl[t]]

CreateSession(tbl, s, u) ==
  [tbl EXCEPT ![s] = [state |-> "live", user |-> u, age |-> 0]]

\* Mutant: all sessions of the row's user are revoked.
RevokeSessionsOfUser(tbl, s) ==
  [t \in SessionIds |-> IF tbl[t].user = tbl[s].user
                        THEN [tbl[t] EXCEPT !.state = "revoked"] ELSE tbl[t]]

RevokeSession(tbl, s) == [tbl EXCEPT ![s].state = "revoked"]

\* Mutant: the sessions that have expired are revoked, not those that have not.
RevokeExpiredSessions(tbl, u) ==
  [s \in SessionIds |-> IF tbl[s].user = u /\ tbl[s].age > RefreshTTL
                        THEN [tbl[s] EXCEPT !.state = "revoked"] ELSE tbl[s]]

RevokeAllUserSessions(tbl, u) ==
  [s \in SessionIds |-> IF tbl[s].user = u /\ tbl[s].state = "live"
                        THEN [tbl[s] EXCEPT !.state = "revoked"]
                        ELSE tbl[s]]

FreshSession(s) == sessions[s].state = "none"

(***************************************************************************)
(* verification.sql                                                        *)
(***************************************************************************)
CodesOf(tbl, u) == {c \in Codes : tbl[c].user = u}

ActiveOf(u) == {c \in CodesOf(verifications, u) : ~verifications[c].consumed}

HasActive(u) == ActiveOf(u) # {}

\* ORDER BY created_at DESC LIMIT 1
GetActiveEmailVerification(u) ==
  CHOOSE c \in ActiveOf(u) :
    \A d \in ActiveOf(u) : verifications[d].nth <= verifications[c].nth

CreateEmailVerification(tbl, c, u) ==
  [tbl EXCEPT ![c] = [user |-> u, nth |-> Cardinality(CodesOf(tbl, u)) + 1, age |-> 0,
                      attempts |-> 0, consumed |-> FALSE, uses |-> 0]]

\* The column is only ever compared with MAX_ATTEMPTS, so it saturates there.
IncrementVerificationAttempts(tbl, c, maxAttempts) ==
  IF tbl[c].user # Null /\ tbl[c].attempts < maxAttempts
  THEN [tbl EXCEPT ![c].attempts = @ + 1] ELSE tbl

Used(uses) == IF uses < 2 THEN uses + 1 ELSE uses

\* Mutant: consumed_at stays NULL.
ConsumeNothing(tbl, c) ==
  IF tbl[c].user # Null THEN [tbl EXCEPT ![c].uses = Used(@)] ELSE tbl

\* An UPDATE by id alone: it also "succeeds" on a consumed or a deleted row.
ConsumeEmailVerification(tbl, c) ==
  IF tbl[c].user # Null
  THEN [tbl EXCEPT ![c].consumed = TRUE, ![c].uses = Used(@)] ELSE tbl

\* Mutant: the old codes stay.
DeleteNothing(tbl, u) == tbl

DeleteEmailVerificationsByUser(tbl, u) ==
  [c \in Codes |-> IF tbl[c].user = u THEN NoVerification ELSE tbl[c]]

CodeExists(c) == verifications[c].user # Null

(***************************************************************************)
(* Requests: each holds what its goroutine read in earlier round trips.    *)
(* A request that fails, is cancelled or dies with the server writes       *)
(* nothing more: ExecTx has rolled back whatever it had not committed.     *)
(***************************************************************************)
Idle == [at |-> "idle"]

Begin(r, next) == req[r] = Idle /\ req' = [req EXCEPT ![r] = next]
Continue(r, from, next) == req[r].at = from /\ req' = [req EXCEPT ![r] = next]

Abort(r) == /\ req[r] # Idle
            /\ req' = [req EXCEPT ![r] = Idle]
            /\ UNCHANGED tables

Tick ==
  /\ sessions' = [s \in SessionIds |->
                    IF FreshSession(s) THEN sessions[s]
                    ELSE [sessions[s] EXCEPT !.age = Older(@, RefreshTTL)]]
  /\ verifications' = [c \in Codes |->
                         IF CodeExists(c)
                         THEN [verifications[c] EXCEPT !.age = Older(@, CodeTTL)]
                         ELSE verifications[c]]
  /\ UNCHANGED <<users, req>>
=============================================================================
