------------------------------ MODULE MobileAuth ------------------------------
(***************************************************************************)
(* The app's side of the refresh tokens: AuthController, AuthInterceptor   *)
(* and TokenStorage of mobile/lib/core/auth.  Dart runs one piece of code  *)
(* at a time, so a step is the code between two awaits, with the           *)
(* microtasks it completes; between steps every task of the app, the       *)
(* platform's key store and the network take their turn.  The server is    *)
(* RefreshTokens, the promise that Sessions keeps.                         *)
(***************************************************************************)
CONSTANTS
  Users,
  Pairs,   \* pairs of an access and a refresh token
  Tasks,   \* calls the app makes at the same time
  NoUser,
  Null

ASSUME MobileAssumption == NoUser \notin Users /\ Null \notin Pairs

VARIABLES
  access, refresh,  \* the pair whose token is stored under each of the two keys, or Null
  status, busy,     \* AuthState
  task,             \* [Tasks -> a running method of the controller, or a feature's call]
  rotation,         \* _refreshing: the refreshTokens() that all waiting calls share
  clears,           \* the keys that some clear() which nobody awaits is about to delete
  owner, live,      \* the server's tokens
  expired,          \* pairs whose access token has run out
  adrift,           \* refresh tokens in requests given up on that may still reach the server
  lost              \* history: tokens the server may have ended without telling the app

Server == INSTANCE RefreshTokens WITH Tokens <- Pairs, Owners <- Users, NoOwner <- NoUser

keys == <<access, refresh>>
authState == <<status, busy>>
app == <<keys, authState, task, rotation, clears>>
server == <<owner, live, expired, adrift, lost>>
mobileVars == <<app, server>>

Idle == [op |-> "none", at |-> "idle", pair |-> Null]
NoRotation == [at |-> "none", token |-> Null, pair |-> Null]

At(t, stage) == task[t].at = stage
Op(t, op) == task[t].op = op
Carry(t, stage, p) == task' = [task EXCEPT ![t].at = stage, ![t].pair = p]
Move(t, stage) == Carry(t, stage, Null)

\* A new AuthState is not busy.
SetAuthState(s) == status' = s /\ busy' = FALSE

KeyStoreStages == {"readAccess", "readRefresh", "attach", "writeAccess", "writeRefresh",
                   "deleteAccess", "deleteRefresh"}

\* New tokens are like no other; which of those not yet issued they are is all the same.
Issue(p, u) == Server!Issue(p, u) /\ p = CHOOSE q \in Pairs : q \notin Server!Issued
Exchange(t, p) == Server!Exchange(t, p) /\ p = CHOOSE q \in Pairs : q \notin Server!Issued

Init ==
  /\ access = Null /\ refresh = Null
  /\ status = "unknown" /\ busy = FALSE
  /\ task = [t \in Tasks |-> Idle]
  /\ rotation = NoRotation
  /\ clears = {}
  /\ Server!Init
  /\ expired = {} /\ adrift = {} /\ lost = {}

-----------------------------------------------------------------------------
(* What the app starts.  The splash screen runs bootstrap; the login and    *)
(* verification screens lock their button with AuthState.busy; features     *)
(* call the server while the user is authenticated.                         *)

Begin(t, op, stage) == /\ At(t, "idle")
                       /\ task' = [task EXCEPT ![t] = [op |-> op, at |-> stage, pair |-> Null]]

StartBootstrap(t) ==
  /\ status = "unknown"
  /\ \A o \in Tasks : ~Op(o, "bootstrap")
  /\ Begin(t, "bootstrap", "readAccess")
  /\ UNCHANGED <<keys, authState, rotation, clears, server>>

StartFetch(t) ==
  /\ status = "authenticated"
  /\ Begin(t, "fetch", "attach")
  /\ UNCHANGED <<keys, authState, rotation, clears, server>>

\* login and verifyEmail.
StartLogin(t) ==
  /\ status = "unauthenticated" /\ ~busy
  /\ Begin(t, "login", "post")
  /\ busy' = TRUE
  /\ UNCHANGED <<keys, status, rotation, clears, server>>

\* The controller offers it, though no screen calls it yet.
StartLogout(t) ==
  /\ status = "authenticated"
  /\ Begin(t, "logout", "readRefresh")
  /\ UNCHANGED <<keys, authState, rotation, clears, server>>

-----------------------------------------------------------------------------
(* How a method goes on when a call it made fails with a Failure.           *)

\* bootstrap clears the storage; a feature, and the methods that only report, end.
AfterFailure(k) ==
  IF k.op = "bootstrap" THEN [k EXCEPT !.at = "deleteAccess", !.pair = Null] ELSE Idle

Fail(t) == /\ task' = [task EXCEPT ![t] = AfterFailure(@)]
           /\ busy' = (busy /\ ~Op(t, "login"))
           /\ UNCHANGED status

-----------------------------------------------------------------------------
(* TokenStorage: each key is read, written and deleted by a call of its own.*)

ReadAccessKey(t) ==
  /\ At(t, "readAccess")
  /\ Carry(t, "readRefresh", access)
  /\ UNCHANGED <<keys, authState, rotation, clears, server>>

\* bootstrap needs both tokens, logout presents the refresh token it finds.
ReadRefreshKey(t) ==
  /\ At(t, "readRefresh")
  /\ \/ /\ Op(t, "bootstrap") /\ task[t].pair # Null /\ refresh # Null
        /\ Move(t, "attach")
        /\ UNCHANGED authState
     \/ /\ Op(t, "bootstrap") /\ (task[t].pair = Null \/ refresh = Null)
        /\ task' = [task EXCEPT ![t] = Idle]
        /\ SetAuthState("unauthenticated")
     \/ /\ Op(t, "logout")
        /\ Carry(t, IF refresh = Null THEN "deleteAccess" ELSE "post", refresh)
        /\ UNCHANGED authState
  /\ UNCHANGED <<keys, rotation, clears, server>>

WriteAccessKey(t) ==
  /\ At(t, "writeAccess")
  /\ access' = task[t].pair
  /\ Carry(t, "writeRefresh", task[t].pair)
  /\ UNCHANGED <<refresh, authState, rotation, clears, server>>

WriteRefreshKey(t) ==
  /\ At(t, "writeRefresh")
  /\ refresh' = task[t].pair
  /\ Move(t, "attach")
  /\ UNCHANGED <<access, authState, rotation, clears, server>>

DeleteAccessKey(t) ==
  /\ At(t, "deleteAccess")
  /\ access' = Null
  /\ Move(t, "deleteRefresh")
  /\ UNCHANGED <<refresh, authState, rotation, clears, server>>

DeleteRefreshKey(t) ==
  /\ At(t, "deleteRefresh")
  /\ refresh' = Null
  /\ task' = [task EXCEPT ![t] = Idle]
  /\ SetAuthState("unauthenticated")
  /\ UNCHANGED <<access, rotation, clears, server>>

\* The clear() of markLoggedOut, which nobody awaits.  How many of them are on
\* their way is left open: the key may be deleted again.
ClearAccessKey ==
  /\ "access" \in clears
  /\ access' = Null
  /\ clears' \in {clears \cup {"refresh"}, {"refresh"}}
  /\ UNCHANGED <<refresh, authState, task, rotation, server>>

ClearRefreshKey ==
  /\ "refresh" \in clears
  /\ refresh' = Null
  /\ clears' \in {clears, clears \ {"refresh"}}
  /\ UNCHANGED <<access, authState, task, rotation, server>>

TaskStorage(t) == \/ ReadAccessKey(t)   \/ ReadRefreshKey(t)
                  \/ WriteAccessKey(t)  \/ WriteRefreshKey(t)
                  \/ DeleteAccessKey(t) \/ DeleteRefreshKey(t)

-----------------------------------------------------------------------------
(* The interceptor.                                                         *)

\* onError: a 401 waits for the refresh that runs, or starts one.
JoinRotation(t, stage) ==
  /\ Move(t, stage)
  /\ rotation' = IF rotation.at = "none" THEN [rotation EXCEPT !.at = "read"] ELSE rotation

\* onRequest: the request leaves with the access token that is stored.
Attach(t) ==
  /\ At(t, "attach")
  /\ Carry(t, "sent", access)
  /\ UNCHANGED <<keys, authState, rotation, clears, server>>

Authorized(t) == task[t].pair # Null /\ task[t].pair \notin expired

\* A feature's call ends here; me() has its user's data on the way.
Serve(t) ==
  /\ task[t].at \in {"sent", "retried"}
  /\ Authorized(t)
  /\ IF Op(t, "fetch") THEN task' = [task EXCEPT ![t] = Idle] ELSE Move(t, "served")
  /\ UNCHANGED <<keys, authState, rotation, clears, server>>

\* The first 401 of a request goes through the refresh, the second is final.
Unauthorized(t) ==
  /\ ~Authorized(t)
  /\ \/ /\ At(t, "sent")
        /\ JoinRotation(t, "waiting")
        /\ UNCHANGED authState
     \/ /\ At(t, "retried")
        /\ Fail(t)
        /\ UNCHANGED rotation
  /\ UNCHANGED <<keys, clears, server>>

\* bootstrap and login end with the user that me() returned.
Complete(t) ==
  /\ At(t, "served")
  /\ task' = [task EXCEPT ![t] = Idle]
  /\ SetAuthState("authenticated")
  /\ UNCHANGED <<keys, rotation, clears, server>>

-----------------------------------------------------------------------------
(* refreshTokens, once for all the calls that wait for it.                  *)

Waiting == {t \in Tasks : task[t].at \in {"waiting", "awaitPost"}}

\* The future completes and every waiting handler runs: the request is sent again.
WakeWith(p) ==
  /\ rotation' = NoRotation
  /\ task' = [t \in Tasks |->
               CASE At(t, "waiting")   -> [task[t] EXCEPT !.at = "retried", !.pair = p]
                 [] At(t, "awaitPost") -> [task[t] EXCEPT !.at = "postAgain"]
                 [] OTHER              -> task[t]]

\* Mutant: the waiting handlers return without passing the error on.
WakeLoggedOutSilently ==
  /\ rotation' = NoRotation
  /\ clears' = clears \cup {"access"}
  /\ SetAuthState("unauthenticated")
  /\ UNCHANGED task

\* refreshTokens and every waiting handler call markLoggedOut, and the requests fail.
WakeLoggedOut ==
  /\ rotation' = NoRotation
  /\ task' = [t \in Tasks |-> IF t \in Waiting THEN AfterFailure(task[t]) ELSE task[t]]
  /\ clears' = clears \cup {"access"}
  /\ SetAuthState("unauthenticated")

\* Mutant: the stored token is presented without a look whether there is one.
RotationReadsBlindly ==
  /\ rotation.at = "read"
  /\ rotation' = [rotation EXCEPT !.at = "post", !.token = refresh]
  /\ UNCHANGED <<keys, authState, task, clears, server>>

RotationReads ==
  /\ rotation.at = "read"
  /\ \/ /\ refresh # Null
        /\ rotation' = [rotation EXCEPT !.at = "post", !.token = refresh]
        /\ UNCHANGED <<authState, task, clears>>
     \/ /\ refresh = Null
        /\ WakeLoggedOut
  /\ UNCHANGED <<keys, server>>

\* Presenting a dead token ends every token of its owner, of which the app is not told.
Punish(t) == /\ Server!Replay(t)
             /\ lost' = lost \cup {p \in Pairs : owner[p] = owner[t]}

RotationAnswered(p) ==
  /\ rotation.at = "post"
  /\ Exchange(rotation.token, p)
  /\ rotation' = [rotation EXCEPT !.at = "writeAccess", !.pair = p]
  /\ UNCHANGED <<keys, authState, task, clears, expired, adrift, lost>>

\* The 401 of the refresh call itself is not refreshed: the path is exempted.
RotationRefused ==
  /\ rotation.at = "post"
  /\ Punish(rotation.token)
  /\ WakeLoggedOut
  /\ UNCHANGED <<keys, expired, adrift>>

\* Any other error answer, a 429 of the rate limiter or a 500, ends the session too,
\* though the token is as good as before.
RotationFails ==
  /\ rotation.at = "post"
  /\ WakeLoggedOut
  /\ UNCHANGED <<keys, server>>

RotationTimesOut ==
  /\ rotation.at = "post"
  /\ WakeLoggedOut
  /\ adrift' = adrift \cup {rotation.token}
  /\ lost' = lost \cup {rotation.token}
  /\ UNCHANGED <<keys, owner, live, expired>>

RotationWritesAccess ==
  /\ rotation.at = "writeAccess"
  /\ access' = rotation.pair
  /\ rotation' = [rotation EXCEPT !.at = "writeRefresh"]
  /\ UNCHANGED <<refresh, authState, task, clears, server>>

\* Mutant: the new refresh token is not stored.
RotationSkipsRefresh ==
  /\ rotation.at = "writeRefresh"
  /\ WakeWith(rotation.pair)
  /\ UNCHANGED <<keys, authState, clears, server>>

RotationWritesRefresh ==
  /\ rotation.at = "writeRefresh"
  /\ refresh' = rotation.pair
  /\ WakeWith(rotation.pair)
  /\ UNCHANGED <<access, authState, clears, server>>

Rotate == \/ RotationReads \/ RotationRefused \/ RotationFails \/ RotationTimesOut
          \/ RotationWritesAccess \/ RotationWritesRefresh
          \/ \E p \in Pairs : RotationAnswered(p)

-----------------------------------------------------------------------------
(* The posts of login and logout.                                           *)

LoginAnswered(t, u, p) ==
  /\ Op(t, "login") /\ task[t].at \in {"post", "postAgain"}
  /\ Issue(p, u)
  /\ Carry(t, "writeAccess", p)
  /\ UNCHANGED <<keys, authState, rotation, clears, expired, adrift, lost>>

\* Wrong credentials are a 401 as well, and go through the refresh.
LoginRefused(t) ==
  /\ Op(t, "login")
  /\ \/ /\ At(t, "post")
        /\ JoinRotation(t, "awaitPost")
        /\ UNCHANGED authState
     \/ /\ At(t, "postAgain")
        /\ Fail(t)
        /\ UNCHANGED rotation
  /\ UNCHANGED <<keys, clears, server>>

LogoutAnswered(t) ==
  /\ Op(t, "logout") /\ At(t, "post")
  /\ Server!End(task[t].pair)
  /\ lost' = lost \cup {task[t].pair}
  /\ Move(t, "deleteAccess")
  /\ UNCHANGED <<keys, authState, rotation, clears, expired, adrift>>

\* connectTimeout and receiveTimeout: every request ends.  logout goes on regardless;
\* if its request arrives after all, it may as well have arrived before.
TimesOut(t) ==
  /\ \/ /\ \/ task[t].at \in {"sent", "retried", "served", "postAgain"}
           \/ Op(t, "login") /\ At(t, "post")
        /\ Fail(t)
        /\ UNCHANGED <<owner, live, lost>>
     \/ /\ Op(t, "logout") /\ At(t, "post")
        /\ Move(t, "deleteAccess")
        /\ Server!End(task[t].pair) \/ UNCHANGED <<owner, live>>
        /\ lost' = lost \cup {task[t].pair}
        /\ UNCHANGED authState
  /\ UNCHANGED <<keys, rotation, clears, expired, adrift>>

-----------------------------------------------------------------------------
(* What happens around the app.                                             *)

\* An access token that the app may still send; the time of the others is as good.
Expire(p) ==
  /\ p \in ({access} \cup {task[t].pair : t \in Tasks}) \ (expired \cup {Null})
  /\ expired' = expired \cup {p}
  /\ UNCHANGED <<app, owner, live, adrift, lost>>

\* A refresh the app gave up on reaches the server after all.
ArrivesLate(t) ==
  /\ t \in adrift
  /\ adrift' = adrift \ {t}
  /\ \/ /\ \E p \in Pairs : Exchange(t, p)
        /\ UNCHANGED lost
     \/ Punish(t)
  /\ UNCHANGED <<app, expired>>

\* What a process that ends leaves behind: tokens that are presented, or only half stored.
Presented == IF rotation.at = "post" THEN {rotation.token} ELSE {}
LogoutsSent == {task[t].pair : t \in {o \in Tasks : Op(o, "logout") /\ At(o, "post")}}
HalfStored ==
  {task[t].pair : t \in {o \in Tasks : task[o].at \in {"writeAccess", "writeRefresh"}}}
  \cup IF rotation.at \in {"writeAccess", "writeRefresh"}
        THEN {rotation.token, rotation.pair} ELSE {}

\* The process ends and is started again; what is stored is all that is left.
Crash ==
  /\ status # "unknown"
  /\ task' = [t \in Tasks |-> Idle]
  /\ rotation' = NoRotation
  /\ clears' = {}
  /\ SetAuthState("unknown")
  /\ adrift' = adrift \cup Presented
  /\ \E ended \in SUBSET LogoutsSent : live' = live \ ended
  /\ lost' = lost \cup Presented \cup LogoutsSent \cup HalfStored
  /\ UNCHANGED <<keys, owner, expired>>

-----------------------------------------------------------------------------

Start(t) == StartBootstrap(t) \/ StartFetch(t) \/ StartLogin(t) \/ StartLogout(t)

Respond(t) == \/ Attach(t) \/ Serve(t) \/ Unauthorized(t) \/ Complete(t)
              \/ LoginRefused(t) \/ LogoutAnswered(t) \/ TimesOut(t)
              \/ \E u \in Users, p \in Pairs : LoginAnswered(t, u, p)

Clear == ClearAccessKey \/ ClearRefreshKey

Next == \/ \E t \in Tasks : Start(t) \/ TaskStorage(t) \/ Respond(t)
        \/ Rotate \/ Clear \/ Crash
        \/ \E p \in Pairs : Expire(p)
        \/ \E t \in adrift : ArrivesLate(t)

Spec == Init /\ [][Next]_mobileVars

(* The key store answers and does not throw, and a request is answered or   *)
(* times out: these have no body to speak of, so that connectTimeout and    *)
(* receiveTimeout bound them.  That anything is started, that a token       *)
(* expires, that a clear() or a lost request arrives is nowhere assumed.    *)
FairSpec == /\ Spec
            /\ WF_mobileVars(Rotate)
            /\ \A t \in Tasks : WF_mobileVars(TaskStorage(t) \/ Respond(t))

-----------------------------------------------------------------------------

(* Properties *)

Stages == KeyStoreStages \cup {"idle", "sent", "served", "waiting", "retried", "post",
                               "awaitPost", "postAgain"}
Call == [op : {"none", "bootstrap", "fetch", "login", "logout"},
         at : Stages, pair : Pairs \cup {Null}]
Rotation == [at : {"none", "read", "post", "writeAccess", "writeRefresh"},
             token : Pairs \cup {Null}, pair : Pairs \cup {Null}]

TypeOK ==
  /\ access \in Pairs \cup {Null} /\ refresh \in Pairs \cup {Null}
  /\ status \in {"unknown", "unauthenticated", "authenticated"} /\ busy \in BOOLEAN
  /\ task \in [Tasks -> Call] /\ rotation \in Rotation
  /\ clears \subseteq {"access", "refresh"}
  /\ owner \in [Pairs -> Users \cup {NoUser}] /\ live \subseteq Pairs
  /\ expired \subseteq Pairs /\ adrift \subseteq Pairs /\ lost \subseteq Pairs

Usable(p) == p \in live \cup lost

\* While refreshTokens has its answer and has not stored it, the key holds the old token.
Superseded(p) == rotation.at \in {"writeAccess", "writeRefresh"} /\ rotation.token = p

\* The refresh token in the storage, and the one a refresh presents, can still be
\* exchanged, unless an exchange was given up on, a logout or a crash came in
\* between: the app on its own never sets off the server's answer to a replay.
RefreshTokenIsUsable ==
  /\ refresh # Null => Usable(refresh) \/ Superseded(refresh)
  /\ rotation.at = "post" => Usable(rotation.token)

\* Every call of the app comes to an end, also those that wait for the shared refresh.
EveryCallEnds == \A t \in Tasks : ~At(t, "idle") ~> At(t, "idle")
=============================================================================
