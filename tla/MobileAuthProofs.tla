--------------------------- MODULE MobileAuthProofs ---------------------------
(***************************************************************************)
(* The app never makes the server believe that a token was stolen, for     *)
(* every number of calls and tokens, and however the key store and the     *)
(* server take their turns.                                                *)
(***************************************************************************)
EXTENDS MobileAuth, TLAPS

(***************************************************************************)
(* Two things are missing to make RefreshTokenIsUsable inductive: a token  *)
(* that a task is about to store is still usable then, because it is known *)
(* to nobody else, and the server does not issue a token twice.            *)
(***************************************************************************)
Writes(t) == task[t].at \in {"writeAccess", "writeRefresh"}
RotationWrites == rotation.at \in {"writeAccess", "writeRefresh"}

TokensAreIssued ==
  /\ live \subseteq Server!Issued
  /\ {refresh, rotation.token, rotation.pair} \subseteq Server!Issued \cup {Null}

RotationHolds ==
  /\ rotation.at = "post" => rotation.token # Null
  /\ RotationWrites => rotation.token # Null /\ rotation.pair # Null /\ Usable(rotation.pair)

TaskHolds(t) ==
  /\ Writes(t) => /\ task[t].pair \in Server!Issued
                  /\ Usable(task[t].pair)
                  /\ task[t].pair \notin {refresh, rotation.token, rotation.pair}
  /\ Op(t, "logout") /\ At(t, "post") => task[t].pair # Null

TasksHoldDifferentPairs ==
  \A t, o \in Tasks : Writes(t) /\ Writes(o) /\ t # o => task[t].pair # task[o].pair

AdriftIsLost == adrift \subseteq lost

Inv == /\ TypeOK
       /\ TokensAreIssued
       /\ RotationHolds
       /\ \A t \in Tasks : TaskHolds(t)
       /\ TasksHoldDifferentPairs
       /\ AdriftIsLost
       /\ RefreshTokenIsUsable

-----------------------------------------------------------------------------
(* Type correctness *)

USE MobileAssumption

\* Nothing that runs is a call, and no refresh, too.
LEMMA NothingRuns == Idle \in Call /\ NoRotation \in Rotation
  BY DEF Idle, NoRotation, Call, Rotation, Stages, KeyStoreStages

\* A call that moves to another stage, and takes a token with it, is a call.
LEMMA CallMoves ==
  ASSUME NEW k \in Call, NEW stage \in Stages, NEW p \in Pairs \cup {Null}
  PROVE  /\ [k EXCEPT !.at = stage] \in Call
         /\ [k EXCEPT !.at = stage, !.pair = p] \in Call
  BY DEF Call

\* The fields of a call, and of the refresh.
LEMMA Fields ==
  ASSUME TypeOK
  PROVE  /\ \A t \in Tasks : /\ task[t] \in Call
                             /\ task[t].at \in Stages
                             /\ task[t].pair \in Pairs \cup {Null}
         /\ rotation.token \in Pairs \cup {Null} /\ rotation.pair \in Pairs \cup {Null}
  <1>1. \A k \in Call : k.at \in Stages /\ k.pair \in Pairs \cup {Null}
    BY DEF Call
  <1>2. \A t \in Tasks : task[t] \in Call
    BY DEF TypeOK
  <1>3. rotation.token \in Pairs \cup {Null} /\ rotation.pair \in Pairs \cup {Null}
    BY DEF TypeOK, Rotation
  <1>4. QED
    BY <1>1, <1>2, <1>3

\* A call that moves, or ends, leaves calls behind.
LEMMA CarryType ==
  ASSUME TypeOK, NEW t \in Tasks
  PROVE  /\ \A stage \in Stages, p \in Pairs \cup {Null} :
              Carry(t, stage, p) => task' \in [Tasks -> Call]
         /\ \A stage \in Stages : Move(t, stage) => task' \in [Tasks -> Call]
         /\ task' = [task EXCEPT ![t] = Idle] => task' \in [Tasks -> Call]
  <1>1. task \in [Tasks -> Call]
    BY DEF TypeOK
  <1>2. ASSUME NEW stage \in Stages, NEW p \in Pairs \cup {Null}, Carry(t, stage, p)
        PROVE  task' \in [Tasks -> Call]
    <2>1. [task[t] EXCEPT !.at = stage, !.pair = p] \in Call
      BY <1>1, CallMoves
    <2>2. task' = [task EXCEPT ![t] = [task[t] EXCEPT !.at = stage, !.pair = p]]
      BY <1>1, <1>2 DEF Carry
    <2>3. QED
      BY <1>1, <2>1, <2>2
  <1>3. ASSUME NEW stage \in Stages, Move(t, stage) PROVE task' \in [Tasks -> Call]
    BY <1>2, <1>3 DEF Move
  <1>4. task' = [task EXCEPT ![t] = Idle] => task' \in [Tasks -> Call]
    BY <1>1, NothingRuns
  <1>5. QED
    BY <1>2, <1>3, <1>4

\* The names of the stages.
LEMMA StageNames ==
  {"idle", "readAccess", "readRefresh", "attach", "writeAccess", "writeRefresh",
   "deleteAccess", "deleteRefresh", "sent", "served", "waiting", "retried", "post",
   "awaitPost", "postAgain"} \subseteq Stages
  BY DEF Stages, KeyStoreStages

\* A refresh that moves to another stage with another token or pair is a refresh.
LEMMA RotationMoves ==
  ASSUME TypeOK, NEW p \in Pairs \cup {Null},
         NEW stage \in {"none", "read", "post", "writeAccess", "writeRefresh"}
  PROVE  /\ [rotation EXCEPT !.at = stage] \in Rotation
         /\ [rotation EXCEPT !.at = stage, !.token = p] \in Rotation
         /\ [rotation EXCEPT !.at = stage, !.pair = p] \in Rotation
  BY DEF TypeOK, Rotation

\* The app starts with types that fit.
LEMMA InitType == Init => TypeOK
  <1> SUFFICES ASSUME Init PROVE TypeOK
    OBVIOUS
  <1>1. task \in [Tasks -> Call] /\ rotation \in Rotation
    BY NothingRuns DEF Init
  <1>2. owner \in [Pairs -> Users \cup {NoUser}] /\ live \subseteq Pairs
    BY DEF Init, Server!Init
  <1>3. clears \subseteq {"access", "refresh"}
    BY DEF Init
  <1>4. QED
    BY <1>1, <1>2, <1>3 DEF Init, TypeOK

\* A call goes on by failing, too.
LEMMA FailureIsCall == ASSUME NEW k \in Call PROVE AfterFailure(k) \in Call
  <1>1. "deleteAccess" \in Stages
    BY DEF Stages, KeyStoreStages
  <1>2. QED
    BY <1>1, CallMoves, NothingRuns DEF AfterFailure

\* What the waiting calls become when the refresh succeeds is a call again.
LEMMA WakeType ==
  ASSUME TypeOK, NEW p \in Pairs, WakeWith(p)
  PROVE  task' \in [Tasks -> Call] /\ rotation' \in Rotation
  <1>1. {"retried", "postAgain"} \subseteq Stages
    BY DEF Stages
  <1>2. ASSUME NEW t \in Tasks
        PROVE  (CASE At(t, "waiting")   -> [task[t] EXCEPT !.at = "retried", !.pair = p]
                  [] At(t, "awaitPost") -> [task[t] EXCEPT !.at = "postAgain"]
                  [] OTHER              -> task[t]) \in Call
    BY <1>1, Fields, CallMoves DEF At
  <1>3. QED
    BY <1>2, NothingRuns DEF WakeWith

\* So is what they become when it fails.
LEMMA LoggedOutType ==
  ASSUME TypeOK, WakeLoggedOut
  PROVE  /\ task' \in [Tasks -> Call] /\ rotation' \in Rotation
         /\ clears' \subseteq {"access", "refresh"}
         /\ status' = "unauthenticated" /\ busy' = FALSE
  <1>1. clears' \subseteq {"access", "refresh"}
    BY DEF WakeLoggedOut, TypeOK
  <1>2. task' \in [Tasks -> Call]
    BY Fields, FailureIsCall DEF WakeLoggedOut
  <1>3. QED
    BY <1>1, <1>2, NothingRuns DEF WakeLoggedOut, SetAuthState

\* What a task becomes when its call fails is a call again.
LEMMA FailType ==
  ASSUME TypeOK, NEW t \in Tasks, Fail(t)
  PROVE  task' \in [Tasks -> Call] /\ busy' \in BOOLEAN /\ status' = status
  <1>1. task' \in [Tasks -> Call]
    BY Fields, FailureIsCall DEF Fail, TypeOK
  <1>2. QED
    BY <1>1 DEF Fail, TypeOK

\* Every step keeps the types.
LEMMA StepType == Inv /\ [Next]_mobileVars => TypeOK'
  <1> SUFFICES ASSUME Inv, [Next]_mobileVars PROVE TypeOK'
    OBVIOUS
  <1>0. TypeOK
    BY DEF Inv
  <1>1. ASSUME NEW t \in Tasks, Start(t) PROVE TypeOK'
    <2>1. ASSUME NEW op \in {"bootstrap", "fetch", "login", "logout"}, NEW stage \in Stages,
                 Begin(t, op, stage)
          PROVE  task' \in [Tasks -> Call]
      <3>1. [op |-> op, at |-> stage, pair |-> Null] \in Call
        BY DEF Call
      <3>2. QED
        BY <1>0, <2>1, <3>1 DEF Begin, TypeOK
    <2>2. CASE StartBootstrap(t)
      BY <1>0, <2>1, <2>2, StageNames DEF StartBootstrap, TypeOK, keys, authState, server
    <2>3. CASE StartFetch(t)
      BY <1>0, <2>1, <2>3, StageNames DEF StartFetch, TypeOK, keys, authState, server
    <2>4. CASE StartLogin(t)
      BY <1>0, <2>1, <2>4, StageNames DEF StartLogin, TypeOK, keys, server
    <2>5. CASE StartLogout(t)
      BY <1>0, <2>1, <2>5, StageNames DEF StartLogout, TypeOK, keys, authState, server
    <2>6. QED
      BY <1>1, <2>2, <2>3, <2>4, <2>5 DEF Start
  <1>2. ASSUME NEW t \in Tasks, TaskStorage(t) PROVE TypeOK'
    <2>1. task[t].pair \in Pairs \cup {Null}
      BY <1>0, Fields
    <2>2. CASE ReadAccessKey(t)
      <3>1. task' \in [Tasks -> Call]
        BY <1>0, <2>2, StageNames, CarryType DEF ReadAccessKey, TypeOK
      <3>2. QED
        BY <1>0, <2>2, <3>1 DEF ReadAccessKey, TypeOK, keys, authState, server
    <2>3. CASE ReadRefreshKey(t)
      <3>1. task' \in [Tasks -> Call]
        <4>1. (IF refresh = Null THEN "deleteAccess" ELSE "post") \in Stages
              /\ refresh \in Pairs \cup {Null}
          BY <1>0, StageNames DEF TypeOK
        <4>2. CASE Carry(t, IF refresh = Null THEN "deleteAccess" ELSE "post", refresh)
          BY <1>0, <4>1, <4>2, CarryType
        <4>3. CASE Move(t, "attach")
          BY <1>0, <4>3, StageNames, CarryType
        <4>4. CASE task' = [task EXCEPT ![t] = Idle]
          BY <1>0, <4>4, CarryType
        <4>5. QED
          BY <2>3, <4>2, <4>3, <4>4 DEF ReadRefreshKey
      <3>2. status' \in {"unknown", "unauthenticated", "authenticated"} /\ busy' \in BOOLEAN
        BY <1>0, <2>3 DEF ReadRefreshKey, SetAuthState, TypeOK, authState
      <3>3. QED
        BY <1>0, <2>3, <3>1, <3>2 DEF ReadRefreshKey, TypeOK, keys, server
    <2>4. CASE WriteAccessKey(t)
      BY <1>0, <2>1, <2>4, StageNames, CarryType
      DEF WriteAccessKey, TypeOK, authState, server
    <2>5. CASE WriteRefreshKey(t)
      BY <1>0, <2>1, <2>5, StageNames, CarryType
      DEF WriteRefreshKey, TypeOK, authState, server
    <2>6. CASE DeleteAccessKey(t)
      BY <1>0, <2>6, StageNames, CarryType
      DEF DeleteAccessKey, TypeOK, authState, server
    <2>7. CASE DeleteRefreshKey(t)
      BY <1>0, <2>7, CarryType
      DEF DeleteRefreshKey, SetAuthState, TypeOK, authState, server
    <2>8. QED
      BY <1>2, <2>2, <2>3, <2>4, <2>5, <2>6, <2>7 DEF TaskStorage
  <1>3. ASSUME NEW t \in Tasks, Respond(t) PROVE TypeOK'
    <2>0. ASSUME NEW stage \in {"waiting", "awaitPost"}, JoinRotation(t, stage)
          PROVE  task' \in [Tasks -> Call] /\ rotation' \in Rotation
      <3>1. rotation \in Rotation
        BY <1>0 DEF TypeOK
      <3>2. QED
        BY <1>0, <2>0, <3>1, StageNames, CarryType, RotationMoves DEF JoinRotation
    <2>1. CASE Attach(t)
      <3>1. access \in Pairs \cup {Null}
        BY <1>0 DEF TypeOK
      <3>2. task' \in [Tasks -> Call]
        BY <1>0, <2>1, <3>1, StageNames, CarryType DEF Attach
      <3>3. QED
        BY <1>0, <2>1, <3>2 DEF Attach, TypeOK, keys, authState, server
    <2>2. CASE Serve(t)
      <3>1. task' \in [Tasks -> Call]
        <4>1. CASE Move(t, "served")
          BY <1>0, <4>1, StageNames, CarryType
        <4>2. CASE task' = [task EXCEPT ![t] = Idle]
          BY <1>0, <4>2, CarryType
        <4>3. QED
          BY <2>2, <4>1, <4>2 DEF Serve
      <3>2. QED
        BY <1>0, <2>2, <3>1 DEF Serve, TypeOK, keys, authState, server
    <2>3. CASE Unauthorized(t)
      <3>1. CASE JoinRotation(t, "waiting") /\ UNCHANGED authState
        BY <1>0, <2>0, <2>3, <3>1 DEF Unauthorized, TypeOK, keys, authState, server
      <3>2. CASE Fail(t) /\ UNCHANGED rotation
        BY <1>0, <2>3, <3>2, FailType DEF Unauthorized, TypeOK, keys, server
      <3>3. QED
        BY <2>3, <3>1, <3>2 DEF Unauthorized
    <2>4. CASE Complete(t)
      BY <1>0, <2>4, CarryType DEF Complete, SetAuthState, TypeOK, keys, server
    <2>5. CASE LoginRefused(t)
      <3>1. CASE JoinRotation(t, "awaitPost") /\ UNCHANGED authState
        BY <1>0, <2>0, <2>5, <3>1 DEF LoginRefused, TypeOK, keys, authState, server
      <3>2. CASE Fail(t) /\ UNCHANGED rotation
        BY <1>0, <2>5, <3>2, FailType DEF LoginRefused, TypeOK, keys, server
      <3>3. QED
        BY <2>5, <3>1, <3>2 DEF LoginRefused
    <2>6. CASE LogoutAnswered(t)
      <3>1. task[t].pair \in Pairs
        BY <1>0, <2>6, Fields DEF Inv, TaskHolds, LogoutAnswered
      <3>2. QED
        BY <1>0, <2>6, <3>1, StageNames, CarryType
        DEF LogoutAnswered, Server!End, TypeOK, keys, authState
    <2>7. CASE TimesOut(t)
      <3>1. CASE Fail(t) /\ UNCHANGED <<owner, live, lost>>
        BY <1>0, <2>7, <3>1, FailType DEF TimesOut, TypeOK, keys
      <3>2. CASE /\ Op(t, "logout") /\ At(t, "post")
                 /\ Move(t, "deleteAccess")
                 /\ Server!End(task[t].pair) \/ UNCHANGED <<owner, live>>
                 /\ lost' = lost \cup {task[t].pair}
                 /\ UNCHANGED authState
        <4>1. task[t].pair \in Pairs
          BY <1>0, <3>2, Fields DEF Inv, TaskHolds
        <4>2. QED
          BY <1>0, <2>7, <3>2, <4>1, StageNames, CarryType
          DEF TimesOut, Server!End, TypeOK, keys, authState
      <3>3. QED
        BY <2>7, <3>1, <3>2 DEF TimesOut
    <2>8. ASSUME NEW u \in Users, NEW p \in Pairs, LoginAnswered(t, u, p) PROVE TypeOK'
      <3>1. task' \in [Tasks -> Call]
        BY <1>0, <2>8, StageNames, CarryType DEF LoginAnswered
      <3>2. owner' \in [Pairs -> Users \cup {NoUser}] /\ live' \subseteq Pairs
        BY <1>0, <2>8 DEF LoginAnswered, Issue, Server!Issue, TypeOK
      <3>3. QED
        BY <1>0, <2>8, <3>1, <3>2 DEF LoginAnswered, TypeOK, keys, authState
    <2>9. QED
      BY <1>3, <2>1, <2>2, <2>3, <2>4, <2>5, <2>6, <2>7, <2>8 DEF Respond
  <1>4. CASE Rotate
    <2>1. CASE RotationReads
      <3>1. CASE refresh # Null
        <4>1. rotation' \in Rotation
          BY <1>0, <2>1, <3>1, RotationMoves DEF RotationReads, TypeOK
        <4>2. QED
          BY <1>0, <2>1, <3>1, <4>1 DEF RotationReads, TypeOK, keys, authState, server
      <3>2. CASE refresh = Null
        BY <1>0, <2>1, <3>2, LoggedOutType DEF RotationReads, TypeOK, keys, server
      <3>3. QED
        BY <3>1, <3>2
    <2>2. CASE RotationRefused
      <3>1. lost' \subseteq Pairs /\ live' \subseteq Pairs /\ owner' = owner
        BY <1>0, <2>2 DEF RotationRefused, Punish, Server!Replay, TypeOK
      <3>2. WakeLoggedOut /\ UNCHANGED <<keys, expired, adrift>>
        BY <2>2 DEF RotationRefused
      <3>3. QED
        BY <1>0, <3>1, <3>2, LoggedOutType DEF TypeOK, keys
    <2>3. CASE RotationTimesOut
      <3>1. rotation.token \in Pairs
        BY <1>0, <2>3, Fields DEF Inv, RotationHolds, RotationTimesOut
      <3>2. WakeLoggedOut
        BY <2>3 DEF RotationTimesOut
      <3>3. QED
        BY <1>0, <2>3, <3>1, <3>2, LoggedOutType DEF RotationTimesOut, TypeOK, keys
    <2>4. CASE RotationWritesAccess
      BY <1>0, <2>4, Fields, RotationMoves DEF RotationWritesAccess, TypeOK, authState, server
    <2>5. CASE RotationWritesRefresh
      <3>1. rotation.pair \in Pairs /\ WakeWith(rotation.pair)
        BY <1>0, <2>5, Fields DEF Inv, RotationHolds, RotationWrites, RotationWritesRefresh
      <3>2. QED
        BY <1>0, <2>5, <3>1, WakeType DEF RotationWritesRefresh, TypeOK, authState, server
    <2>6. ASSUME NEW p \in Pairs, RotationAnswered(p) PROVE TypeOK'
      <3>1. owner' \in [Pairs -> Users \cup {NoUser}] /\ live' \subseteq Pairs
        BY <1>0, <2>6 DEF RotationAnswered, Exchange, Server!Exchange, TypeOK
      <3>2. QED
        BY <1>0, <2>6, <3>1, RotationMoves DEF RotationAnswered, TypeOK, keys, authState
    <2>7. CASE RotationFails
      BY <1>0, <2>7, LoggedOutType DEF RotationFails, TypeOK, keys, server
    <2>8. QED
      BY <1>4, <2>1, <2>2, <2>3, <2>4, <2>5, <2>6, <2>7 DEF Rotate
  <1>5. CASE Clear
    BY <1>0, <1>5 DEF Clear, ClearAccessKey, ClearRefreshKey, TypeOK, authState, server
  <1>6. CASE Crash
    <2>1. Presented \subseteq Pairs /\ LogoutsSent \subseteq Pairs
      BY <1>0, Fields DEF Inv, Presented, LogoutsSent, RotationHolds, TaskHolds
    <2>2. HalfStored \subseteq Pairs
      BY <1>0, Fields DEF Inv, HalfStored, RotationHolds, RotationWrites, TaskHolds, Writes,
         Server!Issued
    <2>3. task' \in [Tasks -> Call] /\ rotation' \in Rotation
      BY <1>6, NothingRuns DEF Crash
    <2>4. QED
      BY <1>0, <1>6, <2>1, <2>2, <2>3 DEF Crash, SetAuthState, TypeOK, keys
  <1>7. ASSUME NEW p \in Pairs, Expire(p) PROVE TypeOK'
    BY <1>0, <1>7 DEF Expire, TypeOK, app, keys, authState
  <1>8. ASSUME NEW t \in adrift, ArrivesLate(t) PROVE TypeOK'
    <2>1. /\ owner' \in [Pairs -> Users \cup {NoUser}]
          /\ live' \subseteq Pairs /\ lost' \subseteq Pairs
      BY <1>0, <1>8 DEF ArrivesLate, Punish, Exchange, Server!Exchange, Server!Replay, TypeOK
    <2>2. QED
      BY <1>0, <1>8, <2>1 DEF ArrivesLate, TypeOK, app, keys, authState
  <1>9. CASE UNCHANGED mobileVars
    BY <1>0, <1>9 DEF TypeOK, mobileVars, app, server, keys, authState
  <1>10. QED
    BY <1>1, <1>2, <1>3, <1>4, <1>5, <1>6, <1>7, <1>8, <1>9 DEF Next

-----------------------------------------------------------------------------
(* The invariant.  Most steps leave the tokens where they are: no call      *)
(* starts to store a token, the refresh has none in its hands, and what the *)
(* server may have ended is known to be lost.                               *)

CallsRest ==
  \A t \in Tasks :
    /\ task'[t].at \in {"writeAccess", "writeRefresh"} => Writes(t) /\ task'[t].pair = task[t].pair
    /\ task'[t].op = "logout" /\ task'[t].at = "post" => task'[t].pair # Null

RotationRests ==
  \/ rotation' = rotation
  \/ /\ rotation'.at \in {"none", "read"}
     /\ {rotation'.token, rotation'.pair} \subseteq {rotation.token, rotation.pair, Null}
     /\ RotationWrites => rotation.token \in lost'

ServerRests ==
  /\ \A p \in Pairs : owner[p] # NoUser => owner'[p] # NoUser
  /\ live \cup lost \subseteq live' \cup lost'
  /\ \A p \in live' : owner'[p] # NoUser
  /\ adrift' \subseteq lost'

\* A step of that kind preserves the invariant.
LEMMA RestingStep ==
  ASSUME Inv, TypeOK', CallsRest, RotationRests, ServerRests, refresh' \in {refresh, Null}
  PROVE  Inv'
  <1>0. TypeOK
    BY DEF Inv
  <1>1. TokensAreIssued'
    BY <1>0 DEF Inv, TokensAreIssued, RotationRests, ServerRests, Server!Issued, TypeOK
  <1>2. RotationHolds'
    BY <1>0 DEF Inv, RotationHolds, RotationRests, RotationWrites, ServerRests, Usable
  <1>3. ASSUME NEW t \in Tasks PROVE TaskHolds(t)'
    <2>1. TaskHolds(t) /\ task[t].pair \in Pairs \cup {Null}
      BY <1>0, Fields DEF Inv
    <2>2. CASE Writes(t)'
      <3>1. Writes(t) /\ task'[t].pair = task[t].pair
        BY <2>2 DEF CallsRest, Writes
      <3>2. task[t].pair \in Pairs /\ task[t].pair # Null
        BY <2>1, <3>1, MobileAssumption DEF TaskHolds, Server!Issued
      <3>3. task'[t].pair \in Server!Issued' /\ Usable(task[t].pair)'
        BY <2>1, <3>1, <3>2 DEF TaskHolds, ServerRests, Server!Issued, Usable
      <3>4. task'[t].pair \notin {refresh', rotation'.token, rotation'.pair}
        BY <2>1, <3>1, <3>2 DEF TaskHolds, RotationRests
      <3>5. QED
        BY <2>2, <3>1, <3>3, <3>4 DEF TaskHolds, Usable, Writes, At
    <2>3. CASE ~Writes(t)'
      BY <2>3 DEF TaskHolds, CallsRest, Op, At
    <2>4. QED
      BY <2>2, <2>3
  <1>4. TasksHoldDifferentPairs'
    BY DEF Inv, TasksHoldDifferentPairs, CallsRest, Writes
  <1>5. AdriftIsLost'
    BY DEF AdriftIsLost, ServerRests
  <1>6. RefreshTokenIsUsable'
    BY <1>0 DEF Inv, RefreshTokenIsUsable, Usable, Superseded, RotationRests, RotationWrites,
       ServerRests
  <1>7. QED
    BY <1>1, <1>2, <1>3, <1>4, <1>5, <1>6 DEF Inv

\* One call that goes on without a token to store.
LEMMA CallRests ==
  ASSUME Inv, NEW t \in Tasks, NEW k \in Call, task' = [task EXCEPT ![t] = k],
         k.at \in {"writeAccess", "writeRefresh"} => Writes(t) /\ k.pair = task[t].pair,
         k.op = "logout" /\ k.at = "post" => k.pair # Null
  PROVE  CallsRest
  <1>1. task \in [Tasks -> Call]
    BY DEF Inv, TypeOK
  <1>2. ASSUME NEW o \in Tasks
        PROVE  /\ task'[o].at \in {"writeAccess", "writeRefresh"}
                    => Writes(o) /\ task'[o].pair = task[o].pair
               /\ task'[o].op = "logout" /\ task'[o].at = "post" => task'[o].pair # Null
    <2>1. CASE o = t
      BY <1>1, <2>1
    <2>2. CASE o # t
      BY <1>1, <2>2 DEF Inv, TaskHolds, Writes, Op, At
    <2>3. QED
      BY <2>1, <2>2
  <1>3. QED
    BY <1>2 DEF CallsRest

\* The stages where a call neither stores nor presents a token.
LEMMA RestingStages ==
  {"readAccess", "readRefresh", "attach", "deleteAccess", "deleteRefresh", "sent", "served",
   "waiting", "retried", "awaitPost"} \subseteq Stages \ {"writeAccess", "writeRefresh", "post"}
  BY StageNames

\* A call that ends, or moves to a stage where it neither stores nor presents a token.
LEMMA CallEnds == ASSUME Inv, NEW t \in Tasks, task' = [task EXCEPT ![t] = Idle] PROVE CallsRest
  <1>1. Idle \in Call /\ Idle.at = "idle"
    BY NothingRuns DEF Idle
  <1>2. QED
    BY <1>1, CallRests

\* A call that moves to a stage without a write rests.
LEMMA CallCarries ==
  ASSUME Inv, NEW t \in Tasks, NEW p \in Pairs \cup {Null},
         NEW stage \in Stages \ {"writeAccess", "writeRefresh", "post"},
         Carry(t, stage, p)
  PROVE  CallsRest
  <1>0. task \in [Tasks -> Call]
    BY DEF Inv, TypeOK
  <1>1. [task[t] EXCEPT !.at = stage, !.pair = p] \in Call
    BY <1>0, CallMoves
  <1>2. [task[t] EXCEPT !.at = stage, !.pair = p].at = stage
    BY <1>0 DEF Call
  <1>3. task' = [task EXCEPT ![t] = [task[t] EXCEPT !.at = stage, !.pair = p]]
    BY <1>0 DEF Carry
  <1>4. QED
    BY <1>1, <1>2, <1>3, CallRests

\* So does one that moves there without a token.
LEMMA CallMovesOn ==
  ASSUME Inv, NEW t \in Tasks, NEW stage \in Stages \ {"writeAccess", "writeRefresh", "post"},
         Move(t, stage)
  PROVE  CallsRest
  BY CallCarries DEF Move

\* A call that fails stores nothing.
LEMMA FailingRests ==
  ASSUME Inv, NEW t \in Tasks
  PROVE  /\ AfterFailure(task[t]) \in Call
         /\ AfterFailure(task[t]).at \in {"deleteAccess", "idle"}
  <1>1. task[t] \in Call
    BY DEF Inv, TypeOK
  <1>2. AfterFailure(task[t]) \in Call
    BY <1>1, FailureIsCall
  <1>3. /\ [task[t] EXCEPT !.at = "deleteAccess", !.pair = Null].at = "deleteAccess"
        /\ Idle.at = "idle"
    BY <1>1 DEF Call, Idle
  <1>4. QED
    BY <1>2, <1>3 DEF AfterFailure

\* A call that fails rests.
LEMMA FailRests == ASSUME Inv, NEW t \in Tasks, Fail(t) PROVE CallsRest
  <1>1. task' = [task EXCEPT ![t] = AfterFailure(task[t])]
    BY DEF Fail, Inv, TypeOK
  <1>2. QED
    BY <1>1, FailingRests, CallRests

\* The refresh that fails ends, and the calls that waited for it store nothing.
LEMMA LoggedOutRests ==
  ASSUME Inv, WakeLoggedOut, RotationWrites => rotation.token \in lost'
  PROVE  CallsRest /\ RotationRests
  <1>1. ASSUME NEW o \in Tasks
        PROVE  /\ task'[o].at \in {"writeAccess", "writeRefresh"}
                    => Writes(o) /\ task'[o].pair = task[o].pair
               /\ task'[o].op = "logout" /\ task'[o].at = "post" => task'[o].pair # Null
    <2>1. CASE o \in Waiting
      BY <1>1, <2>1, FailingRests DEF WakeLoggedOut
    <2>2. CASE o \notin Waiting
      BY <1>1, <2>2 DEF WakeLoggedOut, Inv, TaskHolds, Writes, Op, At
    <2>3. QED
      BY <2>1, <2>2
  <1>2. RotationRests
    BY DEF WakeLoggedOut, RotationRests, NoRotation
  <1>3. QED
    BY <1>1, <1>2 DEF CallsRest

\* A call that joins the refresh stores nothing, and a refresh that starts holds nothing.
LEMMA JoinRests ==
  ASSUME Inv, NEW t \in Tasks, NEW stage \in {"waiting", "awaitPost"}, JoinRotation(t, stage)
  PROVE  CallsRest /\ RotationRests
  <1>1. stage \in Stages \ {"writeAccess", "writeRefresh", "post"}
    BY StageNames
  <1>2. CallsRest
    BY <1>1, CallMovesOn DEF JoinRotation
  <1>3. rotation \in Rotation
    BY DEF Inv, TypeOK
  <1>4. CASE rotation.at = "none"
    <2>1. /\ rotation'.at = "read" /\ rotation'.token = rotation.token
          /\ rotation'.pair = rotation.pair
      BY <1>3, <1>4 DEF JoinRotation, Rotation
    <2>2. QED
      BY <1>2, <1>4, <2>1 DEF RotationRests, RotationWrites
  <1>5. CASE rotation.at # "none"
    BY <1>2, <1>5 DEF JoinRotation, RotationRests
  <1>6. QED
    BY <1>4, <1>5

\* What the server may end is noted as lost, and a token it issues is new.
LEMMA ServerSteps ==
  ASSUME Inv, adrift' \subseteq lost'
  PROVE  /\ UNCHANGED <<owner, live>> /\ lost \subseteq lost' => ServerRests
         /\ \A p \in Pairs : Server!End(p) /\ lost' = lost \cup {p} => ServerRests
         /\ \A p \in Pairs : Punish(p) => ServerRests
         /\ \A t \in lost, p \in Pairs : Server!Exchange(t, p) /\ lost' = lost => ServerRests
  <1>0. /\ owner \in [Pairs -> Users \cup {NoUser}] /\ live \subseteq Pairs /\ lost \subseteq Pairs
        /\ live \subseteq Server!Issued
    BY DEF Inv, TypeOK, TokensAreIssued
  <1>1. UNCHANGED <<owner, live>> /\ lost \subseteq lost' => ServerRests
    BY <1>0 DEF ServerRests, Server!Issued
  <1>2. ASSUME NEW p \in Pairs, Server!End(p), lost' = lost \cup {p} PROVE ServerRests
    BY <1>0, <1>2 DEF ServerRests, Server!Issued, Server!End
  <1>3. ASSUME NEW p \in Pairs, Punish(p) PROVE ServerRests
    BY <1>0, <1>3 DEF ServerRests, Server!Issued, Server!Replay, Punish
  <1>4. ASSUME NEW t \in lost, NEW p \in Pairs, Server!Exchange(t, p), lost' = lost
        PROVE  ServerRests
    BY <1>0, <1>4, MobileAssumption DEF ServerRests, Server!Issued, Server!Exchange
  <1>5. QED
    BY <1>1, <1>2, <1>3, <1>4

-----------------------------------------------------------------------------
(* The steps that move a token.                                             *)

\* A call stores the refresh token it was answered with.
LEMMA WriteRefreshKeyStep ==
  ASSUME Inv, TypeOK', NEW t \in Tasks, WriteRefreshKey(t)
  PROVE  Inv'
  <1>0. /\ task \in [Tasks -> Call] /\ task[t] \in Call
        /\ TaskHolds(t) /\ Writes(t) /\ refresh' = task[t].pair
        /\ UNCHANGED <<access, rotation, owner, live, adrift, lost>>
    BY DEF Inv, TypeOK, WriteRefreshKey, Writes, At, authState, server
  <1>1. Server!Issued' = Server!Issued
    BY <1>0 DEF Server!Issued
  <1>2. /\ \A o \in Tasks \ {t} : task'[o] = task[o]
        /\ task'[t].at = "attach" /\ task'[t].op = task[t].op
    BY <1>0 DEF WriteRefreshKey, Move, Carry, Call
  <1>3. TokensAreIssued'
    BY <1>0, <1>1 DEF Inv, TokensAreIssued, TaskHolds
  <1>4. RotationHolds'
    BY <1>0 DEF Inv, RotationHolds, RotationWrites, Usable
  <1>5. ASSUME NEW o \in Tasks PROVE TaskHolds(o)'
    <2>1. CASE o = t
      BY <1>2, <2>1 DEF TaskHolds, Writes, Op, At
    <2>2. CASE o # t
      BY <1>0, <1>1, <1>2, <2>2
      DEF Inv, TaskHolds, TasksHoldDifferentPairs, Writes, Op, At, Usable
    <2>3. QED
      BY <2>1, <2>2
  <1>6. TasksHoldDifferentPairs'
    BY <1>2 DEF Inv, TasksHoldDifferentPairs, Writes
  <1>7. AdriftIsLost'
    BY <1>0 DEF Inv, AdriftIsLost
  <1>8. RefreshTokenIsUsable'
    BY <1>0 DEF Inv, TaskHolds, RefreshTokenIsUsable, Usable, Superseded
  <1>9. QED
    BY <1>3, <1>4, <1>5, <1>6, <1>7, <1>8 DEF Inv

\* A login is answered with a token nobody has.
LEMMA LoginAnsweredStep ==
  ASSUME Inv, TypeOK', NEW t \in Tasks, NEW u \in Users, NEW p \in Pairs, LoginAnswered(t, u, p)
  PROVE  Inv'
  <1>0. /\ task \in [Tasks -> Call] /\ task[t] \in Call
        /\ owner \in [Pairs -> Users \cup {NoUser}] /\ p \notin Server!Issued /\ p # Null
        /\ Op(t, "login") /\ live' = live \cup {p}
        /\ UNCHANGED <<access, refresh, rotation, adrift, lost>>
    BY MobileAssumption DEF Inv, TypeOK, LoginAnswered, Issue, Server!Issue, keys
  <1>1. Server!Issued' = Server!Issued \cup {p}
    BY <1>0, MobileAssumption DEF Server!Issued, LoginAnswered, Issue, Server!Issue
  <1>2. /\ \A o \in Tasks \ {t} : task'[o] = task[o]
        /\ task'[t].at = "writeAccess" /\ task'[t].op = task[t].op /\ task'[t].pair = p
    BY <1>0 DEF LoginAnswered, Carry, Call
  <1>3. TokensAreIssued'
    BY <1>0, <1>1 DEF Inv, TokensAreIssued
  <1>4. RotationHolds'
    BY <1>0 DEF Inv, RotationHolds, RotationWrites, Usable
  <1>5. ASSUME NEW o \in Tasks PROVE TaskHolds(o)'
    <2>1. CASE o = t
      <3>1. p \notin {refresh, rotation.token, rotation.pair}
        BY <1>0 DEF Inv, TokensAreIssued
      <3>2. QED
        BY <1>0, <1>1, <1>2, <2>1, <3>1 DEF TaskHolds, Writes, Op, At, Usable
    <2>2. CASE o # t
      BY <1>0, <1>1, <1>2, <2>2 DEF Inv, TaskHolds, Writes, Op, At, Usable
    <2>3. QED
      BY <2>1, <2>2
  <1>6. TasksHoldDifferentPairs'
    <2>1. \A o \in Tasks : Writes(o) => task[o].pair # p
      BY <1>0 DEF Inv, TaskHolds
    <2>2. QED
      BY <1>2, <2>1 DEF Inv, TasksHoldDifferentPairs, Writes
  <1>7. AdriftIsLost'
    BY <1>0 DEF Inv, AdriftIsLost
  <1>8. RefreshTokenIsUsable'
    BY <1>0 DEF Inv, RefreshTokenIsUsable, Usable, Superseded
  <1>9. QED
    BY <1>3, <1>4, <1>5, <1>6, <1>7, <1>8 DEF Inv

\* A refresh presents the token that is stored.
LEMMA RotationReadsStep ==
  ASSUME Inv, TypeOK', RotationReads, refresh # Null
  PROVE  Inv'
  <1>0. /\ rotation.at = "read" /\ rotation'.at = "post"
        /\ rotation'.token = refresh /\ rotation'.pair = rotation.pair
        /\ UNCHANGED <<access, refresh, task, owner, live, adrift, lost>>
    BY DEF RotationReads, Inv, TypeOK, Rotation, keys, server
  <1>1. Server!Issued' = Server!Issued
    BY <1>0 DEF Server!Issued
  <1>2. TokensAreIssued' /\ AdriftIsLost'
    BY <1>0, <1>1 DEF Inv, TokensAreIssued, AdriftIsLost
  <1>3. RotationHolds'
    BY <1>0 DEF RotationHolds, RotationWrites, RotationReads
  <1>4. ASSUME NEW o \in Tasks PROVE TaskHolds(o)'
    BY <1>0, <1>1 DEF Inv, TaskHolds, Writes, Op, At, Usable
  <1>5. TasksHoldDifferentPairs'
    BY <1>0 DEF Inv, TasksHoldDifferentPairs, Writes
  <1>6. RefreshTokenIsUsable'
    BY <1>0 DEF Inv, RefreshTokenIsUsable, Usable, Superseded
  <1>7. QED
    BY <1>2, <1>3, <1>4, <1>5, <1>6 DEF Inv

\* A refresh is answered: the token it presented is dead, the one it got is nobody else's.
LEMMA RotationAnsweredStep ==
  ASSUME Inv, TypeOK', NEW p \in Pairs, RotationAnswered(p)
  PROVE  Inv'
  <1>0. /\ rotation.at = "post" /\ rotation'.at = "writeAccess"
        /\ rotation'.token = rotation.token /\ rotation'.pair = p
        /\ rotation.token \in live /\ rotation.token # Null
        /\ live' = (live \ {rotation.token}) \cup {p}
        /\ p \notin Server!Issued /\ p # Null
        /\ UNCHANGED <<access, refresh, task, adrift, lost>>
    BY MobileAssumption
    DEF RotationAnswered, Exchange, Server!Exchange, Inv, RotationHolds, TypeOK, Rotation, keys
  <1>1. Server!Issued' = Server!Issued \cup {p}
    <2>1. owner \in [Pairs -> Users \cup {NoUser}] /\ owner[rotation.token] # NoUser
      BY <1>0 DEF Inv, TypeOK, TokensAreIssued, Server!Issued
    <2>2. owner' = [owner EXCEPT ![p] = owner[rotation.token]]
      BY DEF RotationAnswered, Exchange, Server!Exchange
    <2>3. QED
      BY <2>1, <2>2 DEF Server!Issued
  <1>2. TokensAreIssued' /\ AdriftIsLost'
    BY <1>0, <1>1 DEF Inv, TokensAreIssued, AdriftIsLost
  <1>3. RotationHolds'
    BY <1>0 DEF RotationHolds, RotationWrites, Usable
  <1>4. ASSUME NEW o \in Tasks PROVE TaskHolds(o)'
    BY <1>0, <1>1 DEF Inv, TaskHolds, Writes, Op, At, Usable
  <1>5. TasksHoldDifferentPairs'
    BY <1>0 DEF Inv, TasksHoldDifferentPairs, Writes
  <1>6. RefreshTokenIsUsable'
    BY <1>0 DEF Inv, RefreshTokenIsUsable, Usable, Superseded
  <1>7. QED
    BY <1>2, <1>3, <1>4, <1>5, <1>6 DEF Inv

\* The refresh stores the access token.
LEMMA RotationWritesAccessStep ==
  ASSUME Inv, TypeOK', RotationWritesAccess
  PROVE  Inv'
  <1>0. /\ rotation.at = "writeAccess" /\ rotation'.at = "writeRefresh"
        /\ rotation'.token = rotation.token /\ rotation'.pair = rotation.pair
        /\ UNCHANGED <<refresh, task, owner, live, adrift, lost>>
    BY DEF RotationWritesAccess, Inv, TypeOK, Rotation, server
  <1>1. Server!Issued' = Server!Issued
    BY <1>0 DEF Server!Issued
  <1>2. TokensAreIssued' /\ AdriftIsLost'
    BY <1>0, <1>1 DEF Inv, TokensAreIssued, AdriftIsLost
  <1>3. RotationHolds'
    BY <1>0 DEF Inv, RotationHolds, RotationWrites, Usable
  <1>4. ASSUME NEW o \in Tasks PROVE TaskHolds(o)'
    BY <1>0, <1>1 DEF Inv, TaskHolds, Writes, Op, At, Usable
  <1>5. TasksHoldDifferentPairs'
    BY <1>0 DEF Inv, TasksHoldDifferentPairs, Writes
  <1>6. RefreshTokenIsUsable'
    BY <1>0 DEF Inv, RefreshTokenIsUsable, Usable, Superseded
  <1>7. QED
    BY <1>2, <1>3, <1>4, <1>5, <1>6 DEF Inv

\* The refresh stores the refresh token and wakes the calls that wait.
LEMMA RotationWritesRefreshStep ==
  ASSUME Inv, TypeOK', RotationWritesRefresh
  PROVE  Inv'
  <1>0. /\ RotationWrites /\ rotation' = NoRotation
        /\ rotation'.at = "none" /\ rotation'.token = Null /\ rotation'.pair = Null
        /\ refresh' = rotation.pair
        /\ UNCHANGED <<owner, live, adrift, lost>>
    BY DEF RotationWritesRefresh, WakeWith, NoRotation, RotationWrites, server
  <1>1. Server!Issued' = Server!Issued
    BY <1>0 DEF Server!Issued
  <1>2. ASSUME NEW o \in Tasks
        PROVE  /\ Writes(o)' => Writes(o) /\ task'[o].pair = task[o].pair
               /\ task'[o].op = "logout" /\ task'[o].at = "post" => task'[o].pair # Null
    <2>1. task[o] \in Call
      BY DEF Inv, TypeOK
    <2>2. CASE At(o, "waiting") \/ At(o, "awaitPost")
      <3>1. task'[o].at \in {"retried", "postAgain"}
        BY <2>1, <2>2 DEF RotationWritesRefresh, WakeWith, At, Call
      <3>2. QED
        BY <3>1 DEF Writes
    <2>3. CASE ~At(o, "waiting") /\ ~At(o, "awaitPost")
      <3>1. task'[o] = task[o]
        BY <2>3 DEF RotationWritesRefresh, WakeWith
      <3>2. QED
        BY <3>1 DEF Inv, TaskHolds, Writes, Op, At
    <2>4. QED
      BY <2>2, <2>3
  <1>3. TokensAreIssued' /\ AdriftIsLost'
    BY <1>0, <1>1 DEF Inv, TokensAreIssued, AdriftIsLost
  <1>4. RotationHolds'
    BY <1>0 DEF RotationHolds, RotationWrites
  <1>5. ASSUME NEW o \in Tasks PROVE TaskHolds(o)'
    <2>1. Writes(o)' => /\ task'[o].pair \in Server!Issued
                        /\ Usable(task'[o].pair)
                        /\ task'[o].pair \notin {rotation.pair, Null}
      BY <1>2, MobileAssumption DEF Inv, TaskHolds, Server!Issued
    <2>2. QED
      BY <1>0, <1>1, <1>2, <2>1 DEF TaskHolds, Op, At, Usable
  <1>6. TasksHoldDifferentPairs'
    BY <1>2 DEF Inv, TasksHoldDifferentPairs
  <1>7. RefreshTokenIsUsable'
    BY <1>0 DEF Inv, RotationHolds, RefreshTokenIsUsable, Usable, Superseded
  <1>8. QED
    BY <1>3, <1>4, <1>5, <1>6, <1>7 DEF Inv

-----------------------------------------------------------------------------

\* What the app starts, and what the key store does for a call.
LEMMA StartStep == ASSUME Inv, TypeOK', NEW t \in Tasks, Start(t) PROVE Inv'
  <1>0. AdriftIsLost
    BY DEF Inv
  <1>1. CallsRest
    <2>1. ASSUME NEW op \in {"bootstrap", "fetch", "login", "logout"}, NEW stage \in Stages,
                 Begin(t, op, stage), stage \notin {"writeAccess", "writeRefresh"},
                 op = "logout" => stage # "post"
          PROVE  CallsRest
      <3>1. [op |-> op, at |-> stage, pair |-> Null] \in Call
        BY DEF Call
      <3>2. QED
        BY <2>1, <3>1, CallRests DEF Begin
    <2>2. CASE StartBootstrap(t)
      BY <2>1, <2>2, StageNames DEF StartBootstrap
    <2>3. CASE StartFetch(t)
      BY <2>1, <2>3, StageNames DEF StartFetch
    <2>4. CASE StartLogin(t)
      BY <2>1, <2>4, StageNames DEF StartLogin
    <2>5. CASE StartLogout(t)
      BY <2>1, <2>5, StageNames DEF StartLogout
    <2>6. QED
      BY <2>2, <2>3, <2>4, <2>5 DEF Start
  <1>2. refresh' = refresh /\ rotation' = rotation /\ UNCHANGED <<owner, live, adrift, lost>>
    BY DEF Start, StartBootstrap, StartFetch, StartLogin, StartLogout, keys, server
  <1>3. ServerRests
    BY <1>0, <1>2, ServerSteps DEF AdriftIsLost
  <1>4. QED
    BY <1>1, <1>2, <1>3, RestingStep DEF RotationRests

\* The steps of the key store keep the invariant.
LEMMA TaskStorageStep == ASSUME Inv, TypeOK', NEW t \in Tasks, TaskStorage(t) PROVE Inv'
  <1>0. TypeOK /\ AdriftIsLost /\ task \in [Tasks -> Call]
    BY DEF Inv, TypeOK
  <1>1. CASE WriteRefreshKey(t)
    BY <1>1, WriteRefreshKeyStep
  <1>2. CASE ~WriteRefreshKey(t)
    <2>1. CallsRest
      <3>1. CASE ReadAccessKey(t)
        <4>1. /\ "readRefresh" \in Stages \ {"writeAccess", "writeRefresh", "post"}
              /\ access \in Pairs \cup {Null}
          BY <1>0, RestingStages DEF TypeOK
        <4>2. Carry(t, "readRefresh", access)
          BY <3>1 DEF ReadAccessKey
        <4>3. QED
          BY <4>1, <4>2, CallCarries
      <3>2. CASE ReadRefreshKey(t)
        <4>1. CASE Move(t, "attach")
          <5>1. "attach" \in Stages \ {"writeAccess", "writeRefresh", "post"}
            BY RestingStages
          <5>2. QED
            BY <4>1, <5>1, CallMovesOn
        <4>2. CASE task' = [task EXCEPT ![t] = Idle]
          BY <4>2, CallEnds
        <4>3. CASE Carry(t, IF refresh = Null THEN "deleteAccess" ELSE "post", refresh)
          <5>1. CASE refresh = Null
            <6>1. /\ "deleteAccess" \in Stages \ {"writeAccess", "writeRefresh", "post"}
                  /\ refresh \in Pairs \cup {Null}
              BY <1>0, RestingStages DEF TypeOK
            <6>2. Carry(t, "deleteAccess", refresh)
              BY <4>3, <5>1
            <6>3. QED
              BY <6>1, <6>2, CallCarries
          <5>2. CASE refresh # Null
            <6> DEFINE k == [task[t] EXCEPT !.at = "post", !.pair = refresh]
            <6>1. k \in Call
              BY <1>0, StageNames, CallMoves DEF TypeOK
            <6>2. k.at = "post" /\ k.pair = refresh
              BY <1>0 DEF Call
            <6>3. task' = [task EXCEPT ![t] = k]
              BY <1>0, <4>3, <5>2 DEF Carry
            <6> HIDE DEF k
            <6>4. QED
              BY <5>2, <6>1, <6>2, <6>3, CallRests
          <5>3. QED
            BY <5>1, <5>2
        <4>4. QED
          BY <3>2, <4>1, <4>2, <4>3 DEF ReadRefreshKey
      <3>3. CASE WriteAccessKey(t)
        <4> DEFINE k == [task[t] EXCEPT !.at = "writeRefresh", !.pair = task[t].pair]
        <4>1. k \in Call
          BY <1>0, StageNames, CallMoves, Fields
        <4>2. k.at = "writeRefresh" /\ k.pair = task[t].pair
          BY <1>0 DEF Call
        <4>3. task' = [task EXCEPT ![t] = k] /\ Writes(t)
          BY <1>0, <3>3 DEF WriteAccessKey, Carry, Writes, At
        <4> HIDE DEF k
        <4>4. QED
          BY <4>1, <4>2, <4>3, CallRests
      <3>4. CASE DeleteAccessKey(t)
        <4>1. "deleteRefresh" \in Stages \ {"writeAccess", "writeRefresh", "post"}
          BY RestingStages
        <4>2. QED
          BY <3>4, <4>1, CallMovesOn DEF DeleteAccessKey
      <3>5. CASE DeleteRefreshKey(t)
        BY <3>5, CallEnds DEF DeleteRefreshKey
      <3>6. QED
        BY <1>2, <3>1, <3>2, <3>3, <3>4, <3>5 DEF TaskStorage
    <2>2. /\ refresh' \in {refresh, Null} /\ rotation' = rotation
          /\ UNCHANGED <<owner, live, adrift, lost>>
      BY <1>2 DEF TaskStorage, ReadAccessKey, ReadRefreshKey, WriteAccessKey, DeleteAccessKey,
         DeleteRefreshKey, keys, server
    <2>3. ServerRests
      BY <1>0, <2>2, ServerSteps DEF AdriftIsLost
    <2>4. QED
      BY <2>1, <2>2, <2>3, RestingStep DEF RotationRests
  <1>3. QED
    BY <1>1, <1>2

\* What the server answers, or does not.
LEMMA RespondStep == ASSUME Inv, TypeOK', NEW t \in Tasks, Respond(t) PROVE Inv'
  <1>0. TypeOK /\ AdriftIsLost
    BY DEF Inv
  <1>1. ASSUME CallsRest, RotationRests, refresh' = refresh, UNCHANGED <<owner, live, adrift, lost>>
        PROVE  Inv'
    <2>1. ServerRests
      BY <1>0, <1>1, ServerSteps DEF AdriftIsLost
    <2>2. QED
      BY <1>1, <2>1, RestingStep
  <1>2. CASE Attach(t)
    <2>1. CallsRest
      <3>1. /\ "sent" \in Stages \ {"writeAccess", "writeRefresh", "post"}
            /\ access \in Pairs \cup {Null}
        BY <1>0, RestingStages DEF TypeOK
      <3>2. Carry(t, "sent", access)
        BY <1>2 DEF Attach
      <3>3. QED
        BY <3>1, <3>2, CallCarries
    <2>2. QED
      BY <1>1, <1>2, <2>1 DEF Attach, RotationRests, keys, server
  <1>3. CASE Serve(t)
    <2>1. CASE Move(t, "served")
      <3>1. CallsRest
        <4>1. "served" \in Stages \ {"writeAccess", "writeRefresh", "post"}
          BY RestingStages
        <4>2. QED
          BY <2>1, <4>1, CallMovesOn
      <3>2. QED
        BY <1>1, <1>3, <3>1 DEF Serve, RotationRests, keys, server
    <2>2. CASE task' = [task EXCEPT ![t] = Idle]
      <3>1. CallsRest
        BY <2>2, CallEnds
      <3>2. QED
        BY <1>1, <1>3, <3>1 DEF Serve, RotationRests, keys, server
    <2>3. QED
      BY <1>3, <2>1, <2>2 DEF Serve
  <1>4. CASE Unauthorized(t)
    <2>1. CallsRest /\ RotationRests
      BY <1>4, JoinRests, FailRests DEF Unauthorized, RotationRests
    <2>2. QED
      BY <1>1, <1>4, <2>1 DEF Unauthorized, keys, server
  <1>5. CASE Complete(t)
    <2>1. CallsRest
      BY <1>5, CallEnds DEF Complete
    <2>2. QED
      BY <1>1, <1>5, <2>1 DEF Complete, RotationRests, keys, server
  <1>6. CASE LoginRefused(t)
    <2>1. CallsRest /\ RotationRests
      BY <1>6, JoinRests, FailRests DEF LoginRefused, RotationRests
    <2>2. QED
      BY <1>1, <1>6, <2>1 DEF LoginRefused, keys, server
  <1>7. ASSUME Op(t, "logout"), At(t, "post"), Move(t, "deleteAccess"),
               Server!End(task[t].pair) \/ UNCHANGED <<owner, live>>,
               lost' = lost \cup {task[t].pair}, UNCHANGED <<keys, rotation, adrift>>
        PROVE  Inv'
    <2>1. task[t].pair \in Pairs
      BY <1>0, <1>7, Fields DEF Inv, TaskHolds
    <2>2. CallsRest
      <3>1. "deleteAccess" \in Stages \ {"writeAccess", "writeRefresh", "post"}
        BY RestingStages
      <3>2. QED
        BY <1>7, <3>1, CallMovesOn
    <2>3. ServerRests
      BY <1>0, <1>7, <2>1, ServerSteps DEF AdriftIsLost
    <2>4. QED
      BY <1>7, <2>2, <2>3, RestingStep DEF RotationRests, keys
  <1>8. CASE LogoutAnswered(t)
    BY <1>7, <1>8 DEF LogoutAnswered
  <1>9. CASE TimesOut(t)
    <2>1. CASE Fail(t) /\ UNCHANGED <<owner, live, lost>>
      BY <1>1, <1>9, <2>1, FailRests DEF TimesOut, RotationRests, keys
    <2>2. CASE /\ Op(t, "logout") /\ At(t, "post")
               /\ Move(t, "deleteAccess")
               /\ Server!End(task[t].pair) \/ UNCHANGED <<owner, live>>
               /\ lost' = lost \cup {task[t].pair}
      BY <1>7, <1>9, <2>2 DEF TimesOut
    <2>3. QED
      BY <1>9, <2>1, <2>2 DEF TimesOut
  <1>10. CASE \E u \in Users, p \in Pairs : LoginAnswered(t, u, p)
    BY <1>10, LoginAnsweredStep
  <1>11. QED
    BY <1>2, <1>3, <1>4, <1>5, <1>6, <1>8, <1>9, <1>10 DEF Respond

\* So do the steps of the shared refresh.
LEMMA RotateStep == ASSUME Inv, TypeOK', Rotate PROVE Inv'
  <1>0. TypeOK /\ AdriftIsLost
    BY DEF Inv
  <1>1. ASSUME WakeLoggedOut, ~RotationWrites, ServerRests, refresh' = refresh
        PROVE  Inv'
    <2>1. CallsRest /\ RotationRests
      BY <1>1, LoggedOutRests
    <2>2. QED
      BY <1>1, <2>1, RestingStep
  <1>2. CASE RotationReads
    <2>1. CASE refresh # Null
      BY <1>2, <2>1, RotationReadsStep
    <2>2. CASE refresh = Null
      <3>1. ServerRests
        BY <1>0, <1>2, ServerSteps DEF RotationReads, AdriftIsLost, server
      <3>2. QED
        BY <1>1, <1>2, <2>2, <3>1 DEF RotationReads, RotationWrites, keys
    <2>3. QED
      BY <2>1, <2>2
  <1>3. CASE RotationRefused
    <2>1. rotation.token \in Pairs
      BY <1>0, <1>3, Fields DEF Inv, RotationHolds, RotationRefused
    <2>2. Punish(rotation.token) /\ adrift' = adrift
      BY <1>3 DEF RotationRefused
    <2>3. adrift' \subseteq lost'
      BY <1>0, <2>2 DEF AdriftIsLost, Punish
    <2>4. ServerRests
      BY <2>1, <2>2, <2>3, ServerSteps
    <2>5. QED
      BY <1>1, <1>3, <2>4 DEF RotationRefused, RotationWrites, keys
  <1>4. CASE RotationTimesOut
    <2>1. adrift' \subseteq lost' /\ lost \subseteq lost' /\ UNCHANGED <<owner, live>>
      BY <1>0, <1>4 DEF RotationTimesOut, AdriftIsLost
    <2>2. ServerRests
      BY <2>1, ServerSteps
    <2>3. QED
      BY <1>1, <1>4, <2>2 DEF RotationTimesOut, RotationWrites, keys
  <1>5. CASE RotationFails
    <2>1. ServerRests
      BY <1>0, <1>5, ServerSteps DEF RotationFails, AdriftIsLost, server
    <2>2. QED
      BY <1>1, <1>5, <2>1 DEF RotationFails, RotationWrites, keys
  <1>6. QED
    BY <1>2, <1>3, <1>4, <1>5, RotationAnsweredStep, RotationWritesAccessStep,
       RotationWritesRefreshStep
    DEF Rotate

\* The end of the process: what it presented or had half stored is lost.
LEMMA CrashStep == ASSUME Inv, TypeOK', Crash PROVE Inv'
  <1>0. TypeOK /\ AdriftIsLost
    BY DEF Inv
  <1>1. CallsRest
    BY DEF Crash, CallsRest, Idle
  <1>2. RotationRests
    BY DEF Crash, RotationRests, NoRotation, RotationWrites, HalfStored
  <1>3. ServerRests
    <2>1. PICK ended \in SUBSET LogoutsSent : live' = live \ ended
      BY DEF Crash
    <2>2. lost \cup LogoutsSent \cup Presented \subseteq lost' /\ owner' = owner
      BY DEF Crash
    <2>3. adrift' \subseteq lost'
      BY <1>0, <2>2 DEF Crash, AdriftIsLost
    <2>4. live \subseteq Server!Issued
      BY DEF Inv, TokensAreIssued
    <2>5. QED
      BY <2>1, <2>2, <2>3, <2>4 DEF ServerRests, Server!Issued
  <1>4. QED
    BY <1>1, <1>2, <1>3, RestingStep DEF Crash, keys

\* What happens around the app.
LEMMA WorldStep ==
  ASSUME Inv, TypeOK',
         \/ Clear
         \/ \E p \in Pairs : Expire(p)
         \/ \E t \in adrift : ArrivesLate(t)
         \/ UNCHANGED mobileVars
  PROVE  Inv'
  <1>0. TypeOK /\ AdriftIsLost
    BY DEF Inv
  <1>1. task' = task /\ rotation' = rotation /\ refresh' \in {refresh, Null}
    BY DEF Clear, ClearAccessKey, ClearRefreshKey, Expire, ArrivesLate, mobileVars, app, keys
  <1>2. CallsRest
    BY <1>1 DEF CallsRest, Inv, TaskHolds, Writes, Op, At
  <1>3. ServerRests
    <2>1. CASE UNCHANGED <<owner, live, adrift, lost>>
      BY <1>0, <2>1, ServerSteps DEF AdriftIsLost
    <2>2. CASE \E t \in adrift : ArrivesLate(t)
      <3>1. PICK t \in adrift : ArrivesLate(t)
        BY <2>2
      <3>2. adrift' \subseteq lost' /\ t \in lost /\ t \in Pairs
        BY <1>0, <3>1 DEF ArrivesLate, Punish, AdriftIsLost, TypeOK
      <3>3. QED
        BY <3>1, <3>2, ServerSteps DEF ArrivesLate, Exchange
    <2>3. QED
      BY <2>1, <2>2
      DEF Clear, ClearAccessKey, ClearRefreshKey, Expire, mobileVars, server
  <1>4. QED
    BY <1>1, <1>2, <1>3, RestingStep DEF RotationRests

\* The app starts without a token.
LEMMA InitInv == Init => Inv
  <1> SUFFICES ASSUME Init PROVE Inv
    OBVIOUS
  <1>1. TypeOK
    BY InitType
  <1>2. TokensAreIssued /\ AdriftIsLost
    BY DEF Init, Server!Init, NoRotation, TokensAreIssued, AdriftIsLost
  <1>3. RotationHolds /\ RefreshTokenIsUsable
    BY DEF Init, NoRotation, RotationHolds, RotationWrites, RefreshTokenIsUsable
  <1>4. ASSUME NEW t \in Tasks PROVE TaskHolds(t) /\ ~Writes(t)
    BY DEF Init, Idle, TaskHolds, Writes, Op, At
  <1>5. QED
    BY <1>1, <1>2, <1>3, <1>4 DEF Inv, TasksHoldDifferentPairs

\* Every step preserves the invariant.
LEMMA StepInv == Inv /\ [Next]_mobileVars => Inv'
  <1> SUFFICES ASSUME Inv, [Next]_mobileVars PROVE Inv'
    OBVIOUS
  <1>1. TypeOK'
    BY StepType
  <1>2. QED
    BY <1>1, StartStep, TaskStorageStep, RespondStep, RotateStep, CrashStep, WorldStep DEF Next

\* The invariant holds of every behaviour.
LEMMA AppInvariant == Spec => []Inv
  BY InitInv, StepInv, PTL DEF Spec

\* The variables of the app keep their types, for any number of calls.
THEOREM AppTypes == Spec => []TypeOK
  <1>1. Inv => TypeOK
    BY DEF Inv
  <1>2. QED
    BY <1>1, AppInvariant, PTL

\* The token the app keeps, and the one it presents, can still be exchanged unless an
\* exchange without an answer, a logout or a crash came in between: what the app does
\* on its own never sets off the server's answer to a replayed token.
THEOREM AppNeverReplays == Spec => []RefreshTokenIsUsable
  <1>1. Inv => RefreshTokenIsUsable
    BY DEF Inv
  <1>2. QED
    BY <1>1, AppInvariant, PTL
=============================================================================
