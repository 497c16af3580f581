-------------------------- MODULE VerificationProofs --------------------------
(***************************************************************************)
(* What holds of verification codes in the whole service, for every number *)
(* of users, codes and requests.  The cap on wrong guesses holds however   *)
(* requests overlap.  Single use, one active code and the cooldown hold as *)
(* long as no two requests that redeem or replace a code do so for the     *)
(* same user at the same time.                                             *)
(***************************************************************************)
EXTENDS AuthServiceProofs, FiniteSetTheorems, WellFoundedInduction

-----------------------------------------------------------------------------
(* Types *)

RowsTyped == verifications \in [Codes -> V!Verification(MaxAttempts)]

RequestsHold ==
  \A r \in Requests :
    /\ req[r].at \in {"mail", "count", "consume"} => req[r].code \in Codes
    /\ req[r].at \in {"consume", "cooldown", "delete", "create"} => req[r].user \in Users

MailTyped == /\ mailed \subseteq Codes
             /\ lastCode \in [Users -> 0 .. ResendCooldown]
             /\ invalid \in [Codes -> Nat]

\* The instance counts as its environment does.
LEMMA CountsAgree ==
  ASSUME NEW S PROVE V!Cardinality(S) = Cardinality(S)
  BY DEF V!Cardinality, Cardinality

\* No answer "invalid code" without an increment that was still below the cap.
AnswersAreCounted ==
  \A c \in Codes : /\ invalid[c] < MaxAttempts
                   /\ V!CodeExists(c) => invalid[c] <= verifications[c].attempts

CodesInv == AuthInv /\ RowsTyped /\ RequestsHold /\ MailTyped /\ AnswersAreCounted

\* A user with a code that is still good has a newest one.
LEMMA NewestIsActive ==
  ASSUME RowsTyped, NEW u \in Users, V!HasActive(u)
  PROVE  V!GetActiveEmailVerification(u) \in V!ActiveOf(u)
<1> DEFINE A == V!ActiveOf(u)
           N == Cardinality(Codes)
           Behind == {N - verifications[c].nth : c \in A}
<1>1. N \in Nat
  BY CodesAssumption, FS_CardinalityType
<1>2. A \subseteq Codes /\ A # {}
  BY DEF V!ActiveOf, V!CodesOf, V!HasActive
<1> HIDE DEF A, N
<1>3. \A c \in A : verifications[c].nth \in 0 .. N
  BY <1>2, CountsAgree DEF RowsTyped, V!Verification, N
<1>4. Behind \subseteq Nat /\ Behind # {}
  BY <1>1, <1>2, <1>3
<1> HIDE DEF Behind
<1>5. PICK n \in Behind : \A m \in Behind : ~ (<<m, n>> \in OpToRel(<, Nat))
  BY <1>4, WFMin, NatLessThanWellFounded
<1>6. PICK c \in A : n = N - verifications[c].nth
  BY DEF Behind
<1>7. \A d \in A : verifications[d].nth <= verifications[c].nth
  <2> SUFFICES ASSUME NEW d \in A, ~ (verifications[d].nth <= verifications[c].nth)
               PROVE  FALSE
    OBVIOUS
  <2> DEFINE m == N - verifications[d].nth
  <2>1. m \in Behind
    BY DEF Behind
  <2>2. m \in Nat /\ n \in Nat /\ m < n
    BY <1>1, <1>3, <1>6
  <2> HIDE DEF m
  <2>3. <<m, n>> \in OpToRel(<, Nat)
    BY <2>2 DEF OpToRel
  <2> QED  BY <1>5, <2>1, <2>3
<1> QED  BY <1>7 DEF V!GetActiveEmailVerification, A

LEMMA ActiveIsCode ==
  ASSUME RowsTyped, NEW u \in Users, V!HasActive(u)
  PROVE  /\ V!GetActiveEmailVerification(u) \in Codes
         /\ V!GetActiveEmailVerification(u) \in V!ActiveOf(u)
  BY NewestIsActive DEF V!ActiveOf, V!CodesOf

LEMMA NoAge == 0 \in V!Ages(CodeTTL)
  BY TTLAssumption DEF V!Ages

LEMMA NoAttempt == 0 \in 0 .. MaxAttempts
  BY VerificationAssumption

\* The queries that write the table of codes keep its type.
LEMMA CreateTyped ==
  ASSUME RowsTyped, NEW c \in Codes, ~V!CodeExists(c), NEW u \in Users
  PROVE  V!CreateEmailVerification(verifications, c, u) \in [Codes -> V!Verification(MaxAttempts)]
<1> DEFINE S == V!CodesOf(verifications, u)
<1>1. S \subseteq Codes \ {c}
  BY NullAssumption DEF V!CodesOf, V!CodeExists
<1>2. /\ IsFiniteSet(Codes \ {c})
      /\ Cardinality(Codes \ {c}) = Cardinality(Codes) - 1
  BY CodesAssumption, FS_RemoveElement
<1>3. /\ Cardinality(S) <= Cardinality(Codes \ {c})
      /\ Cardinality(S) \in Nat
  BY <1>1, <1>2, FS_Subset, FS_CardinalityType
<1>4. Cardinality(Codes) \in Nat
  BY CodesAssumption, FS_CardinalityType
<1> HIDE DEF S
<1> DEFINE n == V!Cardinality(S) + 1
<1>5. n \in 0 .. V!Cardinality(Codes)
  BY <1>2, <1>3, <1>4, CountsAgree
<1> DEFINE row == [user |-> u, nth |-> n, age |-> 0, attempts |-> 0,
                  consumed |-> FALSE, uses |-> 0]
<1>6. V!CreateEmailVerification(verifications, c, u) = [verifications EXCEPT ![c] = row]
  BY DEF V!CreateEmailVerification, S
<1> HIDE DEF n
<1>7. row \in V!Verification(MaxAttempts)
  BY <1>5, NoAge, NoAttempt DEF V!Verification
<1> HIDE DEF row
<1> QED  BY <1>6, <1>7 DEF RowsTyped

LEMMA IncrementTyped ==
  ASSUME RowsTyped, NEW c \in Codes
  PROVE  V!IncrementVerificationAttempts(verifications, c, MaxAttempts)
           \in [Codes -> V!Verification(MaxAttempts)]
  BY VerificationAssumption DEF V!IncrementVerificationAttempts, RowsTyped, V!Verification

SameRow(y, x) == y.user = x.user /\ y.nth = x.nth /\ y.age = x.age /\ y.attempts = x.attempts

LEMMA Redeemed ==
  ASSUME NEW x \in V!Verification(MaxAttempts), NEW k \in 0 .. 2
  PROVE  LET y == [x EXCEPT !.consumed = TRUE, !.uses = k]
         IN  /\ y \in V!Verification(MaxAttempts)
             /\ SameRow(y, x) /\ y.consumed = TRUE /\ y.uses = k
<1> DEFINE z == [x EXCEPT !.consumed = TRUE]
           y == [z EXCEPT !.uses = k]
<1>1. z \in V!Verification(MaxAttempts)
  BY DEF V!Verification
<1>2. SameRow(z, x) /\ z.consumed = TRUE
  BY DEF V!Verification, SameRow
<1> HIDE DEF z
<1>3. y \in V!Verification(MaxAttempts)
  BY <1>1 DEF V!Verification
<1>4. SameRow(y, z) /\ y.consumed = z.consumed /\ y.uses = k
  BY <1>1 DEF V!Verification, SameRow
<1>5. y = [x EXCEPT !.consumed = TRUE, !.uses = k]
  BY DEF z
<1> HIDE DEF y
<1> QED  BY <1>2, <1>3, <1>4, <1>5 DEF SameRow

LEMMA ConsumeTyped ==
  ASSUME RowsTyped, NEW c \in Codes
  PROVE  V!ConsumeEmailVerification(verifications, c) \in [Codes -> V!Verification(MaxAttempts)]
<1> DEFINE x == verifications[c]
           k == V!Used(x.uses)
           y == [x EXCEPT !.consumed = TRUE, !.uses = k]
<1>1. x \in V!Verification(MaxAttempts)
  BY DEF RowsTyped
<1>2. k \in 0 .. 2
  BY <1>1 DEF V!Verification, V!Used
<1>3. V!ConsumeEmailVerification(verifications, c)
        \in {verifications, [verifications EXCEPT ![c] = y]}
  BY DEF V!ConsumeEmailVerification, RowsTyped
<1> HIDE DEF x, k
<1>4. y \in V!Verification(MaxAttempts)
  BY <1>1, <1>2, Redeemed
<1> HIDE DEF y
<1> QED  BY <1>3, <1>4 DEF RowsTyped

LEMMA DeleteTyped ==
  ASSUME RowsTyped, NEW u
  PROVE  V!DeleteEmailVerificationsByUser(verifications, u)
           \in [Codes -> V!Verification(MaxAttempts)]
<1>1. V!NoVerification \in V!Verification(MaxAttempts)
  <2>1. V!Cardinality(Codes) \in Nat
    BY CodesAssumption, FS_CardinalityType, CountsAgree
  <2> QED
    BY <2>1, NoAge, NoAttempt DEF V!NoVerification, V!Verification
<1> QED  BY <1>1 DEF V!DeleteEmailVerificationsByUser, RowsTyped

LEMMA TickTyped ==
  ASSUME RowsTyped, V!Tick
  PROVE  RowsTyped'
  BY TTLAssumption DEF V!Tick, RowsTyped, V!Verification, V!Older, V!Ages

-----------------------------------------------------------------------------
(* What each step does to the table of codes, row by row *)

Others(c) == \A d \in Codes : d # c => verifications'[d] = verifications[d]

\* The row just created.
Written(c, u) ==
  /\ verifications'[c].user = u
  /\ verifications'[c].age = 0
  /\ verifications'[c].attempts = 0
  /\ verifications'[c].consumed = FALSE
  /\ verifications'[c].uses = 0

LEMMA NewCodeEffect ==
  ASSUME RowsTyped, MailTyped, NEW c \in Codes, NEW u \in Users, V!NewCode(verifications, c, u)
  PROVE  /\ ~V!CodeExists(c)
         /\ RowsTyped' /\ MailTyped'
         /\ Others(c) /\ Written(c, u)
         /\ lastCode' = [lastCode EXCEPT ![u] = 0]
         /\ invalid' = [invalid EXCEPT ![c] = 0]
<1>1. /\ ~V!CodeExists(c)
      /\ verifications' = V!CreateEmailVerification(verifications, c, u)
      /\ mailed' = mailed \ {c}
      /\ lastCode' = [lastCode EXCEPT ![u] = 0]
      /\ invalid' = [invalid EXCEPT ![c] = 0]
  BY DEF V!NewCode, V!FreshCode
<1>2. RowsTyped'
  BY <1>1, CreateTyped DEF RowsTyped
<1>3. MailTyped'
  BY <1>1, VerificationAssumption, TTLAssumption DEF MailTyped
<1>4. Others(c) /\ Written(c, u)
  BY <1>1 DEF Others, Written, V!CreateEmailVerification, RowsTyped
<1> QED  BY <1>1, <1>2, <1>3, <1>4

LEMMA CountEffect ==
  ASSUME RowsTyped, NEW c \in Codes,
         verifications' = V!IncrementVerificationAttempts(verifications, c, MaxAttempts)
  PROVE  /\ RowsTyped'
         /\ Others(c)
         /\ verifications'[c].user = verifications[c].user
         /\ verifications'[c].age = verifications[c].age
         /\ verifications'[c].consumed = verifications[c].consumed
         /\ verifications'[c].uses = verifications[c].uses
         /\ verifications'[c].attempts
              = IF verifications[c].user # Null /\ verifications[c].attempts < MaxAttempts
                THEN verifications[c].attempts + 1 ELSE verifications[c].attempts
<1>1. RowsTyped'
  BY IncrementTyped DEF RowsTyped
<1> QED
  BY <1>1, VerificationAssumption
  DEF RowsTyped, V!Verification, Others, V!IncrementVerificationAttempts

LEMMA ConsumeEffect ==
  ASSUME RowsTyped, NEW c \in Codes, V!CodeExists(c),
         verifications' = V!ConsumeEmailVerification(verifications, c)
  PROVE  /\ RowsTyped'
         /\ Others(c)
         /\ SameRow(verifications'[c], verifications[c])
         /\ verifications'[c].consumed = TRUE
         /\ verifications'[c].uses = V!Used(verifications[c].uses)
<1> DEFINE x == verifications[c]
           k == V!Used(x.uses)
           y == [x EXCEPT !.consumed = TRUE, !.uses = k]
<1>1. x \in V!Verification(MaxAttempts)
  BY DEF RowsTyped
<1>2. k \in 0 .. 2
  BY <1>1 DEF V!Verification, V!Used
<1>3. verifications' = [verifications EXCEPT ![c] = y]
  BY DEF V!ConsumeEmailVerification, RowsTyped, V!CodeExists
<1>4. k = V!Used(verifications[c].uses) /\ x = verifications[c]
  OBVIOUS
<1> HIDE DEF x, k
<1>5. /\ y \in V!Verification(MaxAttempts)
      /\ SameRow(y, x) /\ y.consumed = TRUE /\ y.uses = k
  BY <1>1, <1>2, Redeemed
<1> HIDE DEF y
<1>6. RowsTyped'
  BY <1>3, <1>5 DEF RowsTyped
<1>7. Others(c) /\ verifications'[c] = y
  BY <1>3 DEF Others, RowsTyped
<1> QED  BY <1>4, <1>5, <1>6, <1>7

-----------------------------------------------------------------------------
(* What each action does *)

Moves(r, next) ==
  /\ req'[r] = next
  /\ \A q \in Requests : q # r => req'[q] = req[q]

LEMMA RegisterEffect ==
  ASSUME CodesInv, NEW r \in Requests, NEW u \in Users, V!Register(r, u)
  PROVE  \E c \in Codes :
           /\ V!NewCode(verifications, c, u)
           /\ Moves(r, [at |-> "mail", code |-> c])
           /\ users[u] = "none" /\ users' = [users EXCEPT ![u] = "unverified"]
           /\ req[r].at = "idle"
<1>1. PICK c \in Codes :
        /\ V!Begin(r, [at |-> "mail", code |-> c])
        /\ V!NewCode(verifications, c, u)
  BY DEF V!Register
<1>2. Moves(r, [at |-> "mail", code |-> c]) /\ req[r].at = "idle"
  BY <1>1 DEF Moves, V!Begin, V!Idle, CodesInv, AuthInv, Inv, TypeInv, TypeOK
<1> QED  BY <1>1, <1>2 DEF V!Register

LEMMA ResendCreateEffect ==
  ASSUME CodesInv, NEW r \in Requests, V!ResendCreate(r)
  PROVE  \E c \in Codes :
           /\ V!NewCode(verifications, c, req[r].user)
           /\ Moves(r, [at |-> "mail", code |-> c])
           /\ req[r].at = "create" /\ req[r].user \in Users
           /\ UNCHANGED users
<1>1. PICK c \in Codes :
        /\ V!Continue(r, "create", [at |-> "mail", code |-> c])
        /\ V!NewCode(verifications, c, req[r].user)
        /\ UNCHANGED users
  BY DEF V!ResendCreate
<1>2. Moves(r, [at |-> "mail", code |-> c]) /\ req[r].at = "create"
  BY <1>1 DEF Moves, V!Continue, CodesInv, AuthInv, Inv, TypeInv, TypeOK
<1> QED  BY <1>1, <1>2 DEF CodesInv, RequestsHold

LEMMA MailEffect ==
  ASSUME CodesInv, NEW r \in Requests, V!SendVerificationCode(r)
  PROVE  /\ UNCHANGED <<users, verifications, lastCode, invalid>>
         /\ mailed' \subseteq Codes
         /\ Moves(r, Idle)
<1>1. req[r].code \in Codes
  BY DEF V!SendVerificationCode, V!Continue, CodesInv, RequestsHold
<1> QED
  BY <1>1 DEF V!SendVerificationCode, V!Continue, V!Idle, Idle, Moves, V!tables,
     CodesInv, MailTyped, AuthInv, Inv, TypeInv, TypeOK

LEMMA ReadEffect ==
  ASSUME CodesInv, NEW r \in Requests, NEW u \in Users, NEW guess, V!VerifyRead(r, u, guess)
  PROVE  /\ UNCHANGED <<users, verifications, mailHistory>>
         /\ req[r].at = "idle" /\ users[u] # "none"
         /\ \E c \in Codes :
              /\ c \in V!ActiveOf(u)
              /\ \/ Moves(r, [at |-> "consume", code |-> c, user |-> u])
                 \/ Moves(r, [at |-> "count", code |-> c])
<1> DEFINE c == V!GetActiveEmailVerification(u)
<1>1. c \in Codes /\ c \in V!ActiveOf(u)
  BY ActiveIsCode DEF V!VerifyRead, CodesInv
<1> DEFINE next == IF guess = c THEN [at |-> "consume", code |-> guess, user |-> u]
                                ELSE [at |-> "count", code |-> c]
<1>2. /\ V!Begin(r, next)
      /\ users[u] # "none"
      /\ UNCHANGED <<users, verifications, mailHistory>>
  BY DEF V!VerifyRead, V!tables, V!mailHistory, mailHistory
<1>3. next = [at |-> "consume", code |-> c, user |-> u] \/ next = [at |-> "count", code |-> c]
  OBVIOUS
<1> HIDE DEF next, c
<1>4. Moves(r, next) /\ req[r].at = "idle"
  BY <1>2 DEF Moves, V!Begin, V!Idle, CodesInv, AuthInv, Inv, TypeInv, TypeOK
<1> QED  BY <1>1, <1>2, <1>3, <1>4

LEMMA VerifyCountEffect ==
  ASSUME CodesInv, NEW r \in Requests, V!VerifyCount(r)
  PROVE  \E c \in Codes :
           /\ verifications' = V!IncrementVerificationAttempts(verifications, c, MaxAttempts)
           /\ UNCHANGED <<users, mailed, lastCode>>
           /\ invalid' = IF /\ verifications'[c].user # Null
                            /\ verifications'[c].attempts < MaxAttempts
                         THEN [invalid EXCEPT ![c] = invalid[c] + 1] ELSE invalid
           /\ Moves(r, Idle)
<1> DEFINE c == req[r].code
<1>1. c \in Codes
  BY DEF V!VerifyCount, V!Continue, CodesInv, RequestsHold
<1>2. Moves(r, Idle)
  BY DEF V!VerifyCount, Moves, V!Continue, V!Idle, Idle, CodesInv, AuthInv, Inv, TypeInv, TypeOK
<1>3. /\ verifications' = V!IncrementVerificationAttempts(verifications, c, MaxAttempts)
      /\ UNCHANGED <<users, mailed, lastCode>>
      /\ invalid' = IF verifications'[c].user # Null /\ ~(verifications'[c].attempts >= MaxAttempts)
                    THEN [invalid EXCEPT ![c] = @ + 1] ELSE invalid
  BY DEF V!VerifyCount, V!TooManyAttempts
<1>4. verifications'[c].attempts \in 0 .. MaxAttempts
  BY <1>1, <1>3, CountEffect DEF CodesInv, RowsTyped, V!Verification
<1> HIDE DEF c
<1>5. ~(verifications'[c].attempts >= MaxAttempts) <=> verifications'[c].attempts < MaxAttempts
  BY <1>4, VerificationAssumption
<1> QED  BY <1>1, <1>2, <1>3, <1>5

LEMMA VerifyConsumeEffect ==
  ASSUME CodesInv, NEW r \in Requests, V!VerifyConsume(r)
  PROVE  /\ req[r].at = "consume" /\ req[r].code \in Codes /\ req[r].user \in Users
         /\ verifications' = V!ConsumeEmailVerification(verifications, req[r].code)
         /\ users' = [users EXCEPT ![req[r].user] = "verified"]
         /\ UNCHANGED mailHistory
         /\ Moves(r, Idle)
<1>1. Moves(r, Idle)
  BY DEF V!VerifyConsume, Moves, V!Continue, V!Idle, Idle, CodesInv, AuthInv, Inv, TypeInv, TypeOK
<1> QED
  BY <1>1 DEF V!VerifyConsume, V!Continue, V!mailHistory, mailHistory, CodesInv, RequestsHold

LEMMA ResendReadEffect ==
  ASSUME CodesInv, NEW r \in Requests, NEW u \in Users, V!ResendRead(r, u)
  PROVE  /\ users[u] = "unverified" /\ req[r].at = "idle"
         /\ UNCHANGED <<users, verifications, mailHistory>>
         /\ Moves(r, [at |-> "cooldown", user |-> u])
  BY DEF V!ResendRead, Moves, V!Begin, V!Idle, V!tables, V!mailHistory, mailHistory,
     CodesInv, AuthInv, Inv, TypeInv, TypeOK

LEMMA ResendCheckEffect ==
  ASSUME CodesInv, NEW r \in Requests, V!ResendCheck(r)
  PROVE  /\ req[r].at = "cooldown" /\ req[r].user \in Users
         /\ UNCHANGED <<users, verifications, mailHistory>>
         /\ \/ Moves(r, Idle)
            \/ /\ ~V!CoolingDown(req[r].user)
               /\ Moves(r, [at |-> "delete", user |-> req[r].user])
<1> DEFINE u == req[r].user
           next == IF V!CoolingDown(u) THEN Idle ELSE [at |-> "delete", user |-> u]
<1>1. /\ V!Continue(r, "cooldown", next)
      /\ UNCHANGED <<users, verifications, mailHistory>>
  BY DEF V!ResendCheck, V!Idle, Idle, V!tables, V!mailHistory, mailHistory
<1>2. \/ next = Idle
      \/ ~V!CoolingDown(u) /\ next = [at |-> "delete", user |-> req[r].user]
  OBVIOUS
<1> HIDE DEF next
<1>3. Moves(r, next) /\ req[r].at = "cooldown"
  BY <1>1 DEF Moves, V!Continue, CodesInv, AuthInv, Inv, TypeInv, TypeOK
<1> QED  BY <1>1, <1>2, <1>3 DEF CodesInv, RequestsHold

LEMMA ResendDeleteEffect ==
  ASSUME CodesInv, NEW r \in Requests, V!ResendDelete(r)
  PROVE  /\ req[r].at = "delete" /\ req[r].user \in Users
         /\ verifications' = V!DeleteEmailVerificationsByUser(verifications, req[r].user)
         /\ UNCHANGED <<users, mailHistory>>
         /\ Moves(r, [at |-> "create", user |-> req[r].user])
<1>1. Moves(r, [at |-> "create", user |-> req[r].user])
  BY DEF V!ResendDelete, Moves, V!Continue, CodesInv, AuthInv, Inv, TypeInv, TypeOK
<1> QED
  BY <1>1 DEF V!ResendDelete, V!Continue, V!mailHistory, mailHistory, CodesInv, RequestsHold

LEMMA MailTickEffect ==
  ASSUME CodesInv, V!MailTick
  PROVE  /\ UNCHANGED <<users, req, mailed, invalid>>
         /\ RowsTyped' /\ MailTyped'
         /\ \A c \in Codes :
              /\ verifications'[c].user = verifications[c].user
              /\ verifications'[c].attempts = verifications[c].attempts
              /\ verifications'[c].consumed = verifications[c].consumed
              /\ verifications'[c].uses = verifications[c].uses
              /\ verifications'[c].age <= verifications[c].age + 1
         /\ \A u \in Users :
              lastCode'[u] = IF lastCode[u] < ResendCooldown THEN lastCode[u] + 1 ELSE lastCode[u]
<1>1. V!Tick /\ UNCHANGED <<users, req, mailed, invalid>>
  BY DEF V!MailTick, V!Tick
<1>2. RowsTyped'
  BY <1>1, TickTyped DEF CodesInv
<1>3. lastCode' = [u \in Users |-> IF lastCode[u] < ResendCooldown
                                   THEN lastCode[u] + 1 ELSE lastCode[u]]
  BY DEF V!MailTick
<1>4. MailTyped'
  BY <1>1, <1>3, VerificationAssumption, TTLAssumption DEF CodesInv, MailTyped
<1>5. \A c \in Codes : verifications'[c] = IF V!CodeExists(c)
        THEN [verifications[c] EXCEPT !.age = V!Older(@, CodeTTL)] ELSE verifications[c]
  BY <1>1 DEF V!Tick
<1>6. ASSUME NEW c \in Codes
      PROVE  /\ verifications'[c].user = verifications[c].user
             /\ verifications'[c].attempts = verifications[c].attempts
             /\ verifications'[c].consumed = verifications[c].consumed
             /\ verifications'[c].uses = verifications[c].uses
             /\ verifications'[c].age <= verifications[c].age + 1
  <2> DEFINE x == verifications[c]
             k == V!Older(x.age, CodeTTL)
  <2>1. x \in V!Verification(MaxAttempts)
    BY DEF CodesInv, RowsTyped
  <2>2. k <= x.age + 1 /\ x.age <= x.age + 1
    BY <2>1, TTLAssumption DEF V!Verification, V!Older, V!Ages
  <2>3. verifications'[c] \in {x, [x EXCEPT !.age = k]}
    BY <1>5
  <2> HIDE DEF x, k
  <2> QED  BY <2>1, <2>2, <2>3 DEF V!Verification, x
<1> QED  BY <1>1, <1>2, <1>3, <1>4, <1>6

CodeStages == {"mail", "count", "consume", "cooldown", "delete", "create"}

\* A step that concerns sessions, or a request that gives up.
Quiet ==
  /\ UNCHANGED <<users, verifications, mailHistory>>
  /\ \A r \in Requests : req'[r] = req[r] \/ req'[r].at \notin CodeStages

LEMMA SessionsAreQuiet ==
  ASSUME CodesInv, NEW r \in Requests, SessionStep(r), UNCHANGED mailHistory
  PROVE  Quiet
  BY DEF Quiet, CodeStages, CodesInv, AuthInv, Inv, TypeInv, TypeOK, SessionStep, LoginRead,
     LoginIssue, RefreshReadRevoked, RefreshReadLive, ReadForRotation, RefreshRevokeAll,
     RefreshRotate, LogoutRead, LogoutRevoke, Begin, Continue, Idle, tables

LEMMA StepCases ==
  ASSUME CodesInv, [AuthNext]_authVars
  PROVE  \/ \E r \in Requests : V!VerificationStep(r) /\ UNCHANGED history
         \/ V!MailTick
         \/ Quiet
<1>1. ASSUME NEW r \in Requests, V!Fail(r)  PROVE Quiet
  BY <1>1 DEF V!Fail, V!Abort, V!Idle, V!tables, V!mailHistory, mailHistory, Quiet, CodeStages,
     CodesInv, AuthInv, Inv, TypeInv, TypeOK
<1>2. CASE UNCHANGED authVars
  BY <1>2 DEF authVars, tables, mailHistory, Quiet
<1> QED
  BY <1>1, <1>2, SessionsAreQuiet DEF AuthNext

-----------------------------------------------------------------------------
(* The invariant of codes, however requests overlap *)

CodeFacts == RowsTyped /\ RequestsHold /\ MailTyped /\ AnswersAreCounted

HoldsCode(next) ==
  /\ next.at \in {"mail", "count", "consume"} => next.code \in Codes
  /\ next.at \in {"consume", "cooldown", "delete", "create"} => next.user \in Users

LEMMA MovesHold ==
  ASSUME RequestsHold, NEW r \in Requests, NEW next, Moves(r, next), HoldsCode(next)
  PROVE  RequestsHold'
  BY DEF RequestsHold, Moves, HoldsCode

LEMMA IdleHolds == HoldsCode(Idle)
  BY DEF HoldsCode, Idle

LEMMA NewCodeFacts ==
  ASSUME CodesInv, NEW c \in Codes, NEW u \in Users, V!NewCode(verifications, c, u)
  PROVE  RowsTyped' /\ MailTyped' /\ AnswersAreCounted'
<1>1. /\ RowsTyped' /\ MailTyped'
      /\ Others(c) /\ Written(c, u)
      /\ invalid' = [invalid EXCEPT ![c] = 0]
  BY NewCodeEffect DEF CodesInv
<1>2. AnswersAreCounted'
  BY <1>1, VerificationAssumption
  DEF CodesInv, AnswersAreCounted, MailTyped, Others, Written, V!CodeExists
<1> QED  BY <1>1, <1>2

LEMMA CountFacts ==
  ASSUME CodesInv, NEW r \in Requests, V!VerifyCount(r)
  PROVE  CodeFacts'
<1>1. PICK c \in Codes :
        /\ verifications' = V!IncrementVerificationAttempts(verifications, c, MaxAttempts)
        /\ UNCHANGED <<users, mailed, lastCode>>
        /\ invalid' = IF /\ verifications'[c].user # Null
                         /\ verifications'[c].attempts < MaxAttempts
                      THEN [invalid EXCEPT ![c] = invalid[c] + 1] ELSE invalid
        /\ Moves(r, Idle)
  BY VerifyCountEffect
<1>2. /\ RowsTyped' /\ Others(c)
      /\ verifications'[c].user = verifications[c].user
      /\ verifications'[c].attempts
           = IF verifications[c].user # Null /\ verifications[c].attempts < MaxAttempts
             THEN verifications[c].attempts + 1 ELSE verifications[c].attempts
  BY <1>1, CountEffect DEF CodesInv
<1>3. verifications[c].attempts \in 0 .. MaxAttempts /\ invalid \in [Codes -> Nat]
  BY DEF CodesInv, RowsTyped, MailTyped, V!Verification
<1>4. MailTyped'
  BY <1>1, <1>3 DEF CodesInv, MailTyped
<1>5. AnswersAreCounted'
  BY <1>1, <1>2, <1>3, VerificationAssumption
  DEF CodesInv, AnswersAreCounted, Others, V!CodeExists
<1>6. RequestsHold'
  BY <1>1, MovesHold, IdleHolds DEF CodesInv
<1> QED  BY <1>2, <1>4, <1>5, <1>6 DEF CodeFacts

\* A redemption of a row that is gone changes none, of one that is there only its end.
LEMMA ConsumeFacts ==
  ASSUME CodesInv, NEW r \in Requests, V!VerifyConsume(r)
  PROVE  CodeFacts'
<1> DEFINE c == req[r].code
<1>1. /\ c \in Codes
      /\ verifications' = V!ConsumeEmailVerification(verifications, c)
      /\ UNCHANGED mailHistory
      /\ Moves(r, Idle)
  BY VerifyConsumeEffect
<1> HIDE DEF c
<1>2. MailTyped' /\ RequestsHold'
  BY <1>1, MovesHold, IdleHolds DEF CodesInv, MailTyped, mailHistory
<1>3. CASE V!CodeExists(c)
  <2>1. RowsTyped' /\ Others(c) /\ SameRow(verifications'[c], verifications[c])
    BY <1>1, <1>3, ConsumeEffect DEF CodesInv
  <2>2. AnswersAreCounted'
    BY <1>1, <2>1 DEF CodesInv, AnswersAreCounted, Others, SameRow, V!CodeExists, mailHistory
  <2> QED  BY <1>2, <2>1, <2>2 DEF CodeFacts
<1>4. CASE ~V!CodeExists(c)
  <2>1. UNCHANGED verifications
    BY <1>1, <1>4 DEF V!ConsumeEmailVerification, V!CodeExists
  <2> QED
    BY <1>1, <1>2, <2>1
    DEF CodeFacts, CodesInv, RowsTyped, AnswersAreCounted, V!CodeExists, mailHistory
<1> QED  BY <1>3, <1>4

LEMMA DeleteFacts ==
  ASSUME CodesInv, NEW r \in Requests, V!ResendDelete(r)
  PROVE  CodeFacts'
<1> DEFINE u == req[r].user
<1>1. /\ u \in Users
      /\ verifications' = V!DeleteEmailVerificationsByUser(verifications, u)
      /\ UNCHANGED <<users, mailHistory>>
      /\ Moves(r, [at |-> "create", user |-> u])
  BY ResendDeleteEffect
<1> HIDE DEF u
<1>2. RowsTyped'
  BY <1>1, DeleteTyped DEF CodesInv, RowsTyped
<1>3. RequestsHold'
  BY <1>1, MovesHold DEF CodesInv, HoldsCode
<1>4. AnswersAreCounted' /\ MailTyped'
  BY <1>1 DEF CodesInv, AnswersAreCounted, MailTyped, mailHistory, V!CodeExists,
     V!DeleteEmailVerificationsByUser, V!NoVerification
<1> QED  BY <1>2, <1>3, <1>4 DEF CodeFacts

LEMMA UnchangedFacts ==
  ASSUME CodesInv, UNCHANGED <<verifications, mailHistory>>
  PROVE  RowsTyped' /\ MailTyped' /\ AnswersAreCounted'
  BY DEF CodesInv, RowsTyped, MailTyped, AnswersAreCounted, mailHistory, V!CodeExists

LEMMA VerificationFacts ==
  ASSUME CodesInv, NEW r \in Requests, V!VerificationStep(r)
  PROVE  CodeFacts'
<1>0. RequestsHold
  BY DEF CodesInv
<1>1. ASSUME NEW u \in Users, V!Register(r, u)  PROVE CodeFacts'
  <2>1. PICK c \in Codes : /\ V!NewCode(verifications, c, u)
                           /\ Moves(r, [at |-> "mail", code |-> c])
    BY <1>1, RegisterEffect
  <2> QED  BY <1>0, <2>1, NewCodeFacts, MovesHold DEF CodeFacts, HoldsCode
<1>2. ASSUME NEW u \in Users, NEW guess, V!VerifyRead(r, u, guess)  PROVE CodeFacts'
  <2>1. PICK c \in Codes :
          \/ Moves(r, [at |-> "consume", code |-> c, user |-> u])
          \/ Moves(r, [at |-> "count", code |-> c])
    BY <1>2, ReadEffect
  <2>2. UNCHANGED <<verifications, mailHistory>>
    BY <1>2, ReadEffect
  <2>3. RequestsHold'
    BY <1>0, <2>1, MovesHold DEF HoldsCode
  <2> QED  BY <2>2, <2>3, UnchangedFacts DEF CodeFacts
<1>3. ASSUME NEW u \in Users, V!ResendRead(r, u)  PROVE CodeFacts'
  <2>1. /\ Moves(r, [at |-> "cooldown", user |-> u])
        /\ UNCHANGED <<verifications, mailHistory>>
    BY <1>3, ResendReadEffect
  <2>2. RequestsHold'
    BY <1>0, <2>1, MovesHold DEF HoldsCode
  <2> QED  BY <2>1, <2>2, UnchangedFacts DEF CodeFacts
<1>4. CASE V!SendVerificationCode(r)
  <2>1. /\ UNCHANGED <<verifications, lastCode, invalid>>
        /\ mailed' \subseteq Codes
        /\ Moves(r, Idle)
    BY <1>4, MailEffect
  <2>2. RequestsHold'
    BY <1>0, <2>1, MovesHold, IdleHolds
  <2> QED
    BY <2>1, <2>2 DEF CodeFacts, CodesInv, RowsTyped, MailTyped, AnswersAreCounted, V!CodeExists
<1>5. CASE V!ResendCheck(r)
  <2>1. /\ Moves(r, Idle) \/ Moves(r, [at |-> "delete", user |-> req[r].user])
        /\ req[r].user \in Users
        /\ UNCHANGED <<verifications, mailHistory>>
    BY <1>5, ResendCheckEffect
  <2>2. RequestsHold'
    BY <1>0, <2>1, MovesHold, IdleHolds DEF HoldsCode
  <2> QED  BY <2>1, <2>2, UnchangedFacts DEF CodeFacts
<1>6. CASE V!ResendCreate(r)
  <2>1. PICK c \in Codes : /\ V!NewCode(verifications, c, req[r].user)
                           /\ Moves(r, [at |-> "mail", code |-> c])
                           /\ req[r].user \in Users
    BY <1>6, ResendCreateEffect
  <2> QED  BY <1>0, <2>1, NewCodeFacts, MovesHold DEF CodeFacts, HoldsCode
<1> QED
  BY <1>1, <1>2, <1>3, <1>4, <1>5, <1>6, CountFacts, ConsumeFacts, DeleteFacts
  DEF V!VerificationStep

LEMMA TickFacts == ASSUME CodesInv, V!MailTick PROVE CodeFacts'
<1>1. RequestsHold'
  BY MailTickEffect DEF CodesInv, RequestsHold
<1>2. AnswersAreCounted'
  BY MailTickEffect DEF CodesInv, AnswersAreCounted, V!CodeExists
<1> QED  BY <1>1, <1>2, MailTickEffect DEF CodeFacts

LEMMA QuietFacts == ASSUME CodesInv, Quiet PROVE CodeFacts'
<1>1. RequestsHold'
  BY DEF Quiet, CodesInv, RequestsHold, CodeStages
<1> QED  BY <1>1, UnchangedFacts DEF Quiet, CodeFacts

LEMMA CodesInvariance == AuthSpec => []CodesInv
<1>1. AuthInit => CodeFacts
  <2>1. V!NoVerification \in V!Verification(MaxAttempts)
    <3>1. V!Cardinality(Codes) \in Nat
      BY CodesAssumption, FS_CardinalityType, CountsAgree
    <3> QED  BY <3>1, NoAge, NoAttempt DEF V!NoVerification, V!Verification
  <2> QED
    BY <2>1, VerificationAssumption, TTLAssumption
    DEF AuthInit, V!Init, V!MailInit, V!Idle, CodeFacts, RowsTyped, RequestsHold, MailTyped,
        AnswersAreCounted, V!CodeExists, V!NoVerification
<1>2. AuthInv /\ AuthInv' /\ CodeFacts /\ [AuthNext]_authVars => CodeFacts'
  <2> SUFFICES ASSUME AuthInv, CodeFacts, [AuthNext]_authVars PROVE CodeFacts'
    OBVIOUS
  <2>1. CodesInv
    BY DEF CodesInv, CodeFacts
  <2> QED  BY <2>1, StepCases, VerificationFacts, TickFacts, QuietFacts
<1>3. AuthSpec => []CodeFacts
  BY <1>1, <1>2, AuthInvariance, PTL DEF AuthSpec
<1>4. AuthInv /\ CodeFacts => CodesInv
  BY DEF CodesInv, CodeFacts
<1> QED  BY <1>3, <1>4, AuthInvariance, PTL

\* The tables, the requests and the mailboxes hold what they are declared to
\* hold, for every number of users, codes and requests.
THEOREM ServiceTypes == AuthSpec => []AuthTypeOK
<1>1. CodesInv => AuthTypeOK
  BY DEF CodesInv, AuthInv, Inv, TypeInv, AuthTypeOK, TypeOK, V!TypeOK, V!Holds, V!Session, Session,
     V!Ages, Ages, RowsTyped, RequestsHold, MailTyped
<1> QED  BY <1>1, CodesInvariance, PTL

\* However many wrong guesses race each other and the resends that replace the
\* code, fewer than MAX_ATTEMPTS of them are answered "invalid code" for it.
THEOREM WrongGuessesAreCapped == AuthSpec => []InvalidAnswersBelowCap
<1>1. CodesInv => InvalidAnswersBelowCap
  BY DEF CodesInv, AnswersAreCounted, InvalidAnswersBelowCap, V!InvalidAnswersBelowCap
<1> QED  BY <1>1, CodesInvariance, PTL

-----------------------------------------------------------------------------
(* Requests that redeem or replace the codes of one user do not overlap.   *)
(* Wrong guesses, mails, logins, refreshes and all requests of other users *)
(* may run at any time beside them.                                        *)

AboutCodes == {"consume", "cooldown", "delete", "create"}

OneAtATime ==
  \A r, q \in Requests :
    req[r].at \in AboutCodes /\ req[q].at \in AboutCodes /\ req[r].user = req[q].user => r = q

\* A code of the user that has not been redeemed.
Good(c, u) == verifications[c].user = u /\ verifications[c].consumed = FALSE

\* What a request has read still holds when it writes.
ReadsAreFresh(r) ==
  /\ req[r].at = "consume" => Good(req[r].code, req[r].user)
  /\ req[r].at \in {"cooldown", "delete", "create"} => users[req[r].user] = "unverified"
  /\ req[r].at \in {"delete", "create"} => lastCode[req[r].user] = ResendCooldown
  /\ req[r].at = "create" => \A c \in Codes : verifications[c].user # req[r].user

\* The good code of a user, who has at most one, is no older than the last
\* creation, so a missing code means that the cooldown is over.
UserCodes(u) ==
  /\ users[u] = "none" => /\ \A c \in Codes : verifications[c].user # u
                          /\ lastCode[u] = ResendCooldown
  /\ users[u] = "verified" => \A c \in Codes : ~Good(c, u)
  /\ users[u] = "unverified" /\ (\A c \in Codes : ~Good(c, u)) => lastCode[u] = ResendCooldown
  /\ \A c, d \in Codes : Good(c, u) /\ Good(d, u) => c = d
  /\ \A c \in Codes : Good(c, u) => \/ verifications[c].age <= lastCode[u]
                                    \/ lastCode[u] = ResendCooldown

UsesCount == \A c \in Codes : verifications[c].uses = IF verifications[c].consumed THEN 1 ELSE 0

SerialInv ==
  /\ \A r \in Requests : ReadsAreFresh(r)
  /\ \A u \in Users : UserCodes(u)
  /\ UsesCount

\* A step that leaves alone what concerns the codes of w.
LeavesAlone(w) ==
  /\ users'[w] = users[w] /\ lastCode'[w] = lastCode[w]
  /\ \A c \in Codes :
       /\ verifications'[c].user = w <=> verifications[c].user = w
       /\ verifications[c].user = w => /\ verifications'[c].consumed = verifications[c].consumed
                                       /\ verifications'[c].age = verifications[c].age

LEMMA AloneUser ==
  ASSUME NEW w \in Users, UserCodes(w), LeavesAlone(w)
  PROVE  UserCodes(w)'
  BY DEF UserCodes, Good, LeavesAlone

LEMMA AloneRequest ==
  ASSUME NEW q \in Requests, ReadsAreFresh(q), RequestsHold, req'[q] = req[q],
         req[q].at \in AboutCodes => LeavesAlone(req[q].user)
  PROVE  ReadsAreFresh(q)'
<1>1. CASE req[q].at \in AboutCodes
  <2>1. /\ LeavesAlone(req[q].user)
        /\ req[q].at = "consume" => req[q].code \in Codes
    BY <1>1 DEF RequestsHold
  <2> QED  BY <2>1 DEF ReadsAreFresh, LeavesAlone, Good
<1>2. CASE req[q].at \notin AboutCodes
  BY <1>2 DEF AboutCodes, ReadsAreFresh
<1> QED  BY <1>1, <1>2

LEMMA NoReads ==
  ASSUME NEW r \in Requests, req'[r].at \notin AboutCodes
  PROVE  ReadsAreFresh(r)'
  BY DEF AboutCodes, ReadsAreFresh

LEMMA NewCodeAlone ==
  ASSUME CodesInv, NEW c \in Codes, NEW u \in Users, V!NewCode(verifications, c, u),
         NEW w \in Users, w # u, users'[w] = users[w]
  PROVE  LeavesAlone(w)
<1>1. /\ ~V!CodeExists(c) /\ Others(c) /\ Written(c, u)
      /\ lastCode' = [lastCode EXCEPT ![u] = 0]
  BY NewCodeEffect DEF CodesInv
<1> QED
  BY <1>1, NullAssumption DEF LeavesAlone, Others, Written, V!CodeExists, CodesInv, MailTyped

\* A user who gets a code without having one.
LEMMA NewCodeUser ==
  ASSUME CodesInv, UsesCount, NEW c \in Codes, NEW u \in Users, V!NewCode(verifications, c, u),
         \A d \in Codes : verifications[d].user # u, users'[u] = "unverified"
  PROVE  UserCodes(u)' /\ UsesCount'
<1>1. /\ Others(c) /\ Written(c, u)
      /\ lastCode'[u] = 0
  BY NewCodeEffect DEF CodesInv, MailTyped
<1>2. \A d \in Codes : Good(d, u)' <=> d = c
  BY <1>1 DEF Others, Written, Good
<1>3. UserCodes(u)'
  BY <1>1, <1>2 DEF UserCodes, Written
<1>4. UsesCount'
  BY <1>1 DEF UsesCount, Others, Written
<1> QED  BY <1>3, <1>4

-----------------------------------------------------------------------------
(* Each action keeps the serial invariant *)

LEMMA UserTyped == ASSUME CodesInv PROVE users \in [Users -> {"none", "unverified", "verified"}]
  BY DEF CodesInv, AuthInv, Inv, TypeInv, TypeOK

LEMMA SerialRegister ==
  ASSUME CodesInv, SerialInv, NEW r \in Requests, NEW u \in Users, V!Register(r, u)
  PROVE  SerialInv'
<1>1. PICK c \in Codes :
        /\ V!NewCode(verifications, c, u)
        /\ Moves(r, [at |-> "mail", code |-> c])
        /\ users[u] = "none" /\ users' = [users EXCEPT ![u] = "unverified"]
  BY RegisterEffect
<1>2. /\ \A d \in Codes : verifications[d].user # u
      /\ users'[u] = "unverified"
      /\ \A w \in Users : w # u => users'[w] = users[w]
  BY <1>1, UserTyped DEF SerialInv, UserCodes
<1>3. UserCodes(u)' /\ UsesCount'
  BY <1>1, <1>2, NewCodeUser DEF SerialInv
<1>4. \A w \in Users : w # u => LeavesAlone(w)
  BY <1>1, <1>2, NewCodeAlone
<1>5. \A w \in Users : UserCodes(w)'
  BY <1>3, <1>4, AloneUser DEF SerialInv
<1>6. ASSUME NEW q \in Requests  PROVE ReadsAreFresh(q)'
  <2>1. CASE q = r
    BY <1>1, <2>1, NoReads DEF Moves, AboutCodes
  <2>2. CASE q # r
    <3>1. req[q].at \in AboutCodes => req[q].user \in Users /\ req[q].user # u
      BY <1>1, <1>2 DEF SerialInv, ReadsAreFresh, Good, AboutCodes, CodesInv, RequestsHold
    <3> QED  BY <1>1, <1>4, <2>2, <3>1, AloneRequest DEF Moves, CodesInv, SerialInv
  <2> QED  BY <2>1, <2>2
<1> QED  BY <1>3, <1>5, <1>6 DEF SerialInv

LEMMA SerialCreate ==
  ASSUME CodesInv, SerialInv, OneAtATime, NEW r \in Requests, V!ResendCreate(r)
  PROVE  SerialInv'
<1>0. PICK u \in Users : u = req[r].user
  BY ResendCreateEffect
<1>1. PICK c \in Codes :
        /\ V!NewCode(verifications, c, u)
        /\ Moves(r, [at |-> "mail", code |-> c])
        /\ req[r].at = "create"
        /\ UNCHANGED users
  BY <1>0, ResendCreateEffect
<1>2. users[u] = "unverified" /\ \A d \in Codes : verifications[d].user # u
  BY <1>0, <1>1 DEF SerialInv, ReadsAreFresh
<1>3. UserCodes(u)' /\ UsesCount'
  BY <1>1, <1>2, NewCodeUser DEF SerialInv
<1>4. \A w \in Users : w # u => LeavesAlone(w)
  BY <1>1, NewCodeAlone
<1>5. \A w \in Users : UserCodes(w)'
  BY <1>3, <1>4, AloneUser DEF SerialInv
<1>6. ASSUME NEW q \in Requests  PROVE ReadsAreFresh(q)'
  <2>1. CASE q = r
    BY <1>1, <2>1, NoReads DEF Moves, AboutCodes
  <2>2. CASE q # r
    <3>1. req[q].at \in AboutCodes => req[q].user \in Users /\ req[q].user # u
      BY <1>0, <1>1, <2>2 DEF OneAtATime, AboutCodes, CodesInv, RequestsHold
    <3> QED  BY <1>1, <1>4, <2>2, <3>1, AloneRequest DEF Moves, CodesInv, SerialInv
  <2> QED  BY <2>1, <2>2
<1> QED  BY <1>3, <1>5, <1>6 DEF SerialInv

\* What changes nothing but requests keeps what is claimed of users and codes.
LEMMA SerialUnchanged ==
  ASSUME CodesInv, SerialInv, UNCHANGED <<users, verifications, lastCode>>
  PROVE  /\ \A w \in Users : UserCodes(w)'
         /\ UsesCount'
         /\ \A q \in Requests : req'[q] = req[q] => ReadsAreFresh(q)'
<1>1. \A w : LeavesAlone(w)
  BY DEF LeavesAlone
<1> QED  BY <1>1, AloneUser, AloneRequest DEF SerialInv, CodesInv, UsesCount

LEMMA SerialRead ==
  ASSUME CodesInv, SerialInv, NEW r \in Requests, NEW u \in Users, NEW guess,
         V!VerifyRead(r, u, guess)
  PROVE  SerialInv'
<1>1. UNCHANGED <<users, verifications, lastCode>>
  BY ReadEffect DEF mailHistory
<1>2. PICK c \in Codes :
        /\ c \in V!ActiveOf(u)
        /\ \/ Moves(r, [at |-> "consume", code |-> c, user |-> u])
           \/ Moves(r, [at |-> "count", code |-> c])
  BY ReadEffect
<1>3. verifications[c].consumed \in BOOLEAN
  BY DEF CodesInv, RowsTyped, V!Verification
<1>4. Good(c, u)'
  BY <1>1, <1>2, <1>3 DEF Good, V!ActiveOf, V!CodesOf
<1>5. ReadsAreFresh(r)'
  BY <1>2, <1>4 DEF ReadsAreFresh, Moves, Good
<1>6. \A q \in Requests : q # r => req'[q] = req[q]
  BY <1>2 DEF Moves
<1> QED  BY <1>1, <1>5, <1>6, SerialUnchanged DEF SerialInv

LEMMA SerialResendRead ==
  ASSUME CodesInv, SerialInv, NEW r \in Requests, NEW u \in Users, V!ResendRead(r, u)
  PROVE  SerialInv'
<1>1. /\ users[u] = "unverified"
      /\ UNCHANGED <<users, verifications, lastCode>>
      /\ Moves(r, [at |-> "cooldown", user |-> u])
  BY ResendReadEffect DEF mailHistory
<1>2. ReadsAreFresh(r)'
  BY <1>1 DEF ReadsAreFresh, Moves
<1>3. \A q \in Requests : q # r => req'[q] = req[q]
  BY <1>1 DEF Moves
<1> QED  BY <1>1, <1>2, <1>3, SerialUnchanged DEF SerialInv

\* No code, or one that is old enough: either way the cooldown has passed.
LEMMA CooldownOver ==
  ASSUME CodesInv, NEW u \in Users, UserCodes(u), users[u] = "unverified", ~V!CoolingDown(u)
  PROVE  lastCode[u] = ResendCooldown
<1>1. lastCode[u] \in 0 .. ResendCooldown /\ ResendCooldown \in Nat
  BY TTLAssumption, VerificationAssumption DEF CodesInv, MailTyped
<1>2. CASE V!HasActive(u)
  <2> DEFINE c == V!GetActiveEmailVerification(u)
  <2>1. c \in Codes /\ c \in V!ActiveOf(u)
    BY <1>2, ActiveIsCode DEF CodesInv
  <2>2. ~(verifications[c].age < ResendCooldown)
    BY <1>2 DEF V!CoolingDown
  <2> HIDE DEF c
  <2>3. verifications[c] \in V!Verification(MaxAttempts)
    BY <2>1 DEF CodesInv, RowsTyped
  <2>4. verifications[c].age \in Nat /\ verifications[c].consumed \in BOOLEAN
    BY <2>3, TTLAssumption DEF V!Verification, V!Ages
  <2>5. Good(c, u)
    BY <2>1, <2>4 DEF Good, V!ActiveOf, V!CodesOf
  <2> QED  BY <1>1, <2>1, <2>2, <2>4, <2>5 DEF UserCodes
<1>3. CASE ~V!HasActive(u)
  <2>1. \A c \in Codes : ~Good(c, u)
    BY <1>3 DEF Good, V!HasActive, V!ActiveOf, V!CodesOf
  <2> QED  BY <2>1 DEF UserCodes
<1> QED  BY <1>2, <1>3

LEMMA SerialResendCheck ==
  ASSUME CodesInv, SerialInv, NEW r \in Requests, V!ResendCheck(r)
  PROVE  SerialInv'
<1>0. PICK u \in Users : u = req[r].user
  BY ResendCheckEffect
<1>1. /\ req[r].at = "cooldown"
      /\ UNCHANGED <<users, verifications, lastCode>>
      /\ \/ Moves(r, Idle)
         \/ ~V!CoolingDown(u) /\ Moves(r, [at |-> "delete", user |-> u])
  BY <1>0, ResendCheckEffect DEF mailHistory
<1>2. users[u] = "unverified" /\ UserCodes(u)
  BY <1>0, <1>1 DEF SerialInv, ReadsAreFresh
<1>3. CASE Moves(r, Idle)
  BY <1>3, NoReads, <1>1, SerialUnchanged DEF SerialInv, Moves, Idle, AboutCodes
<1>4. CASE ~V!CoolingDown(u) /\ Moves(r, [at |-> "delete", user |-> u])
  <2>1. lastCode[u] = ResendCooldown
    BY <1>1, <1>2, <1>4, CooldownOver
  <2>2. ReadsAreFresh(r)'
    BY <1>1, <1>2, <1>4, <2>1 DEF ReadsAreFresh, Moves
  <2> QED  BY <1>1, <1>4, <2>2, SerialUnchanged DEF SerialInv, Moves
<1> QED  BY <1>1, <1>3, <1>4

LEMMA SerialCount ==
  ASSUME CodesInv, SerialInv, NEW r \in Requests, V!VerifyCount(r)
  PROVE  SerialInv'
<1>1. PICK c \in Codes :
        /\ verifications' = V!IncrementVerificationAttempts(verifications, c, MaxAttempts)
        /\ UNCHANGED <<users, lastCode>>
        /\ Moves(r, Idle)
  BY VerifyCountEffect
<1>2. /\ Others(c)
      /\ verifications'[c].user = verifications[c].user
      /\ verifications'[c].age = verifications[c].age
      /\ verifications'[c].consumed = verifications[c].consumed
      /\ verifications'[c].uses = verifications[c].uses
  BY <1>1, CountEffect DEF CodesInv
<1>3. \A w : LeavesAlone(w)
  BY <1>1, <1>2 DEF LeavesAlone, Others
<1>4. UsesCount'
  BY <1>2 DEF SerialInv, UsesCount, Others
<1>5. ASSUME NEW q \in Requests  PROVE ReadsAreFresh(q)'
  BY <1>1, <1>3, NoReads, AloneRequest DEF SerialInv, CodesInv, Moves, Idle, AboutCodes
<1> QED  BY <1>3, <1>4, <1>5, AloneUser DEF SerialInv

LEMMA SerialMail ==
  ASSUME CodesInv, SerialInv, NEW r \in Requests, V!SendVerificationCode(r)
  PROVE  SerialInv'
  BY MailEffect, NoReads, SerialUnchanged DEF SerialInv, Moves, Idle, AboutCodes

LEMMA SerialConsume ==
  ASSUME CodesInv, SerialInv, OneAtATime, NEW r \in Requests, V!VerifyConsume(r)
  PROVE  SerialInv'
<1>0. PICK u \in Users, c \in Codes : u = req[r].user /\ c = req[r].code
  BY VerifyConsumeEffect
<1>1. /\ req[r].at = "consume"
      /\ verifications' = V!ConsumeEmailVerification(verifications, c)
      /\ users' = [users EXCEPT ![u] = "verified"]
      /\ UNCHANGED lastCode
      /\ Moves(r, Idle)
  BY <1>0, VerifyConsumeEffect DEF mailHistory
<1>2. Good(c, u)
  BY <1>0, <1>1 DEF SerialInv, ReadsAreFresh
<1>3. /\ Others(c)
      /\ SameRow(verifications'[c], verifications[c])
      /\ verifications'[c].consumed = TRUE
      /\ verifications'[c].uses = V!Used(verifications[c].uses)
  BY <1>1, <1>2, NullAssumption, ConsumeEffect DEF CodesInv, Good, V!CodeExists
<1>4. users'[u] = "verified" /\ \A w \in Users : w # u => users'[w] = users[w]
  BY <1>1, UserTyped
<1>5. \A d \in Codes : ~Good(d, u)'
  BY <1>2, <1>3 DEF SerialInv, UserCodes, Good, Others
<1>6. UserCodes(u)'
  BY <1>4, <1>5 DEF UserCodes
<1>7. UsesCount'
  BY <1>2, <1>3 DEF SerialInv, UsesCount, Others, Good, V!Used
<1>8. \A w \in Users : w # u => LeavesAlone(w)
  BY <1>1, <1>2, <1>3, <1>4 DEF LeavesAlone, Others, SameRow, Good
<1>9. \A w \in Users : UserCodes(w)'
  BY <1>6, <1>8, AloneUser DEF SerialInv
<1>10. ASSUME NEW q \in Requests  PROVE ReadsAreFresh(q)'
  <2>1. CASE q = r
    BY <1>1, <2>1, NoReads DEF Moves, AboutCodes, Idle
  <2>2. CASE q # r
    <3>1. req[q].at \in AboutCodes => req[q].user \in Users /\ req[q].user # u
      BY <1>0, <1>1, <2>2 DEF OneAtATime, AboutCodes, CodesInv, RequestsHold
    <3> QED  BY <1>1, <1>8, <2>2, <3>1, AloneRequest DEF Moves, CodesInv, SerialInv
  <2> QED  BY <2>1, <2>2
<1> QED  BY <1>7, <1>9, <1>10 DEF SerialInv

LEMMA SerialDelete ==
  ASSUME CodesInv, SerialInv, OneAtATime, NEW r \in Requests, V!ResendDelete(r)
  PROVE  SerialInv'
<1>0. PICK u \in Users : u = req[r].user
  BY ResendDeleteEffect
<1>1. /\ req[r].at = "delete"
      /\ verifications' = V!DeleteEmailVerificationsByUser(verifications, u)
      /\ UNCHANGED <<users, lastCode>>
      /\ Moves(r, [at |-> "create", user |-> u])
  BY <1>0, ResendDeleteEffect DEF mailHistory
<1>2. users[u] = "unverified" /\ lastCode[u] = ResendCooldown
  BY <1>0, <1>1 DEF SerialInv, ReadsAreFresh
<1>3. \A c \in Codes : verifications'[c] = IF verifications[c].user = u
                                           THEN V!NoVerification ELSE verifications[c]
  BY <1>1 DEF V!DeleteEmailVerificationsByUser
<1>4. /\ V!NoVerification.user = Null
      /\ V!NoVerification.consumed = FALSE /\ V!NoVerification.uses = 0
  BY DEF V!NoVerification
<1>5. \A c \in Codes : verifications'[c].user # u
  BY <1>3, <1>4, NullAssumption
<1>6. UserCodes(u)'
  BY <1>1, <1>2, <1>5 DEF UserCodes, Good
<1>7. UsesCount'
  BY <1>3, <1>4 DEF SerialInv, UsesCount
<1>8. \A w \in Users : w # u => LeavesAlone(w)
  BY <1>1, <1>3, <1>4, NullAssumption DEF LeavesAlone
<1>9. \A w \in Users : UserCodes(w)'
  BY <1>6, <1>8, AloneUser DEF SerialInv
<1>10. ASSUME NEW q \in Requests  PROVE ReadsAreFresh(q)'
  <2>1. CASE q = r
    BY <1>1, <1>2, <1>5, <2>1 DEF Moves, ReadsAreFresh
  <2>2. CASE q # r
    <3>1. req[q].at \in AboutCodes => req[q].user \in Users /\ req[q].user # u
      BY <1>0, <1>1, <2>2 DEF OneAtATime, AboutCodes, CodesInv, RequestsHold
    <3> QED  BY <1>1, <1>8, <2>2, <3>1, AloneRequest DEF Moves, CodesInv, SerialInv
  <2> QED  BY <2>1, <2>2
<1> QED  BY <1>7, <1>9, <1>10 DEF SerialInv

LEMMA SerialTick == ASSUME CodesInv, SerialInv, V!MailTick PROVE SerialInv'
<1>1. \A u \in Users : lastCode[u] \in 0 .. ResendCooldown
  BY DEF CodesInv, MailTyped
<1>2. ASSUME NEW r \in Requests  PROVE ReadsAreFresh(r)'
  <2>1. CASE req[r].at \in AboutCodes
    <3>1. req[r].user \in Users /\ (req[r].at = "consume" => req[r].code \in Codes)
      BY <2>1 DEF CodesInv, RequestsHold, AboutCodes
    <3> QED
      BY <1>1, <3>1, MailTickEffect, TTLAssumption, VerificationAssumption
      DEF SerialInv, ReadsAreFresh, Good
  <2>2. CASE req[r].at \notin AboutCodes
    BY <2>2, MailTickEffect, NoReads
  <2> QED  BY <2>1, <2>2
<1>3. ASSUME NEW u \in Users  PROVE UserCodes(u)'
  <2>1. /\ UserCodes(u) /\ users'[u] = users[u]
        /\ \A c \in Codes : Good(c, u)' <=> Good(c, u)
        /\ \A c \in Codes : verifications'[c].user = verifications[c].user
    BY MailTickEffect DEF SerialInv, Good
  <2>2. lastCode[u] = ResendCooldown => lastCode'[u] = ResendCooldown
    BY <1>1, MailTickEffect, TTLAssumption, VerificationAssumption
  <2>3. ASSUME NEW c \in Codes, verifications[c].age <= lastCode[u]
        PROVE  verifications'[c].age <= lastCode'[u] \/ lastCode'[u] = ResendCooldown
    <3>1. verifications[c].age \in Nat /\ verifications'[c].age \in Nat
      BY MailTickEffect, TTLAssumption DEF CodesInv, RowsTyped, V!Verification, V!Ages
    <3>2. verifications'[c].age <= verifications[c].age + 1
      BY MailTickEffect
    <3> QED
      BY <1>1, <2>3, <3>1, <3>2, MailTickEffect, TTLAssumption, VerificationAssumption
  <2> QED  BY <2>1, <2>2, <2>3 DEF UserCodes
<1>4. UsesCount'
  BY MailTickEffect DEF SerialInv, UsesCount
<1> QED  BY <1>2, <1>3, <1>4 DEF SerialInv

LEMMA SerialQuiet == ASSUME CodesInv, SerialInv, Quiet PROVE SerialInv'
<1>1. \A q \in Requests : req'[q] = req[q] \/ req'[q].at \notin AboutCodes
  BY DEF Quiet, CodeStages, AboutCodes
<1> QED  BY <1>1, NoReads, SerialUnchanged DEF SerialInv, Quiet, mailHistory

LEMMA SerialCodesStep ==
  ASSUME CodesInv, SerialInv, OneAtATime, [AuthNext]_authVars
  PROVE  SerialInv'
<1>1. ASSUME NEW r \in Requests, V!VerificationStep(r)  PROVE SerialInv'
  BY <1>1, SerialRegister, SerialRead, SerialResendRead, SerialMail, SerialCount, SerialConsume,
     SerialResendCheck, SerialDelete, SerialCreate DEF V!VerificationStep
<1> QED  BY <1>1, StepCases, SerialTick, SerialQuiet

-----------------------------------------------------------------------------
(* Results about requests that do not overlap *)

LEMMA SerialInvariance == AuthSpec /\ []OneAtATime => []SerialInv
<1>1. AuthInit => SerialInv
  BY NullAssumption, VerificationAssumption
  DEF AuthInit, V!Init, V!MailInit, V!Idle, V!NoVerification, SerialInv, ReadsAreFresh, UserCodes,
      Good, UsesCount
<1>2. CodesInv /\ SerialInv /\ OneAtATime /\ [AuthNext]_authVars => SerialInv'
  BY SerialCodesStep
<1> QED  BY <1>1, <1>2, CodesInvariance, PTL DEF AuthSpec

\* As long as a user's redemptions and resends do not overlap, one code opens
\* one session (README.md:250), whatever all other requests do meanwhile.
THEOREM CodesAreSingleUse == AuthSpec /\ []OneAtATime => []CodeIsSingleUse
<1>1. SerialInv => CodeIsSingleUse
  BY DEF SerialInv, UsesCount, CodeIsSingleUse, V!CodeIsSingleUse
<1> QED  BY <1>1, SerialInvariance, PTL

\* Then a user has one code that is still good, and none once verified, also
\* when a resend fails between its two statements.
THEOREM CodesAreReplaced == AuthSpec /\ []OneAtATime => []OneActiveCode
<1>1. CodesInv /\ SerialInv => OneActiveCode
  <2> SUFFICES ASSUME CodesInv, SerialInv, NEW u \in Users
               PROVE  V!Cardinality(V!ActiveOf(u)) <= (IF users[u] = "verified" THEN 0 ELSE 1)
    BY DEF OneActiveCode, V!OneActiveCode
  <2> DEFINE A == V!ActiveOf(u)
  <2>1. \A c \in A : c \in Codes /\ Good(c, u)
    BY DEF V!ActiveOf, V!CodesOf, Good, CodesInv, RowsTyped, V!Verification
  <2>2. users[u] = "verified" => A = {}
    BY <2>1 DEF SerialInv, UserCodes
  <2>3. \A c, d \in A : c = d
    BY <2>1 DEF SerialInv, UserCodes
  <2>4. V!Cardinality(A) = Cardinality(A)
    BY CountsAgree
  <2> HIDE DEF A
  <2>5. (A = {} => Cardinality(A) = 0) /\ \A c : A = {c} => Cardinality(A) = 1
    BY FS_EmptySet, FS_Singleton
  <2>6. A = {} \/ \E c : A = {c}
    <3>1. ASSUME NEW c \in A  PROVE A = {c}
      BY <2>3
    <3> QED  BY <3>1
  <2> QED  BY <2>2, <2>4, <2>5, <2>6 DEF A
<1> QED  BY <1>1, CodesInvariance, SerialInvariance, PTL

\* A code is created for a user by a registration or by a resend, after the cooldown.
LEMMA CreationWaits ==
  ASSUME CodesInv, SerialInv, [AuthNext]_authVars, NEW u \in Users, V!Created(u)
  PROVE  lastCode[u] = ResendCooldown
<1>1. PICK c \in Codes : verifications[c].user = Null /\ verifications'[c].user = u
  BY DEF V!Created, V!CodeExists
<1>2. u # Null
  BY NullAssumption
<1>3. ASSUME NEW r \in Requests, NEW w \in Users, V!Register(r, w)
      PROVE  lastCode[u] = ResendCooldown
  <2>1. PICK d \in Codes : V!NewCode(verifications, d, w) /\ users[w] = "none"
    BY <1>3, RegisterEffect
  <2>2. c = d /\ u = w
    BY <1>1, <1>2, <2>1, NewCodeEffect DEF CodesInv, Others, Written
  <2> QED  BY <2>1, <2>2 DEF SerialInv, UserCodes
<1>4. ASSUME NEW r \in Requests, V!ResendCreate(r)
      PROVE  lastCode[u] = ResendCooldown
  <2>1. PICK d \in Codes : /\ V!NewCode(verifications, d, req[r].user)
                           /\ req[r].at = "create" /\ req[r].user \in Users
    BY <1>4, ResendCreateEffect
  <2>2. c = d /\ u = req[r].user
    BY <1>1, <1>2, <2>1, NewCodeEffect DEF CodesInv, Others, Written
  <2> QED  BY <2>1, <2>2 DEF SerialInv, ReadsAreFresh
<1>5. ASSUME NEW r \in Requests,
             \/ \E w \in Users : \/ \E guess \in mailed \cup {Null} : V!VerifyRead(r, w, guess)
                                 \/ V!ResendRead(r, w)
             \/ V!SendVerificationCode(r)
             \/ V!ResendCheck(r)
      PROVE  FALSE
  <2>1. UNCHANGED verifications
    BY <1>5, ReadEffect, ResendReadEffect, MailEffect, ResendCheckEffect
  <2> QED  BY <1>1, <1>2, <2>1
<1>6. ASSUME NEW r \in Requests, V!VerifyCount(r)  PROVE FALSE
  <2>1. PICK d \in Codes :
          verifications' = V!IncrementVerificationAttempts(verifications, d, MaxAttempts)
    BY <1>6, VerifyCountEffect
  <2>2. Others(d) /\ verifications'[d].user = verifications[d].user
    BY <2>1, CountEffect DEF CodesInv
  <2> QED  BY <1>1, <1>2, <2>2 DEF Others
<1>7. ASSUME NEW r \in Requests, V!VerifyConsume(r)  PROVE FALSE
  <2>1. PICK d \in Codes :
          /\ verifications' = V!ConsumeEmailVerification(verifications, d)
          /\ V!CodeExists(d)
    BY <1>7, VerifyConsumeEffect, NullAssumption
    DEF SerialInv, ReadsAreFresh, Good, V!CodeExists
  <2>2. Others(d) /\ SameRow(verifications'[d], verifications[d])
    BY <2>1, ConsumeEffect DEF CodesInv
  <2> QED  BY <1>1, <1>2, <2>2 DEF Others, SameRow
<1>8. ASSUME NEW r \in Requests, V!ResendDelete(r)  PROVE FALSE
  <2>1. verifications' = V!DeleteEmailVerificationsByUser(verifications, req[r].user)
    BY <1>8, ResendDeleteEffect
  <2>2. verifications'[c].user \in {Null, verifications[c].user}
    BY <2>1 DEF V!DeleteEmailVerificationsByUser, V!NoVerification
  <2> QED  BY <1>1, <1>2, <2>2
<1>9. V!MailTick => FALSE
  BY <1>1, <1>2, MailTickEffect
<1>10. Quiet => FALSE
  BY <1>1, <1>2 DEF Quiet
<1> QED
  BY <1>3, <1>4, <1>5, <1>6, <1>7, <1>8, <1>9, <1>10, StepCases DEF V!VerificationStep

\* Then a user's codes are created at least the cooldown apart, also across a
\* request that failed between deleting the old code and creating the new one.
THEOREM CodesAreSpaced == AuthSpec /\ []OneAtATime => CooldownSpacesCodes
<1>1. CodesInv /\ SerialInv /\ [AuthNext]_authVars
        => [\A u \in Users : V!Created(u) => lastCode[u] = ResendCooldown]_(V!verificationVars)
  BY CreationWaits
<1> QED
  BY <1>1, CodesInvariance, SerialInvariance, PTL
  DEF AuthSpec, CooldownSpacesCodes, V!CooldownSpacesCodes
=============================================================================
