------------------------- MODULE DocumentAccessProofs -------------------------
(***************************************************************************)
(* Who is served what, for every number of users, documents and requests   *)
(* in flight, however the round trips of authorizeDoc and of the           *)
(* operations behind it interleave.                                        *)
(***************************************************************************)
EXTENDS DocumentAccess, TLAPS

(***************************************************************************)
(* What a request found in an earlier round trip need not be true any      *)
(* more.  What is: a user who is not the owner never becomes it, and a     *)
(* share row that is there when the request looks for it either gave       *)
(* access at some moment since the request found the document alive, or    *)
(* was inserted after the deletion.                                        *)
(***************************************************************************)
RowsOwned ==
  \A d \in Documents :
    /\ documents[d].state = "none" => documents[d] = NoDocument
    /\ documents[d].state # "none" => documents[d].owner \in Users

ShareOfRow(d, u) ==
  <<d, u>> \in shares =>
    /\ u \in verified
    /\ ~Owns(u, d)
    /\ documents[d].state # "none"

Pair(r) == <<req[r].doc, req[r].user>>

Seen(r) ==
  /\ At(r, "share") =>
       /\ documents[req[r].doc].state # "none"
       /\ ~Owns(req[r].user, req[r].doc)
       /\ Pair(r) \in shares => Entitled(r)
  /\ req[r].at \in {"admitted", "insert", "ok", "forbidden", "invalid"} =>
       /\ documents[req[r].doc].state # "none"
       /\ Entitled(r)
       /\ At(r, "forbidden") \/ req[r].op = "read" \/ Owns(req[r].user, req[r].doc)
  /\ At(r, "insert") =>
       /\ req[r].op = "share"
       /\ req[r].target \in verified
       /\ ~Owns(req[r].target, req[r].doc)
  /\ At(r, "notFound") => ~kept[r]

Inv == /\ TypeOK
       /\ RowsOwned
       /\ \A d \in Documents, u \in Users : ShareOfRow(d, u)
       /\ \A r \in Requests : Seen(r)

-----------------------------------------------------------------------------
USE NullAssumption

\* What a request holds at each of its stages.
LEMMA RequestFields ==
  ASSUME TypeOK, NEW r \in Requests, req[r] # Idle
  PROVE  /\ req[r].user \in Users
         /\ req[r].doc \in Documents
         /\ req[r].op \in Operations
         /\ req[r].target \in Users \cup {Null}
         /\ req[r].at # "idle"
  BY DEF TypeOK, Request, Codes

\* Moving a request to a stage keeps what it holds and the other requests.
LEMMA GotoType ==
  ASSUME TypeOK, NEW r \in Requests, req[r] # Idle,
         NEW stage \in {"document", "share", "admitted", "insert"} \cup Codes,
         Goto(r, stage)
  PROVE  /\ req' \in [Requests -> Request]
         /\ req'[r] # Idle
         /\ req'[r].at = stage
         /\ req'[r].user = req[r].user /\ req'[r].doc = req[r].doc
         /\ req'[r].op = req[r].op /\ req'[r].target = req[r].target
         /\ \A q \in Requests \ {r} : req'[q] = req[q]
  <1>1. req[r] \in Request \ {Idle}
    BY DEF TypeOK
  <1>2. [req[r] EXCEPT !.at = stage] \in Request \ {Idle}
    BY <1>1 DEF Request, Idle, Codes
  <1>3. req'[r] = [req[r] EXCEPT !.at = stage]
    BY DEF Goto, TypeOK
  <1>4. QED
    BY <1>1, <1>2, <1>3 DEF Goto, TypeOK, Request, Idle, Codes

\* What a step records of the access of a request that is under way.
LEMMA Observed ==
  ASSUME Observe, NEW r \in Requests, req'[r] # Idle,
         NEW d, NEW u, d = req'[r].doc, u = req'[r].user
  PROVE  /\ held'[r] \in BOOLEAN /\ kept'[r] \in BOOLEAN
         /\ documents'[d].state = "alive" /\ (documents'[d].owner = u \/ <<d, u>> \in shares')
              => held'[r]
         /\ req[r] # Idle /\ held[r] => held'[r]
         /\ kept'[r] => /\ documents'[d].state = "alive"
                        /\ documents'[d].owner = u \/ <<d, u>> \in shares'
         /\ req[r] # Idle /\ kept'[r] => kept[r]
  BY DEF Observe, Granted, HasAccess, Owns

-----------------------------------------------------------------------------
(* Type correctness *)

\* The types hold in the empty tables.
LEMMA InitType == Init => TypeOK
  BY DEF Init, TypeOK, NoDocument, Document, Request, Idle

\* Every step keeps the types.
LEMMA StepType == Inv /\ [Next]_accessVars => TypeOK'
  <1> SUFFICES ASSUME Inv, [Next]_accessVars PROVE TypeOK'
    OBVIOUS
  <1> USE DEF Inv
  <1> DEFINE RowsOK == /\ verified' \subseteq Users
                       /\ documents' \in [Documents -> Document]
                       /\ shares' \subseteq Documents \X Users
                       /\ req' \in [Requests -> Request]
                       /\ late' \subseteq Documents \X Users
  <1>1. ASSUME NEW r \in Requests, NEW u \in Users, NEW op \in Operations,
               NEW d \in Documents, NEW t \in Targets(op), Begin(r, u, op, d, t)
        PROVE  RowsOK
    BY <1>1 DEF Begin, Targets, TypeOK, Request, tables
  <1>2. ASSUME NEW r \in Requests, ReadDocument(r) PROVE RowsOK
    BY <1>2, GotoType DEF ReadDocument, At, Idle, Answer, Codes, TypeOK, tables
  <1>3. ASSUME NEW r \in Requests, ReadShare(r) PROVE RowsOK
    BY <1>3, GotoType DEF ReadShare, RefuseWrite, At, Idle, Answer, Codes, TypeOK, tables
  <1>4. ASSUME NEW r \in Requests, Serve(r) \/ Edit(r) PROVE RowsOK
    BY <1>4, GotoType DEF Serve, Edit, At, Idle, Answer, Codes, TypeOK, tables
  <1>5. ASSUME NEW r \in Requests, ReadTarget(r) PROVE RowsOK
    BY <1>5, GotoType DEF ReadTarget, At, Idle, Answer, Codes, TypeOK, tables
  <1>6. ASSUME NEW r \in Requests, ShareDocument(r) PROVE RowsOK
    <2>1. req[r].target \in Users
      BY <1>6 DEF ShareDocument, Seen, At, TypeOK
    <2>2. QED
      BY <1>6, <2>1, GotoType, RequestFields
      DEF ShareDocument, CreateShare, At, Idle, Answer, Codes, TypeOK, tables
  <1>7. ASSUME NEW r \in Requests, RevokeShare(r) PROVE RowsOK
    BY <1>7, GotoType DEF RevokeShare, DeleteShare, At, Idle, Answer, Codes, TypeOK
  <1>8. ASSUME NEW r \in Requests, Delete(r) PROVE RowsOK
    <2>1. documents' \in [Documents -> Document]
      BY <1>8 DEF Delete, SoftDeleteDocument, TypeOK, Document
    <2>2. req' \in [Requests -> Request]
      BY <1>8, GotoType DEF Delete, At, Idle, Answer, Codes
    <2>3. QED
      BY <1>8, <2>1, <2>2 DEF Delete, TypeOK
  <1>9. ASSUME NEW r \in Requests, End(r) PROVE RowsOK
    BY <1>9 DEF End, TypeOK, Request, tables
  <1>10. ASSUME NEW u \in Users, NEW d \in Documents, Create(u, d) PROVE RowsOK
    BY <1>10 DEF Create, TypeOK, Document
  <1>11. ASSUME NEW u \in Users, VerifyEmail(u) PROVE RowsOK
    BY <1>11 DEF VerifyEmail, TypeOK
  <1>12. CASE UNCHANGED accessVars
    BY <1>12 DEF accessVars, tables, TypeOK
  <1>13. ASSUME Next PROVE RowsOK
    BY <1>13, <1>1, <1>2, <1>3, <1>4, <1>5, <1>6, <1>7, <1>8, <1>9, <1>10, <1>11
    DEF Next, Step
  <1>14. ASSUME Observe
         PROVE  held' \in [Requests -> BOOLEAN] /\ kept' \in [Requests -> BOOLEAN]
    BY <1>14 DEF Observe, Granted, HasAccess, Owns, TypeOK
  <1>15. QED
    BY <1>12, <1>13, <1>14 DEF TypeOK, Next

-----------------------------------------------------------------------------
(* What a step may do to the tables *)

Grows ==
  /\ verified \subseteq verified'
  /\ late \subseteq late'
  /\ \A d \in Documents :
       documents[d].state # "none" =>
         documents'[d].state # "none" /\ documents'[d].owner = documents[d].owner

NewRows ==
  \A d \in Documents :
    documents'[d] # documents[d] /\ documents[d].state = "none" =>
      documents'[d].state = "alive" /\ documents'[d].owner \in Users

NewShares ==
  \A d \in Documents, u \in Users :
    <<d, u>> \in shares' /\ <<d, u>> \notin shares =>
      /\ u \in verified'
      /\ documents'[d] = documents[d]
      /\ documents[d].state # "none"
      /\ documents[d].owner # u
      /\ documents[d].state = "alive" \/ <<d, u>> \in late'

\* Verified users, document rows and their owners stay; a new share is of a
\* document that exists, and is late if that document is deleted.
LEMMA StepTables == Inv /\ [Next]_accessVars => Grows /\ NewRows /\ NewShares
  <1> SUFFICES ASSUME Inv, [Next]_accessVars PROVE Grows /\ NewRows /\ NewShares
    OBVIOUS
  <1> USE DEF Inv, Grows, NewRows, NewShares
  <1>1. CASE UNCHANGED <<tables, late>>
    BY <1>1 DEF tables
  <1>2. ASSUME NEW r \in Requests, ShareDocument(r) PROVE Grows /\ NewRows /\ NewShares
    <2>1. /\ req[r].target \in verified
          /\ documents[req[r].doc].owner # req[r].target
          /\ documents[req[r].doc].state # "none"
      BY <1>2 DEF ShareDocument, Seen, At, Owns
    <2>2. UNCHANGED <<verified, documents>>
      BY <1>2 DEF ShareDocument
    <2>3. /\ shares' = shares \cup {<<req[r].doc, req[r].target>>}
          /\ \/ documents[req[r].doc].state = "alive"
             \/ <<req[r].doc, req[r].target>> \in shares
             \/ <<req[r].doc, req[r].target>> \in late'
          /\ late \subseteq late'
      BY <1>2 DEF ShareDocument, CreateShare, GetShare
    <2>4. QED
      BY <2>1, <2>2, <2>3
  <1>3. ASSUME NEW r \in Requests, RevokeShare(r) PROVE Grows /\ NewRows /\ NewShares
    BY <1>3 DEF RevokeShare, DeleteShare
  <1>4. ASSUME NEW r \in Requests, Delete(r) PROVE Grows /\ NewRows /\ NewShares
    <2>1. /\ documents' = [documents EXCEPT ![req[r].doc].state = "deleted"]
          /\ UNCHANGED <<verified, shares, late>>
      BY <1>4 DEF Delete, SoftDeleteDocument
    <2>2. documents[req[r].doc].state # "none"
      BY <1>4 DEF Delete, Seen, At
    <2>3. QED
      BY <2>1, <2>2 DEF TypeOK, Document
  <1>5. ASSUME NEW u \in Users, NEW d \in Documents, Create(u, d)
        PROVE  Grows /\ NewRows /\ NewShares
    BY <1>5 DEF Create, TypeOK, Document, NoDocument
  <1>6. ASSUME NEW u \in Users, VerifyEmail(u) PROVE Grows /\ NewRows /\ NewShares
    BY <1>6 DEF VerifyEmail
  <1>7. QED
    BY <1>1, <1>2, <1>3, <1>4, <1>5, <1>6
    DEF Next, Step, Begin, ReadDocument, ReadShare, Serve, Edit, ReadTarget, End, accessVars

\* So rows that exist keep an owner, and shares are of existing documents and
\* verified users other than the owner.
LEMMA StepRows ==
  Inv /\ [Next]_accessVars =>
    RowsOwned' /\ \A d \in Documents, u \in Users : ShareOfRow(d, u)'
  <1> SUFFICES ASSUME Inv, [Next]_accessVars
               PROVE  /\ RowsOwned'
                      /\ \A d \in Documents, u \in Users : ShareOfRow(d, u)'
    OBVIOUS
  <1>1. Grows /\ NewRows /\ NewShares
    BY StepTables
  <1>2. RowsOwned'
    BY <1>1 DEF Inv, RowsOwned, Grows, NewRows
  <1>3. ASSUME NEW d \in Documents, NEW u \in Users PROVE ShareOfRow(d, u)'
    BY <1>1 DEF Inv, ShareOfRow, Owns, Grows, NewShares
  <1>4. QED
    BY <1>2, <1>3
-----------------------------------------------------------------------------
(* What a request has seen *)

\* A request that stays where it is still knows what it has seen.
LEMMA SeenStays ==
  ASSUME Inv, [Next]_accessVars, NEW r \in Requests, req'[r] = req[r]
  PROVE  Seen(r)'
  <1> USE DEF Inv
  <1>0. CASE UNCHANGED accessVars
    BY <1>0 DEF accessVars, tables, Seen, At, Owns, Pair, Entitled
  <1>1. CASE req[r] = Idle
    BY <1>1 DEF Seen, At, Idle
  <1>2. CASE Next /\ req[r] # Idle
    <2> DEFINE d == req[r].doc
               u == req[r].user
    <2>1. /\ d \in Documents /\ u \in Users
          /\ req[r].target \in Users \cup {Null}
      BY <1>2, RequestFields
    <2>2. Grows /\ NewShares
      BY StepTables
    <2>3. /\ held[r] => held'[r]
          /\ kept'[r] => kept[r]
          /\ documents'[d].state = "alive" /\ <<d, u>> \in shares' => held'[r]
      BY <1>2, Observed DEF Next
    <2>4. Entitled(r) => Entitled(r)'
      BY <2>2, <2>3 DEF Entitled, Grows
    <2>5. At(r, "share") /\ Pair(r)' \in shares' => Entitled(r)'
      <3>1. CASE Pair(r) \in shares
        BY <2>4, <3>1 DEF Seen
      <3>2. CASE Pair(r) \notin shares /\ Pair(r) \in shares'
        BY <2>1, <2>2, <2>3, <3>2 DEF NewShares, Pair, Entitled
      <3>3. QED
        BY <3>1, <3>2 DEF Pair
    <2>6. Seen(r)
      OBVIOUS
    <2>7. QED
      BY <2>1, <2>2, <2>3, <2>4, <2>5, <2>6 DEF Seen, At, Owns, Grows
  <1>3. QED
    BY <1>0, <1>1, <1>2

\* What a request that moves may rely on.
LEMMA Moving ==
  ASSUME Inv, Next, NEW r \in Requests, req[r] # Idle,
         NEW stage \in {"document", "share", "admitted", "insert"} \cup Codes,
         Goto(r, stage)
  PROVE  /\ req[r].doc \in Documents /\ req[r].user \in Users
         /\ req[r].target \in Users \cup {Null}
         /\ req'[r].at = stage
         /\ req'[r].user = req[r].user /\ req'[r].doc = req[r].doc
         /\ req'[r].op = req[r].op /\ req'[r].target = req[r].target
         /\ Entitled(r) => Entitled(r)'
         /\ documents'[req[r].doc].state = "alive"
              /\ (documents'[req[r].doc].owner = req[r].user \/ Pair(r) \in shares')
              => held'[r]
         /\ kept'[r] => /\ documents'[req[r].doc].state = "alive"
                        /\ documents'[req[r].doc].owner = req[r].user \/ Pair(r) \in shares'
  <1> USE DEF Inv
  <1>1. /\ req'[r] # Idle
        /\ req'[r].at = stage
        /\ req'[r].user = req[r].user /\ req'[r].doc = req[r].doc
        /\ req'[r].op = req[r].op /\ req'[r].target = req[r].target
    BY GotoType
  <1>2. /\ req[r].doc \in Documents /\ req[r].user \in Users
        /\ req[r].target \in Users \cup {Null}
    BY RequestFields
  <1>3. late \subseteq late'
    BY StepTables DEF Grows
  <1>4. /\ documents'[req[r].doc].state = "alive"
             /\ (documents'[req[r].doc].owner = req[r].user
                   \/ <<req[r].doc, req[r].user>> \in shares')
             => held'[r]
        /\ held[r] => held'[r]
        /\ kept'[r] => /\ documents'[req[r].doc].state = "alive"
                       /\ documents'[req[r].doc].owner = req[r].user
                            \/ <<req[r].doc, req[r].user>> \in shares'
    BY <1>1, Observed DEF Next
  <1>5. QED
    BY <1>1, <1>2, <1>3, <1>4 DEF Entitled, Pair

\* The request that moves knows what it has just read.
LEMMA SeenMoves ==
  ASSUME Inv, Next, NEW r \in Requests, Step(r)
  PROVE  Seen(r)'
  <1> USE DEF Inv
  <1>0. Grows
    BY StepTables
  <1>1. ASSUME NEW u \in Users, NEW op \in Operations, NEW d \in Documents,
               NEW t \in Targets(op), Begin(r, u, op, d, t)
        PROVE  Seen(r)'
    BY <1>1 DEF Begin, TypeOK, Seen, At
  <1>2. ASSUME ReadDocument(r) PROVE Seen(r)'
    <2>1. UNCHANGED <<verified, documents, shares, late>>
      BY <1>2 DEF ReadDocument, tables
    <2>2. req[r] # Idle
      BY <1>2 DEF ReadDocument, At, Idle
    <2>3. CASE ~GetDocument(req[r].doc) /\ Goto(r, "notFound")
      BY <2>1, <2>2, <2>3, Moving DEF GetDocument, Codes, Seen, At
    <2>4. CASE /\ GetDocument(req[r].doc) /\ Owns(req[r].user, req[r].doc)
               /\ Goto(r, "admitted")
      <3>1. held'[r]
        BY <2>1, <2>2, <2>4, Moving DEF GetDocument, Owns
      <3>2. Entitled(r)'
        BY <3>1 DEF Entitled
      <3>3. QED
        BY <2>1, <2>2, <2>4, <3>2, Moving DEF GetDocument, Seen, At, Owns
    <2>5. CASE /\ GetDocument(req[r].doc) /\ ~Owns(req[r].user, req[r].doc)
               /\ Goto(r, "share")
      <3>1. Pair(r) \in shares' => held'[r]
        BY <2>1, <2>2, <2>5, Moving DEF GetDocument
      <3>2. Pair(r)' \in shares' => Entitled(r)'
        BY <2>2, <2>5, <3>1, Moving DEF Entitled, Pair
      <3>3. QED
        BY <2>1, <2>2, <2>5, <3>2, Moving DEF GetDocument, Seen, At, Owns
    <2>6. QED
      BY <1>2, <2>3, <2>4, <2>5 DEF ReadDocument, Answer
  <1>3. ASSUME ReadShare(r) PROVE Seen(r)'
    <2>1. UNCHANGED <<verified, documents, shares, late>>
      BY <1>3 DEF ReadShare, tables
    <2>2. req[r] # Idle /\ At(r, "share")
      BY <1>3 DEF ReadShare, At, Idle
    <2>3. /\ documents[req[r].doc].state # "none"
          /\ documents[req[r].doc].owner # req[r].user
          /\ GetShare(req[r].doc, req[r].user) => Entitled(r)
      BY <2>2 DEF Seen, Owns, Pair, GetShare
    <2>4. CASE /\ req[r].op = "read" /\ GetShare(req[r].doc, req[r].user)
               /\ Goto(r, "admitted")
      BY <2>1, <2>2, <2>3, <2>4, Moving DEF Codes, Seen, At
    <2>5. CASE ~GetShare(req[r].doc, req[r].user) /\ Goto(r, "notFound")
      BY <2>1, <2>2, <2>3, <2>5, Moving DEF Codes, Seen, At, GetShare, Pair
    <2>6. CASE GetShare(req[r].doc, req[r].user) /\ Goto(r, "forbidden")
      BY <2>1, <2>2, <2>3, <2>6, Moving DEF Codes, Seen, At
    <2>7. QED
      BY <1>3, <2>4, <2>5, <2>6 DEF ReadShare, RefuseWrite, Answer
  <1>4. ASSUME Serve(r) \/ Edit(r) \/ RevokeShare(r) \/ Delete(r) PROVE Seen(r)'
    <2>1. req[r] # Idle /\ At(r, "admitted") /\ Goto(r, "ok")
      BY <1>4 DEF Serve, Edit, RevokeShare, Delete, Answer, At, Idle
    <2>2. QED
      BY <1>0, <2>1, Moving DEF Codes, Seen, At, Owns, Grows
  <1>5. ASSUME ReadTarget(r) PROVE Seen(r)'
    <2>1. UNCHANGED <<verified, documents, shares, late>>
      BY <1>5 DEF ReadTarget, tables
    <2>2. req[r] # Idle /\ At(r, "admitted") /\ req[r].op = "share"
      BY <1>5 DEF ReadTarget, At, Idle
    <2>3. CASE MayReceive(req[r].target, documents[req[r].doc].owner) /\ Goto(r, "insert")
      BY <2>1, <2>2, <2>3, Moving DEF MayReceive, Codes, Seen, At, Owns
    <2>4. CASE Goto(r, "invalid")
      BY <2>1, <2>2, <2>4, Moving DEF Codes, Seen, At, Owns
    <2>5. QED
      BY <1>5, <2>3, <2>4 DEF ReadTarget, Answer
  <1>6. ASSUME ShareDocument(r) PROVE Seen(r)'
    <2>1. req[r] # Idle /\ At(r, "insert") /\ Goto(r, "ok")
      BY <1>6 DEF ShareDocument, Answer, At, Idle
    <2>2. QED
      BY <1>0, <2>1, Moving DEF Codes, Seen, At, Owns, Grows
  <1>7. ASSUME End(r) PROVE Seen(r)'
    BY <1>7 DEF End, TypeOK, Seen, At, Idle
  <1>8. QED
    BY <1>1, <1>2, <1>3, <1>4, <1>5, <1>6, <1>7 DEF Step

\* A step of one request moves no other.
LEMMA OthersStay ==
  ASSUME TypeOK, NEW r \in Requests, Step(r), NEW q \in Requests \ {r}
  PROVE  req'[q] = req[q]
  BY DEF Step, Begin, ReadDocument, ReadShare, RefuseWrite, Serve, Edit, ReadTarget,
         ShareDocument, RevokeShare, Delete, End, Answer, Goto, TypeOK

-----------------------------------------------------------------------------
(* The invariant *)

\* It holds in the empty tables.
LEMMA InitInv == Init => Inv
  <1> SUFFICES ASSUME Init PROVE Inv
    OBVIOUS
  <1>1. TypeOK
    BY InitType
  <1>2. RowsOwned /\ \A d \in Documents, u \in Users : ShareOfRow(d, u)
    BY DEF Init, RowsOwned, ShareOfRow, NoDocument
  <1>3. \A r \in Requests : Seen(r)
    BY DEF Init, Seen, At, Idle
  <1>4. QED
    BY <1>1, <1>2, <1>3 DEF Inv

\* Every step keeps it.
LEMMA StepInv == Inv /\ [Next]_accessVars => Inv'
  <1> SUFFICES ASSUME Inv, [Next]_accessVars PROVE Inv'
    OBVIOUS
  <1>1. TypeOK'
    BY StepType
  <1>2. RowsOwned' /\ \A d \in Documents, u \in Users : ShareOfRow(d, u)'
    BY StepRows
  <1>3. ASSUME NEW r \in Requests PROVE Seen(r)'
    <2>1. CASE req'[r] = req[r]
      BY <2>1, SeenStays
    <2>2. CASE Step(r) /\ Next
      BY <2>2, SeenMoves
    <2>3. ASSUME NEW q \in Requests, Step(q), q # r PROVE req'[r] = req[r]
      BY <2>3, OthersStay DEF Inv
    <2>4. QED
      BY <2>1, <2>2, <2>3 DEF Next, Create, VerifyEmail, accessVars
  <1>4. QED
    BY <1>1, <1>2, <1>3 DEF Inv

\* The types, the invariant and the four properties hold of every behaviour.
LEMMA SpecInv == Spec => []Inv
  BY InitInv, StepInv, PTL DEF Spec

\* Every table, request and observation of DocumentAccess keeps its type.
THEOREM TypeCorrectness == Spec => []TypeOK
  <1>1. Inv => TypeOK
    BY DEF Inv
  <1>2. QED
    BY <1>1, SpecInv, PTL

\* No read is served without access at some moment of it, but for shares that
\* were inserted after the deletion (authorizeDoc).
THEOREM ReadsAreEntitled == Spec => []ServedReadsHadAccess
  <1>1. Inv => ServedReadsHadAccess
    BY DEF Inv, Seen, At, ServedReadsHadAccess
  <1>2. QED
    BY <1>1, SpecInv, PTL

\* Whoever had no access during a request is answered 404 (authorizeDoc).
THEOREM ExistenceIsHidden == Spec => []StrangersLearnNothing
  <1>1. Inv => StrangersLearnNothing
    BY DEF Inv, Seen, At, Answered, Codes, StrangersLearnNothing
  <1>2. QED
    BY <1>1, SpecInv, PTL

\* Whoever had access all through a request is not answered 404 (authorizeDoc).
THEOREM AccessIsNeverDenied == Spec => []AccessIsHonoured
  <1>1. Inv => AccessIsHonoured
    BY DEF Inv, Seen, At, AccessIsHonoured
  <1>2. QED
    BY <1>1, SpecInv, PTL

\* Shares are of verified users other than the owner (ShareDocument).
THEOREM SharesAreSound == Spec => []SharesAreOfVerifiedOthers
  <1>1. Inv => SharesAreOfVerifiedOthers
    BY DEF Inv, ShareOfRow, SharesAreOfVerifiedOthers
  <1>2. QED
    BY <1>1, SpecInv, PTL

-----------------------------------------------------------------------------
(* Refinement *)

OwnerOf == [d \in Documents |-> documents[d].owner]
ReadersOf == [d \in Documents |-> {u \in Users : HasAccess(u, d)}]

\* The empty tables are the empty policy.
LEMMA InitPolicy == Init => Policy!Init
  BY DEF Init, Policy!Init, NoDocument, HasAccess

\* Every step is a step of the policy or changes nothing it speaks of.
LEMMA StepPolicy == Inv /\ [Next]_accessVars => [Policy!Next]_(Policy!policyVars)
  <1> SUFFICES ASSUME Inv, [Next]_accessVars
               PROVE  Policy!Next \/ UNCHANGED Policy!policyVars
    OBVIOUS
  <1> USE DEF Inv
  <1>1. CASE UNCHANGED <<documents, shares>>
    BY <1>1 DEF Policy!policyVars, HasAccess, Owns
  <1>2. ASSUME NEW u \in Users, NEW d \in Documents, Create(u, d)
        PROVE  Policy!Next
    <2>1. /\ documents' = [documents EXCEPT ![d] = [state |-> "alive", owner |-> u]]
          /\ shares' = shares
          /\ documents[d] = NoDocument
      BY <1>2 DEF Create
    <2>2. \A x \in Users : <<d, x>> \notin shares
      BY <2>1 DEF ShareOfRow, NoDocument
    <2>3. OwnerOf' = [OwnerOf EXCEPT ![d] = u]
      BY <2>1 DEF OwnerOf, TypeOK
    <2>4. ReadersOf' = [ReadersOf EXCEPT ![d] = {u}]
      BY <2>1, <2>2 DEF ReadersOf, HasAccess, Owns, TypeOK
    <2>5. OwnerOf[d] = Null
      BY <2>1 DEF OwnerOf, NoDocument
    <2>6. Policy!Publish(d, u)
      BY <2>3, <2>4, <2>5 DEF Policy!Publish, OwnerOf, ReadersOf
    <2>7. QED
      BY <2>6 DEF Policy!Next
  <1>3. ASSUME NEW r \in Requests, ShareDocument(r)
        PROVE  Policy!Next \/ UNCHANGED Policy!policyVars
    <2> DEFINE d == req[r].doc
               t == req[r].target
    <2>1. /\ req[r] # Idle /\ At(r, "insert")
          /\ shares' = shares \cup {<<d, t>>}
          /\ documents' = documents
      BY <1>3 DEF ShareDocument, CreateShare, At, Idle
    <2>2. d \in Documents /\ t \in Users
      BY <2>1, RequestFields DEF Seen, At, TypeOK
    <2>3. OwnerOf' = OwnerOf
      BY <2>1 DEF OwnerOf
    <2>4. CASE documents[d].state = "alive"
      <3>1. ReadersOf' = [ReadersOf EXCEPT ![d] = @ \cup {t}]
        <4>1. ASSUME NEW x \in Documents, NEW u \in Users
              PROVE  HasAccess(u, x)' <=> HasAccess(u, x) \/ (x = d /\ u = t)
          BY <2>1, <2>4 DEF HasAccess, Owns
        <4>2. ASSUME NEW x \in Documents
              PROVE  ReadersOf'[x] = IF x = d THEN ReadersOf[x] \cup {t} ELSE ReadersOf[x]
          <5>1. /\ ReadersOf'[x] = {u \in Users : HasAccess(u, x)'}
                /\ ReadersOf[x] = {u \in Users : HasAccess(u, x)}
            BY DEF ReadersOf
          <5>2. QED
            BY <2>2, <4>1, <5>1
        <4>3. QED
          BY <2>2, <4>2 DEF ReadersOf
      <3>2. OwnerOf[d] \in ReadersOf[d]
        <4>1. documents[d].owner \in Users
          BY <2>2, <2>4 DEF RowsOwned
        <4>2. QED
          BY <2>2, <2>4, <4>1 DEF OwnerOf, ReadersOf, HasAccess, Owns
      <3>3. Policy!Grant(d, t)
        BY <2>3, <3>1, <3>2 DEF Policy!Grant, OwnerOf, ReadersOf
      <3>4. QED
        BY <2>2, <3>3 DEF Policy!Next
    <2>5. CASE documents[d].state # "alive"
      <3>1. ReadersOf' = ReadersOf
        BY <2>1, <2>2, <2>5 DEF ReadersOf, HasAccess, Owns
      <3>2. QED
        BY <2>3, <3>1 DEF Policy!policyVars, OwnerOf, ReadersOf
    <2>6. QED
      BY <2>4, <2>5
  <1>4. ASSUME NEW r \in Requests, RevokeShare(r)
        PROVE  Policy!Next \/ UNCHANGED Policy!policyVars
    <2> DEFINE d == req[r].doc
               t == req[r].target
    <2>1. /\ req[r] # Idle
          /\ shares' = shares \ {<<d, t>>}
          /\ documents' = documents
      BY <1>4 DEF RevokeShare, DeleteShare, At, Idle
    <2>2. d \in Documents
      BY <2>1, RequestFields
    <2>3. OwnerOf' = OwnerOf
      BY <2>1 DEF OwnerOf
    <2>4. CASE t \in Users /\ t # OwnerOf[d]
      <3>1. ReadersOf' = [ReadersOf EXCEPT ![d] = @ \ {t}]
        BY <2>1, <2>2, <2>4 DEF ReadersOf, OwnerOf, HasAccess, Owns
      <3>2. Policy!Cut(d, t)
        BY <2>3, <2>4, <3>1 DEF Policy!Cut, OwnerOf, ReadersOf
      <3>3. QED
        BY <2>2, <2>4, <3>2 DEF Policy!Next
    <2>5. CASE ~(t \in Users /\ t # OwnerOf[d])
      <3>1. <<d, t>> \notin shares
        <4>1. t \in Users => t = documents[d].owner
          BY <2>2, <2>5 DEF OwnerOf
        <4>2. t \in Users /\ <<d, t>> \in shares => documents[d].owner # t
          BY <2>2 DEF ShareOfRow, Owns
        <4>3. <<d, t>> \in shares => t \in Users
          BY DEF TypeOK
        <4>4. QED
          BY <4>1, <4>2, <4>3
      <3>2. QED
        BY <1>1, <2>1, <3>1
    <2>6. QED
      BY <2>4, <2>5
  <1>5. ASSUME NEW r \in Requests, Delete(r) PROVE Policy!Next
    <2> DEFINE d == req[r].doc
    <2>1. /\ req[r] # Idle
          /\ documents' = [documents EXCEPT ![d].state = "deleted"]
          /\ shares' = shares
      BY <1>5 DEF Delete, SoftDeleteDocument, At, Idle
    <2>2. d \in Documents
      BY <2>1, RequestFields
    <2>3. OwnerOf' = OwnerOf
      BY <2>1, <2>2 DEF OwnerOf, TypeOK, Document
    <2>4. ReadersOf' = [ReadersOf EXCEPT ![d] = {}]
      BY <2>1, <2>2 DEF ReadersOf, HasAccess, Owns, TypeOK, Document
    <2>5. Policy!Withdraw(d)
      BY <2>3, <2>4 DEF Policy!Withdraw, OwnerOf, ReadersOf
    <2>6. QED
      BY <2>2, <2>5 DEF Policy!Next
  <1>6. QED
    BY <1>1, <1>2, <1>3, <1>4, <1>5
    DEF Next, Step, Begin, ReadDocument, ReadShare, Serve, Edit, ReadTarget, End,
        VerifyEmail, accessVars, tables

\* The tables and their round trips implement the policy: who may read a
\* document changes only by creation, grant, cut and deletion.
THEOREM PolicyIsKept == Spec => KeepsPolicy
  BY InitPolicy, StepPolicy, SpecInv, PTL DEF Spec, KeepsPolicy, Policy!Spec
=============================================================================
