---------------------------- MODULE DocumentAccess ----------------------------
(***************************************************************************)
(* Who may read and write a document: authorizeDoc of internal/app/document *)
(* and the operations behind it.  authorizeDoc makes two round trips, the   *)
(* document row and then the share row, and the operation it admits makes   *)
(* its own later ones: a share may come and go and the document may be      *)
(* deleted in between.                                                      *)
(***************************************************************************)
EXTENDS FiniteSets

CONSTANTS
  Users,      \* verified and unverified rows of web_user
  Documents,  \* rows document can come to hold
  Requests,   \* HTTP requests the server handles at the same time
  Null

ASSUME NullAssumption == Null \notin Users

VARIABLES
  verified,   \* users whose email_verified is set
  documents,  \* [Documents -> Document]
  shares,     \* document_share: pairs <<document, user>>, unique by constraint
  req         \* [Requests -> where the request stands]

VARIABLES     \* history, read by the properties only
  held,       \* [Requests -> had its user access at some moment since it began?]
  kept,       \* [Requests -> had its user access at every moment since then?]
  late        \* shares inserted when their document was already deleted

tables == <<verified, documents, shares>>
accessVars == <<tables, req, held, kept, late>>

-----------------------------------------------------------------------------
(* Rows and queries *)

Document == [state : {"none", "alive", "deleted"}, owner : Users \cup {Null}]

NoDocument == [state |-> "none", owner |-> Null]

\* Mutant: deleted_at is not looked at.
GetAnyDocument(d) == documents[d].state # "none"

\* WHERE deleted_at IS NULL
GetDocument(d) == documents[d].state = "alive"

Owns(u, d) == documents[d].owner = u

GetShare(d, u) == <<d, u>> \in shares

\* INSERT ... ON CONFLICT DO UPDATE; the foreign key also holds on deleted rows.
CreateShare(d, u) ==
  /\ shares' = shares \cup {<<d, u>>}
  /\ late' = IF GetShare(d, u) \/ documents[d].state = "alive"
             THEN late ELSE late \cup {<<d, u>>}

DeleteShare(d, u) == shares' = shares \ {<<d, u>>}

\* Mutant: the row is deleted, not marked.
HardDeleteDocument(d) == documents' = [documents EXCEPT ![d] = NoDocument]

\* By id alone: deleting twice is a success.
SoftDeleteDocument(d) == documents' = [documents EXCEPT ![d].state = "deleted"]

-----------------------------------------------------------------------------
(* Requests *)

Idle == [at |-> "idle"]

\* "read": the document, its pages, images and outputs.  "edit": rename, cover,
\* a new page, a new transcription, a transform.
Operations == {"read", "edit", "share", "revoke", "delete"}
Writes == Operations \ {"read"}
Targets(op) == IF op \in {"share", "revoke"} THEN Users ELSE {Null}

At(r, stage) == req[r].at = stage
Goto(r, stage) == req' = [req EXCEPT ![r].at = stage]
Answer(r, code) == Goto(r, code)

Codes == {"ok", "notFound", "forbidden", "invalid"}

\* The user is the one of the access token, which only verified users are given.
Begin(r, u, op, d, t) ==
  /\ req[r] = Idle
  /\ u \in verified
  /\ req' = [req EXCEPT ![r] = [at |-> "document", op |-> op, user |-> u,
                                doc |-> d, target |-> t]]
  /\ UNCHANGED <<tables, late>>

\* Mutant: the owner is looked up among the sharees.
ReadDocumentShared(r) ==
  LET q == req[r] IN
  /\ At(r, "document")
  /\ \/ ~GetDocument(q.doc) /\ Answer(r, "notFound")
     \/ GetDocument(q.doc) /\ Goto(r, "share")
  /\ UNCHANGED <<tables, late>>

\* The first round trip of authorizeDoc.
ReadDocument(r) ==
  LET q == req[r] IN
  /\ At(r, "document")
  /\ \/ ~GetDocument(q.doc) /\ Answer(r, "notFound")
     \/ GetDocument(q.doc) /\ Owns(q.user, q.doc) /\ Goto(r, "admitted")
     \/ GetDocument(q.doc) /\ ~Owns(q.user, q.doc) /\ Goto(r, "share")
  /\ UNCHANGED <<tables, late>>

\* Mutant: a write is refused alike for sharees and strangers.
Refuse(r) == Answer(r, "forbidden")

\* The second one, for everybody but the owner.
RefuseWrite(r) ==
  Answer(r, IF GetShare(req[r].doc, req[r].user) THEN "forbidden" ELSE "notFound")

ReadShare(r) ==
  LET q == req[r] IN
  /\ At(r, "share")
  /\ \/ q.op = "read" /\ GetShare(q.doc, q.user) /\ Goto(r, "admitted")
     \/ q.op = "read" /\ ~GetShare(q.doc, q.user) /\ Answer(r, "notFound")
     \/ q.op \in Writes /\ RefuseWrite(r)
  /\ UNCHANGED <<tables, late>>

-----------------------------------------------------------------------------
(* The operations behind authorizeDoc *)

\* Mutant: the document belongs to nobody.
CreateUnowned(u, d) ==
  /\ u \in verified
  /\ documents[d] = NoDocument
  /\ documents' = [documents EXCEPT ![d] = [state |-> "alive", owner |-> "user_id"]]
  /\ UNCHANGED <<verified, shares, req, late>>

Create(u, d) ==
  /\ u \in verified
  /\ documents[d] = NoDocument
  /\ documents' = [documents EXCEPT ![d] = [state |-> "alive", owner |-> u]]
  /\ UNCHANGED <<verified, shares, req, late>>

\* Reading and editing leave the tables of this module alone.
Serve(r) ==
  /\ At(r, "admitted") /\ req[r].op = "read"
  /\ Answer(r, "ok")
  /\ UNCHANGED <<tables, late>>

Edit(r) ==
  /\ At(r, "admitted") /\ req[r].op = "edit"
  /\ Answer(r, "ok")
  /\ UNCHANGED <<tables, late>>

\* Mutant: EmailVerified is not looked at.
MayReceiveAnyone(t, owner) == t # owner

MayReceive(t, owner) == t \in verified /\ t # owner

\* GetUserByEmail, between the authorization and the insert.
ReadTarget(r) ==
  LET q == req[r] IN
  /\ At(r, "admitted") /\ q.op = "share"
  /\ IF MayReceive(q.target, documents[q.doc].owner)
     THEN Goto(r, "insert") ELSE Answer(r, "invalid")
  /\ UNCHANGED <<tables, late>>

ShareDocument(r) ==
  /\ At(r, "insert")
  /\ CreateShare(req[r].doc, req[r].target)
  /\ Answer(r, "ok")
  /\ UNCHANGED <<verified, documents>>

RevokeShare(r) ==
  /\ At(r, "admitted") /\ req[r].op = "revoke"
  /\ DeleteShare(req[r].doc, req[r].target)
  /\ Answer(r, "ok")
  /\ UNCHANGED <<verified, documents, late>>

Delete(r) ==
  /\ At(r, "admitted") /\ req[r].op = "delete"
  /\ SoftDeleteDocument(req[r].doc)
  /\ Answer(r, "ok")
  /\ UNCHANGED <<verified, shares, late>>

\* The answer is received, or the request fails or dies on the way.
End(r) ==
  /\ req[r] # Idle
  /\ req' = [req EXCEPT ![r] = Idle]
  /\ UNCHANGED <<tables, late>>

\* The auth service sets email_verified and never clears it.
VerifyEmail(u) ==
  /\ u \notin verified
  /\ verified' = verified \cup {u}
  /\ UNCHANGED <<documents, shares, req, late>>

-----------------------------------------------------------------------------
HasAccess(u, d) ==
  /\ documents[d].state = "alive"
  /\ Owns(u, d) \/ <<d, u>> \in shares

Granted(r) == req[r] # Idle /\ HasAccess(req[r].user, req[r].doc)

\* What each request has seen of the access of its user so far.
Observe ==
  /\ held' = [r \in Requests |->
                req'[r] # Idle /\ (Granted(r)' \/ (req[r] # Idle /\ held[r]))]
  /\ kept' = [r \in Requests |->
                Granted(r)' /\ (req[r] # Idle => kept[r])]

Init == /\ verified \in SUBSET Users
        /\ documents = [d \in Documents |-> NoDocument]
        /\ shares = {}
        /\ req = [r \in Requests |-> Idle]
        /\ held = [r \in Requests |-> FALSE]
        /\ kept = [r \in Requests |-> FALSE]
        /\ late = {}

Step(r) ==
  \/ \E u \in Users, op \in Operations, d \in Documents :
       \E t \in Targets(op) : Begin(r, u, op, d, t)
  \/ ReadDocument(r) \/ ReadShare(r) \/ Serve(r) \/ Edit(r)
  \/ ReadTarget(r) \/ ShareDocument(r) \/ RevokeShare(r) \/ Delete(r) \/ End(r)

Next == /\ \/ \E r \in Requests : Step(r)
           \/ \E u \in Users, d \in Documents : Create(u, d)
           \/ \E u \in Users : VerifyEmail(u)
        /\ Observe

Spec == Init /\ [][Next]_accessVars

-----------------------------------------------------------------------------
(* Properties *)

Request ==
  {Idle} \cup [at : {"document", "share", "admitted", "insert"} \cup Codes,
               op : Operations, user : Users, doc : Documents, target : Users \cup {Null}]

TypeOK ==
  /\ verified \subseteq Users
  /\ documents \in [Documents -> Document]
  /\ shares \subseteq Documents \X Users
  /\ req \in [Requests -> Request]
  /\ held \in [Requests -> BOOLEAN]
  /\ kept \in [Requests -> BOOLEAN]
  /\ late \subseteq Documents \X Users

Answered(r) == req[r].at \in Codes

\* The access a request may have gone by: it had it at some moment since it
\* began, or its share was inserted by a request that raced the deletion.
Entitled(r) == held[r] \/ <<req[r].doc, req[r].user>> \in late

\* A read is served only to a user who had access at some moment of the request,
\* so a share revoked or a document deleted before a request began is of no use
\* to it (README.md:198-201, share_service.go:89-91).
ServedReadsHadAccess ==
  \A r \in Requests : At(r, "ok") /\ req[r].op = "read" => Entitled(r)

\* A user who never had access during a request cannot tell from its answer
\* that the document exists (README.md:199-200).
StrangersLearnNothing ==
  \A r \in Requests : Answered(r) /\ ~Entitled(r) => At(r, "notFound")

\* A user who had access all through a request is not told that the document
\* does not exist, whatever the other requests do meanwhile.
AccessIsHonoured ==
  \A r \in Requests : At(r, "notFound") => ~kept[r]

\* Every share is of another, verified user, although the check and the insert
\* are two round trips (share_service.go:50-54).
SharesAreOfVerifiedOthers ==
  \A d \in Documents, u \in Users :
    <<d, u>> \in shares => u \in verified /\ ~Owns(u, d)

-----------------------------------------------------------------------------
(* Refinement *)

Policy == INSTANCE AccessPolicy
            WITH Docs <- Documents, People <- Users, Nobody <- Null,
                 owner <- [d \in Documents |-> documents[d].owner],
                 readers <- [d \in Documents |-> {u \in Users : HasAccess(u, d)}]

\* However the requests interleave, access changes only as the policy says: no
\* share brings a deleted document back, and a revocation cuts off one reader.
KeepsPolicy == Policy!Spec
=============================================================================
