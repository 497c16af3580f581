------------------------- MODULE DocumentPagesProofs -------------------------
(***************************************************************************)
(* What holds of a document's pages for every number of overlapping        *)
(* requests, whichever of them fail and wherever they stop.                *)
(***************************************************************************)
EXTENDS PageImages, TLAPS

(***************************************************************************)
(* The page number a request uses was read long ago, yet it is right when  *)
(* it matters: a request that got its row in owns the one number after the *)
(* count, nobody else can own one until it is counted, and a request that  *)
(* has not got so far holds a number that is at most that one.             *)
(***************************************************************************)
Writing(r) == req[r].at \in {"truncate", "put", "truncateThumb", "thumb", "insert"}

\* An upload on its way to the insert: its number, and the files behind it.
WriterOK(r) ==
  Writing(r) =>
    /\ req[r].adds
    /\ req[r].page <= pageCount + 1
    /\ req[r].image \in Images
    /\ mode = "text" => At(r, "insert")
    /\ mode = "photo" /\ ~At(r, "truncate") => image[req[r].page] # Null
    /\ mode = "photo" /\ req[r].at \in {"thumb", "insert"} => thumb[req[r].page] # Null

\* An upload whose row is in.
OwnerOK(r) ==
  Owns(r) =>
    /\ req[r].page = pageCount + 1
    /\ At(r, "count") => status[req[r].page] = "done"
    /\ ~At(r, "count") => status[req[r].page] = "processing"
    /\ req[r].at \in {"done", "count"} => latest[req[r].page].status # "pending"

\* Only an upload gets past the transcription, and only a row gets to it.
StageOK(r) ==
  /\ req[r].at \in {"done", "count", "failed"} => req[r].adds
  /\ At(r, "transcribe") => status[req[r].page] # "none"

\* Counted pages are done, and past the next number there is nothing.
PageOK(n) ==
  /\ n <= pageCount => status[n] = "done" /\ latest[n].status # "pending"
  /\ n > pageCount + 1 => status[n] = "none"
  /\ mode = "photo" /\ status[n] # "none" => image[n] # Null /\ thumb[n] # Null
  /\ mode = "text" => image[n] = Null /\ thumb[n] = Null

OneOwner == \A r, q \in Requests : Owns(r) /\ Owns(q) => r = q

Inv == /\ TypeOK
       /\ \A r \in Requests : WriterOK(r) /\ OwnerOK(r) /\ StageOK(r)
       /\ \A n \in Numbers : PageOK(n)
       /\ OneOwner

USE PagesAssumption

-----------------------------------------------------------------------------
(* The initial state, and what every step does to the requests *)

\* A document starts without pages.
LEMMA InitInv == Init => Inv
  BY DEF Init, Inv, TypeOK, WriterOK, OwnerOK, StageOK, PageOK, OneOwner, Owns, Writing,
         At, Idle, NoResult, Result, Numbers, Files

ReqType == {Idle} \cup [at : Stages, page : Numbers, image : Files, adds : BOOLEAN]

\* What is known of a request that has begun.
LEMMA Begun ==
  ASSUME TypeOK, NEW r \in Requests, req[r].at # "idle"
  PROVE  /\ req[r] \in [at : Stages, page : Numbers, image : Files, adds : BOOLEAN]
         /\ req[r].page \in Numbers
         /\ req[r].page \in Nat
  BY DEF TypeOK, Idle, Numbers

\* A request that moves on keeps what it holds; the others stay where they are.
LEMMA MovesOn ==
  ASSUME TypeOK, NEW r \in Requests, req[r].at # "idle", NEW stage \in Stages, Proceed(r, stage)
  PROVE  /\ req' \in [Requests -> ReqType]
         /\ \A q \in Requests : q # r => req'[q] = req[q]
         /\ req'[r].at = stage
         /\ req'[r].page = req[r].page
         /\ req'[r].image = req[r].image
         /\ req'[r].adds = req[r].adds
  BY Begun DEF TypeOK, Proceed, ReqType

LEMMA Ends ==
  ASSUME TypeOK, NEW r \in Requests, Finish(r)
  PROVE  /\ req' \in [Requests -> ReqType]
         /\ \A q \in Requests : q # r => req'[q] = req[q]
         /\ req'[r].at = "idle"
  BY DEF TypeOK, Finish, ReqType, Idle

-----------------------------------------------------------------------------
\* The insert: the uniqueness of page numbers makes the one inserted the next.
LEMMA CreatePageKeepsInv ==
  ASSUME Inv, NEW r \in Requests, CreatePage(r)
  PROVE  Inv'
<1> DEFINE p == req[r].page
<1>1. /\ req[r].at = "insert"
      /\ status[p] = "none"
      /\ UNCHANGED <<mode, pageCount, latest, image, thumb>>
      /\ p \in Numbers /\ p \in Nat
      /\ req[r].image \in Files
  BY Begun DEF Inv, CreatePage, InsertPage, At, Rows
<1>2. /\ req' \in [Requests -> ReqType]
      /\ \A q \in Requests : q # r => req'[q] = req[q]
      /\ req'[r].at = "transcribe"
      /\ req'[r].page = p
      /\ req'[r].adds = req[r].adds
  BY <1>1, MovesOn DEF Inv, CreatePage, InsertPage, Stages
<1>3. /\ pageCount \in Nat
      /\ \A n \in Numbers : status'[n] = IF n = p THEN "processing" ELSE status[n]
  BY <1>1 DEF Inv, TypeOK, CreatePage, InsertPage
<1>4. p = pageCount + 1 /\ req[r].adds
  BY <1>1, <1>3 DEF Inv, WriterOK, Writing, PageOK
<1>5. \A q \in Requests : ~Owns(q)
  BY <1>1, <1>4 DEF Inv, OwnerOK
<1>6. TypeOK'
  BY <1>1, <1>2 DEF Inv, TypeOK, CreatePage, InsertPage, ReqType
<1>7. ASSUME NEW q \in Requests PROVE (WriterOK(q) /\ OwnerOK(q) /\ StageOK(q))'
  <2>1. CASE q = r
    BY <2>1, <1>1, <1>2, <1>3, <1>4 DEF WriterOK, OwnerOK, StageOK, Writing, Owns, At
  <2>2. CASE q # r
    <3>1. req'[q] = req[q] /\ ~Owns(q)
      BY <2>2, <1>2, <1>5
    <3>2. At(q, "transcribe") => req[q].page \in Numbers
      BY Begun DEF Inv, At
    <3> QED  BY <3>1, <3>2, <1>1, <1>3 DEF Inv, WriterOK, OwnerOK, StageOK, Writing, Owns, At
  <2> QED  BY <2>1, <2>2
<1>8. ASSUME NEW n \in Numbers PROVE PageOK(n)'
  <2>1. mode = "photo" => image[p] # Null /\ thumb[p] # Null
    BY <1>1 DEF Inv, WriterOK, Writing, At
  <2>2. n \in Nat /\ PageOK(n)
    BY DEF Inv, Numbers
  <2> QED  BY <1>1, <1>3, <1>4, <2>1, <2>2 DEF PageOK
<1>9. OneOwner'
  BY <1>2, <1>5 DEF OneOwner, Owns
<1> QED  BY <1>6, <1>7, <1>8, <1>9 DEF Inv

\* A step that leaves the rows alone, removes no file and ends outside the
\* stages of an owner.
LEMMA QuietStepKeepsInv ==
  ASSUME Inv, TypeOK', NEW r \in Requests,
         \A q \in Requests : q # r => req'[q] = req[q],
         UNCHANGED <<mode, pageCount, status, latest>>,
         \A n \in Numbers : /\ image[n] # Null => image'[n] # Null
                            /\ thumb[n] # Null => thumb'[n] # Null,
         mode = "text" => UNCHANGED <<image, thumb>>,
         WriterOK(r)', StageOK(r)', ~Owns(r)'
  PROVE  Inv'
<1>1. ASSUME NEW q \in Requests PROVE (WriterOK(q) /\ OwnerOK(q) /\ StageOK(q))'
  <2>1. CASE q = r
    BY <2>1 DEF OwnerOK
  <2>2. CASE q # r
    <3>1. req'[q] = req[q]
      BY <2>2
    <3>2. req[q].at # "idle" => req[q].page \in Numbers
      BY Begun DEF Inv
    <3> QED  BY <3>1, <3>2 DEF Inv, WriterOK, OwnerOK, StageOK, Writing, Owns, At
  <2> QED  BY <2>1, <2>2
<1>2. ASSUME NEW n \in Numbers PROVE PageOK(n)'
  BY DEF Inv, PageOK
<1>3. OneOwner'
  BY DEF Inv, OneOwner, Owns
<1> QED  BY <1>1, <1>2, <1>3 DEF Inv

\* A step of a transcription: only the owner of a row writes the row's status,
\* and a stored result is never unstored.
LEMMA RowStepKeepsInv ==
  ASSUME Inv, TypeOK', NEW r \in Requests, req[r].page \in Numbers,
         \A q \in Requests : q # r => req'[q] = req[q],
         UNCHANGED <<mode, pageCount, image, thumb>>,
         \A n \in Numbers :
           status'[n] = status[n] \/ (n = req[r].page /\ Owns(r) /\ status'[n] # "none"),
         \A n \in Numbers : latest[n].status # "pending" => latest'[n].status # "pending",
         OwnerOK(r)', StageOK(r)', ~Writing(r)', Owns(r)' => Owns(r)
  PROVE  Inv'
<1>1. /\ pageCount \in Nat
      /\ OwnerOK(r)
      /\ \A q \in Requests : Owns(r) /\ Owns(q) => q = r
  BY DEF Inv, TypeOK, OneOwner
<1>2. ASSUME NEW q \in Requests PROVE (WriterOK(q) /\ OwnerOK(q) /\ StageOK(q))'
  <2>1. CASE q = r
    BY <2>1 DEF WriterOK
  <2>2. CASE q # r
    <3>1. req'[q] = req[q] /\ (Owns(r) => ~Owns(q))
      BY <2>2, <1>1
    <3>2. req[q].at # "idle" => req[q].page \in Numbers
      BY Begun DEF Inv
    <3>3. WriterOK(q) /\ OwnerOK(q) /\ StageOK(q)
      BY DEF Inv
    <3>4. WriterOK(q)'
      BY <3>1, <3>3 DEF WriterOK, Writing, At
    <3>5. OwnerOK(q)'
      <4>1. ASSUME Owns(q) PROVE status'[req[q].page] = status[req[q].page]
        BY <4>1, <3>1, <3>2 DEF Owns
      <4> QED  BY <3>1, <3>2, <3>3, <4>1 DEF OwnerOK, Owns, At
    <3>6. StageOK(q)'
      BY <3>1, <3>2, <3>3 DEF StageOK, At
    <3> QED  BY <3>4, <3>5, <3>6
  <2> QED  BY <2>1, <2>2
<1>3. ASSUME NEW n \in Numbers PROVE PageOK(n)'
  <2>1. n \in Nat /\ PageOK(n)
    BY DEF Inv, Numbers
  <2>2. CASE status'[n] = status[n]
    BY <2>1, <2>2 DEF PageOK
  <2>3. CASE n = req[r].page /\ Owns(r)
    <3>1. n = pageCount + 1 /\ status[n] # "none"
      BY <2>3, <1>1 DEF OwnerOK, At
    <3> QED  BY <2>1, <3>1, <1>1 DEF PageOK
  <2> QED  BY <2>2, <2>3
<1>4. OneOwner'
  BY DEF Inv, OneOwner, Owns
<1> QED  BY <1>2, <1>3, <1>4 DEF Inv

-----------------------------------------------------------------------------
(* The steps of a request, one by one *)

\* Writing a file replaces it or creates it.
LEMMA FileStepKeepsInv ==
  ASSUME Inv, NEW r \in Requests,
         TruncateImage(r) \/ PutImage(r) \/ TruncateThumbnail(r) \/ PutThumbnail(r)
  PROVE  Inv'
<1> DEFINE p == req[r].page
<1>1. /\ req[r].at \in {"truncate", "put", "truncateThumb", "thumb"}
      /\ p \in Numbers
      /\ UNCHANGED <<mode, pageCount, status, latest, shot>>
  BY Begun DEF Inv, TruncateImage, PutImage, TruncateThumbnail, PutThumbnail, At
<1>2. /\ WriterOK(r) /\ mode = "photo" /\ req[r].adds
      /\ req[r].image \in Images
  BY <1>1 DEF Inv, TypeOK, WriterOK, Writing, At
<1>3. PICK stage \in {"put", "truncateThumb", "thumb", "insert"} : Proceed(r, stage)
  BY DEF TruncateImage, PutImage, TruncateThumbnail, PutThumbnail
<1>4. /\ req' \in [Requests -> ReqType]
      /\ \A q \in Requests : q # r => req'[q] = req[q]
      /\ req'[r].at = stage
      /\ req'[r].page = p
      /\ req'[r].image = req[r].image
      /\ req'[r].adds = req[r].adds
  BY <1>1, <1>3, MovesOn DEF Inv, Stages
<1>5. TypeOK'
  BY <1>1, <1>2, <1>4 DEF Inv, TypeOK, ReqType, Files,
                          TruncateImage, PutImage, TruncateThumbnail, PutThumbnail
<1>6. /\ \A n \in Numbers : /\ image[n] # Null => image'[n] # Null
                            /\ thumb[n] # Null => thumb'[n] # Null
      /\ image'[p] # Null
      /\ stage \in {"thumb", "insert"} => thumb'[p] # Null
  <2>1. image \in [Numbers -> Files] /\ thumb \in [Numbers -> Files]
    BY DEF Inv, TypeOK
  <2>2. req[r].image # Null /\ (req[r].at # "truncate" => image[p] # Null)
    BY <1>1, <1>2 DEF WriterOK, Writing, At
  <2>3. CASE TruncateImage(r)
    BY <2>1, <2>3, <1>1, <1>4 DEF TruncateImage, Proceed
  <2>4. CASE PutImage(r)
    BY <2>1, <2>2, <2>4, <1>1, <1>4 DEF PutImage, Proceed
  <2>5. CASE TruncateThumbnail(r)
    BY <2>1, <2>2, <2>5, <1>1, <1>4 DEF TruncateThumbnail, At
  <2>6. CASE PutThumbnail(r)
    BY <2>1, <2>2, <2>6, <1>1, <1>4 DEF PutThumbnail, At
  <2> QED  BY <2>3, <2>4, <2>5, <2>6
<1>7. WriterOK(r)' /\ StageOK(r)' /\ ~Owns(r)'
  BY <1>1, <1>2, <1>4, <1>6 DEF WriterOK, StageOK, Owns, Writing, At
<1>8. UNCHANGED <<mode, pageCount, status, latest>> /\ mode # "text"
  BY <1>1, <1>2
<1> QED  BY <1>4, <1>5, <1>6, <1>7, <1>8, QuietStepKeepsInv

\* An upload begins with the number after the count.
LEMMA AddReadKeepsInv ==
  ASSUME Inv, NEW r \in Requests, NEW i \in Images, AddRead(r, i)
  PROVE  Inv'
<1>1. /\ pageCount + 1 \in Numbers
      /\ mode \in {"photo", "text"}
  BY DEF Inv, TypeOK, AddRead, Numbers
<1>2. /\ \A q \in Requests : q # r => req'[q] = req[q]
      /\ req'[r] = Upload(IF mode = "photo" THEN "truncate" ELSE "insert", pageCount + 1, i)
      /\ req' \in [Requests -> ReqType]
      /\ UNCHANGED store
  BY <1>1 DEF Inv, TypeOK, AddRead, ReqType, Upload, Stages, Files
<1>3. TypeOK'
  BY <1>2 DEF Inv, TypeOK, ReqType, store
<1>4. WriterOK(r)' /\ StageOK(r)' /\ ~Owns(r)'
  <2>1. /\ req'[r].at \in {"truncate", "insert"}
        /\ req'[r].page = pageCount + 1
        /\ req'[r].image = i
        /\ req'[r].adds
        /\ mode = "photo" <=> req'[r].at = "truncate"
    BY <1>1, <1>2 DEF Upload
  <2>2. mode' = mode /\ pageCount' = pageCount /\ pageCount \in Nat
    BY <1>2 DEF store, Inv, TypeOK
  <2> QED  BY <1>1, <2>1, <2>2 DEF WriterOK, StageOK, Owns, Writing, At
<1> QED  BY <1>2, <1>3, <1>4, QuietStepKeepsInv DEF store

\* A rerun begins with the image of a row, and owns nothing.
LEMMA RerunReadKeepsInv ==
  ASSUME Inv, NEW r \in Requests, NEW n \in Numbers, RerunRead(r, n)
  PROVE  Inv'
<1>1. image[n] \in Files /\ status[n] # "none"
  BY DEF Inv, TypeOK, RerunRead, Rows
<1>2. /\ \A q \in Requests : q # r => req'[q] = req[q]
      /\ req'[r] = [at |-> "transcribe", page |-> n, image |-> image[n], adds |-> FALSE]
      /\ req' \in [Requests -> ReqType]
      /\ UNCHANGED store
  BY <1>1 DEF Inv, TypeOK, RerunRead, ReqType, Stages
<1>3. TypeOK'
  BY <1>2 DEF Inv, TypeOK, ReqType, store
<1>4. WriterOK(r)' /\ StageOK(r)' /\ ~Owns(r)'
  BY <1>1, <1>2 DEF WriterOK, StageOK, Owns, Writing, At, store
<1> QED  BY <1>2, <1>3, <1>4, QuietStepKeepsInv DEF store

\* A request that ends without a further write leaves everything in order.
LEMMA EndKeepsInv ==
  ASSUME Inv, NEW r \in Requests, Finish(r), UNCHANGED store
  PROVE  Inv'
<1>1. /\ req' \in [Requests -> ReqType]
      /\ \A q \in Requests : q # r => req'[q] = req[q]
      /\ req'[r].at = "idle"
  BY Ends DEF Inv
<1>2. TypeOK'
  BY <1>1 DEF Inv, TypeOK, ReqType, store
<1>3. WriterOK(r)' /\ StageOK(r)' /\ ~Owns(r)'
  BY <1>1 DEF WriterOK, StageOK, Owns, Writing, At
<1> QED  BY <1>1, <1>2, <1>3, QuietStepKeepsInv DEF store

\* The row of an upload is done, or has failed.
LEMMA MarkKeepsInv ==
  ASSUME Inv, NEW r \in Requests, MarkDone(r) \/ MarkFailed(r)
  PROVE  Inv'
<1> DEFINE p == req[r].page
<1>1. /\ req[r].at \in {"done", "failed"}
      /\ p \in Numbers
      /\ UNCHANGED <<mode, pageCount, image, thumb, latest, shot>>
  BY Begun DEF Inv, MarkDone, MarkFailed, SetPageStatus, At
<1>2. Owns(r) /\ OwnerOK(r)
  BY <1>1 DEF Inv, StageOK, Owns
<1>3. /\ req' \in [Requests -> ReqType]
      /\ \A q \in Requests : q # r => req'[q] = req[q]
      /\ req'[r].at = "count" => /\ req'[r].page = p
                                /\ req'[r].adds = req[r].adds
                                /\ req[r].at = "done"
                                /\ status'[p] = "done"
      /\ req'[r].at \in {"count", "idle"}
  <2>1. CASE MarkDone(r)
    BY <2>1, <1>1, MovesOn DEF Inv, TypeOK, MarkDone, SetPageStatus, Stages, At
  <2>2. CASE MarkFailed(r)
    BY <2>2, Ends DEF Inv, MarkFailed, SetPageStatus
  <2> QED  BY <2>1, <2>2
<1>4. \A n \in Numbers : status'[n] = status[n] \/ (n = p /\ status'[n] # "none")
  <2>1. status \in [Numbers -> {"none", "processing", "done", "failed"}]
    BY DEF Inv, TypeOK
  <2>2. PICK s \in {"done", "failed"} : status' = [status EXCEPT ![p] = s]
    BY DEF MarkDone, MarkFailed, SetPageStatus
  <2>3. \A n \in Numbers : status'[n] = IF n = p THEN s ELSE status[n]
    BY <2>1, <2>2
  <2> QED  BY <2>2, <2>3
<1>5. TypeOK'
  BY <1>1, <1>3 DEF Inv, TypeOK, ReqType, MarkDone, MarkFailed, SetPageStatus
<1>6. OwnerOK(r)' /\ StageOK(r)' /\ ~Writing(r)'
  BY <1>1, <1>2, <1>3 DEF OwnerOK, StageOK, Owns, Writing, At
<1> QED  BY <1>1, <1>2, <1>3, <1>4, <1>5, <1>6, RowStepKeepsInv

\* A transcription, of an upload or of a rerun, ends one way or the other.
LEMMA TranscriptionKeepsInv ==
  ASSUME Inv, NEW r \in Requests, Transcribed(r) \/ TranscriptionFails(r)
  PROVE  Inv'
<1> DEFINE p == req[r].page
<1>1. /\ req[r].at = "transcribe"
      /\ p \in Numbers /\ req[r].image \in Files
      /\ UNCHANGED <<mode, pageCount, status, image, thumb, shot>>
      /\ OwnerOK(r)
  BY Begun DEF Inv, Transcribed, TranscriptionFails, CreateOCRResult, At
<1>2. /\ req' \in [Requests -> ReqType]
      /\ \A q \in Requests : q # r => req'[q] = req[q]
      /\ req'[r].at \in {"done", "failed", "idle"}
      /\ req'[r].at \in {"done", "failed"} =>
           /\ req[r].adds
           /\ req'[r].page = p
           /\ req'[r].adds = req[r].adds
      /\ req'[r].at = "done" => Transcribed(r)
  <2>1. CASE Transcribed(r)
    <3>1. (Proceed(r, "done") /\ req[r].adds) \/ Finish(r)
      BY <2>1 DEF Transcribed, CreateOCRResult
    <3> QED  BY <2>1, <3>1, <1>1, MovesOn, Ends DEF Inv, Stages
  <2>2. CASE TranscriptionFails(r)
    <3>1. (Proceed(r, "failed") /\ req[r].adds) \/ Finish(r)
      BY <2>2 DEF TranscriptionFails, CreateOCRResult
    <3> QED  BY <2>2, <3>1, <1>1, MovesOn, Ends DEF Inv, Stages
  <2> QED  BY <2>1, <2>2
<1>3. /\ latest' \in [Numbers -> Result]
      /\ \A n \in Numbers : latest[n].status # "pending" => latest'[n].status # "pending"
      /\ Transcribed(r) => latest'[p].status # "pending"
  <2>1. CASE Transcribed(r)
    BY <2>1, <1>1 DEF Inv, TypeOK, Transcribed, CreateOCRResult, Result
  <2>2. CASE TranscriptionFails(r) /\ ~Transcribed(r)
    <3>1. latest \in [Numbers -> Result]
      BY DEF Inv, TypeOK
    <3>2. [status |-> "failed", of |-> Null] \in Result
      BY DEF Result, Files
    <3> QED  BY <2>2, <3>1, <3>2, <1>1 DEF TranscriptionFails, CreateOCRResult
  <2> QED  BY <2>1, <2>2
<1>4. TypeOK'
  BY <1>1, <1>2, <1>3 DEF Inv, TypeOK, ReqType
<1>5. Owns(r)' => Owns(r)
  BY <1>1, <1>2 DEF Owns
<1>6. OwnerOK(r)' /\ StageOK(r)' /\ ~Writing(r)'
  BY <1>1, <1>2, <1>3 DEF OwnerOK, StageOK, Owns, Writing, At
<1>7. /\ UNCHANGED <<mode, pageCount, image, thumb>>
      /\ \A n \in Numbers :
           status'[n] = status[n] \/ (n = req[r].page /\ Owns(r) /\ status'[n] # "none")
  BY <1>1
<1>8. \A q \in Requests : q # r => req'[q] = req[q]
  BY <1>2
<1>9. \A n \in Numbers : latest[n].status # "pending" => latest'[n].status # "pending"
  BY <1>3
<1>10. req[r].page \in Numbers
  BY <1>1
<1> QED  BY <1>4, <1>5, <1>6, <1>7, <1>8, <1>9, <1>10, RowStepKeepsInv

\* Counting moves the next number on: the one owner is done with it.
LEMMA CountKeepsInv ==
  ASSUME Inv, NEW r \in Requests, IncrementDocumentPageCount(r)
  PROVE  Inv'
<1> DEFINE p == req[r].page
<1>1. /\ req[r].at = "count"
      /\ p \in Numbers /\ p \in Nat
      /\ pageCount \in Nat
      /\ pageCount' = pageCount + 1
      /\ UNCHANGED <<mode, status, latest, image, thumb, shot>>
  BY Begun DEF Inv, TypeOK, IncrementDocumentPageCount, At
<1>2. /\ Owns(r)
      /\ p = pageCount + 1
      /\ status[p] = "done" /\ latest[p].status # "pending"
  BY <1>1 DEF Inv, StageOK, OwnerOK, Owns, At
<1>3. /\ req' \in [Requests -> ReqType]
      /\ \A q \in Requests : q # r => req'[q] = req[q]
      /\ req'[r].at = "idle"
  BY Ends DEF Inv, IncrementDocumentPageCount
<1>4. TypeOK'
  BY <1>1, <1>2, <1>3 DEF Inv, TypeOK, ReqType, Numbers
<1>5. ASSUME NEW q \in Requests PROVE (WriterOK(q) /\ OwnerOK(q) /\ StageOK(q))'
  <2>1. CASE q = r
    BY <2>1, <1>3 DEF WriterOK, OwnerOK, StageOK, Writing, Owns, At
  <2>2. CASE q # r
    <3>1. req'[q] = req[q] /\ ~Owns(q)
      BY <2>2, <1>2, <1>3 DEF Inv, OneOwner
    <3>2. req[q].at # "idle" => req[q].page \in Nat
      BY Begun DEF Inv
    <3> QED  BY <3>1, <3>2, <1>1 DEF Inv, WriterOK, OwnerOK, StageOK, Writing, Owns, At
  <2> QED  BY <2>1, <2>2
<1>6. ASSUME NEW n \in Numbers PROVE PageOK(n)'
  <2>1. n \in Nat /\ PageOK(n)
    BY DEF Inv, Numbers
  <2> QED  BY <2>1, <1>1, <1>2 DEF PageOK
<1>7. OneOwner'
  BY <1>3 DEF Inv, OneOwner, Owns
<1> QED  BY <1>4, <1>5, <1>6, <1>7 DEF Inv

-----------------------------------------------------------------------------
(* The invariant, and what follows from it *)

LEMMA StepKeepsInv == Inv /\ [Next]_pageVars => Inv'
<1> SUFFICES ASSUME Inv, [Next]_pageVars PROVE Inv'
  OBVIOUS
<1>1. ASSUME NEW r \in Requests, Work(r) PROVE Inv'
  <2>1. CASE \E i \in Images : AddRead(r, i)
    BY <2>1, AddReadKeepsInv
  <2>2. CASE TruncateImage(r) \/ PutImage(r) \/ TruncateThumbnail(r) \/ PutThumbnail(r)
    BY <2>2, FileStepKeepsInv
  <2>3. CASE CreatePage(r)
    BY <2>3, CreatePageKeepsInv
  <2>4. CASE CreatePageConflict(r)
    BY <2>4, EndKeepsInv DEF CreatePageConflict
  <2>5. CASE MarkDone(r)
    BY <2>5, MarkKeepsInv
  <2>6. CASE IncrementDocumentPageCount(r)
    BY <2>6, CountKeepsInv
  <2>7. CASE \E n \in Numbers : RerunRead(r, n)
    BY <2>7, RerunReadKeepsInv
  <2>8. CASE Transcribed(r)
    BY <2>8, TranscriptionKeepsInv
  <2> QED  BY <1>1, <2>1, <2>2, <2>3, <2>4, <2>5, <2>6, <2>7, <2>8 DEF Work
<1>2. ASSUME NEW r \in Requests, Trouble(r) PROVE Inv'
  <2>1. CASE TranscriptionFails(r)
    BY <2>1, TranscriptionKeepsInv
  <2>2. CASE MarkFailed(r)
    BY <2>2, MarkKeepsInv
  <2>3. CASE Abort(r)
    BY <2>3, EndKeepsInv DEF Abort
  <2> QED  BY <1>2, <2>1, <2>2, <2>3 DEF Trouble
<1>3. CASE UNCHANGED pageVars
  BY <1>3 DEF Inv, TypeOK, WriterOK, OwnerOK, StageOK, PageOK, OneOwner, Owns, Writing, At,
              pageVars, store
<1> QED  BY <1>1, <1>2, <1>3 DEF Next

\* What the invariant says of the rows as a set.
LEMMA RowsAreCounted == Inv => NumbersHaveNoGap
<1> SUFFICES ASSUME Inv PROVE NumbersHaveNoGap
  OBVIOUS
<1>1. pageCount \in Nat /\ pageCount <= PageLimit /\ PageLimit \in Nat
  BY DEF Inv, TypeOK
<1>2. \A n \in Numbers : /\ n \in Nat
                         /\ n <= pageCount => n \in Rows
                         /\ n \in Rows => n <= pageCount + 1
  BY <1>1 DEF Inv, PageOK, Rows, Numbers
<1>3. CASE pageCount + 1 \in Rows
  <2>1. Rows = 1 .. pageCount + 1
    BY <1>1, <1>2, <1>3 DEF Rows, Numbers
  <2> QED  BY <2>1 DEF NumbersHaveNoGap
<1>4. CASE pageCount + 1 \notin Rows
  <2>1. Rows = 1 .. pageCount
    BY <1>1, <1>2, <1>4 DEF Rows, Numbers
  <2> QED  BY <2>1 DEF NumbersHaveNoGap
<1> QED  BY <1>3, <1>4

\* What is proved below holds in every state.
LEMMA Invariance == Spec => []Inv
<1> QED  BY InitInv, StepKeepsInv, PTL DEF Spec

\* Every state of the tables, the files and the requests has its type.
THEOREM TypeCorrectness == Spec => []TypeOK
<1>1. Inv => TypeOK
  BY DEF Inv
<1> QED  BY Invariance, <1>1, PTL

\* However many uploads read the same page count, fail or stop half way, the
\* rows are the counted pages and at most the one after them.
THEOREM PageNumbersHaveNoGap == Spec => []NumbersHaveNoGap
<1> QED  BY Invariance, RowsAreCounted, PTL

\* page_count never counts a page that is not done and transcribed.
THEOREM PageCountIsOfDonePages == Spec => []CountedPagesAreDone
<1>1. Inv => CountedPagesAreDone
  BY DEF Inv, TypeOK, PageOK, CountedPagesAreDone, Numbers
<1> QED  BY Invariance, <1>1, PTL

\* A photo page never lacks its files, and a text page never has one.
THEOREM FilesMatchTheMode == Spec => []RowsHaveFiles
<1>1. Inv => RowsHaveFiles
  BY DEF Inv, TypeOK, PageOK, RowsHaveFiles, Rows
<1> QED  BY Invariance, <1>1, PTL

-----------------------------------------------------------------------------
(* The refinement.  The invariant makes the owner unique and gives its page *)
(* the number the numbering expects.                                        *)

AbstractPages == [n \in Rows |-> shot[n]]

LEMMA OwnerIsTheOne ==
  ASSUME OneOwner, NEW r \in Requests, Owns(r)
  PROVE  Owner = r
  BY DEF Owner, OneOwner

LEMMA OwnerIsTheOneNext ==
  ASSUME OneOwner', NEW r \in Requests, Owns(r)'
  PROVE  Owner' = r
  BY DEF Owner, OneOwner

LEMMA NobodyOwns ==
  ASSUME \A r \in Requests : ~Owns(r)
  PROVE  Owner = Null
  BY DEF Owner

LEMMA NobodyOwnsNext ==
  ASSUME \A r \in Requests : ~Owns(r)'
  PROVE  Owner' = Null
  BY DEF Owner

\* A step that leaves rows, count and owners alone is no step of the numbering.
LEMMA OwnersStay ==
  ASSUME Inv, Inv', \A r \in Requests : Owns(r)' <=> Owns(r)
  PROVE  Owner' = Owner
<1>1. CASE \E r \in Requests : Owns(r)
  <2>1. PICK r \in Requests : Owns(r)
    BY <1>1
  <2>2. Owns(r)'
    BY <2>1
  <2> QED  BY <2>1, <2>2, OwnerIsTheOne, OwnerIsTheOneNext DEF Inv
<1>2. CASE \A r \in Requests : ~Owns(r)
  <2>1. \A r \in Requests : ~Owns(r)'
    BY <1>2
  <2> QED  BY <1>2, <2>1, NobodyOwns, NobodyOwnsNext
<1> QED  BY <1>1, <1>2

LEMMA RowsStay ==
  ASSUME UNCHANGED shot, \A n \in Numbers : status'[n] = "none" <=> status[n] = "none"
  PROVE  AbstractPages' = AbstractPages
<1>1. Rows' = Rows
  BY DEF Rows
<1> QED  BY <1>1 DEF AbstractPages

\* The requests other than r keep what they own.
LEMMA OthersKeep ==
  ASSUME NEW r \in Requests, \A q \in Requests : q # r => req'[q] = req[q]
  PROVE  \A q \in Requests : q # r => (Owns(q)' <=> Owns(q))
  BY DEF Owns

LEMMA CreatePageInserts ==
  ASSUME Inv, Inv', NEW r \in Requests, CreatePage(r)
  PROVE  \E i \in Images : Promise!Insert(r, i)
<1> DEFINE p == req[r].page
<1>1. /\ req[r].at = "insert"
      /\ status[p] = "none"
      /\ UNCHANGED pageCount
      /\ p \in Numbers /\ p \in Nat
  BY Begun DEF Inv, CreatePage, InsertPage, At, Rows
<1>2. /\ p = pageCount + 1 /\ req[r].adds /\ req[r].image \in Images
      /\ pageCount \in Nat /\ pageCount < PageLimit
  <2>1. WriterOK(r) /\ PageOK(p) /\ pageCount \in Nat
    BY <1>1 DEF Inv, TypeOK
  <2>2. p <= pageCount + 1 /\ req[r].adds /\ req[r].image \in Images
    BY <1>1, <2>1 DEF WriterOK, Writing
  <2>3. ~(p <= pageCount)
    BY <1>1, <2>1 DEF PageOK
  <2> QED  BY <1>1, <2>1, <2>2, <2>3 DEF Numbers
<1>3. /\ \A q \in Requests : q # r => req'[q] = req[q]
      /\ req'[r].at = "transcribe" /\ req'[r].adds
  BY <1>1, <1>2, MovesOn DEF Inv, CreatePage, InsertPage, Stages
<1>4. Owner' = r
  <2>1. Owns(r)'
    BY <1>3 DEF Owns
  <2> QED  BY <2>1, OwnerIsTheOneNext DEF Inv
<1>5. Rows = 1 .. pageCount
  <2>1. \A n \in Numbers : n \in Rows <=> n <= pageCount
    BY <1>1, <1>2 DEF Inv, PageOK, Rows, Numbers
  <2> QED  BY <2>1, <1>2 DEF Rows, Numbers
<1>6. Rows' = 1 .. pageCount + 1
  <2>1. \A n \in Numbers : status'[n] = IF n = p THEN "processing" ELSE status[n]
    BY DEF Inv, TypeOK, CreatePage, InsertPage
  <2>2. Rows' = Rows \cup {p}
    BY <2>1, <1>1 DEF Rows
  <2> QED  BY <2>2, <1>2, <1>5
<1>7. \A n \in Numbers : shot'[n] = IF n = p THEN req[r].image ELSE shot[n]
  BY DEF Inv, TypeOK, CreatePage, InsertPage
<1>8. [n \in Rows |-> shot[n]]'
        = [n \in 1 .. (pageCount + 1) |->
             IF n \in 1 .. pageCount THEN [m \in Rows |-> shot[m]][n] ELSE req[r].image]
  <2>1. Rows' \subseteq Numbers
    BY DEF Rows
  <2> QED  BY <2>1, <1>2, <1>5, <1>6, <1>7
<1>9. DOMAIN [n \in Rows |-> shot[n]] = 1 .. pageCount
  BY <1>5
<1> QED  BY <1>1, <1>2, <1>4, <1>8, <1>9 DEF Promise!Insert

LEMMA IncrementCounts ==
  ASSUME Inv, Inv', NEW r \in Requests, IncrementDocumentPageCount(r)
  PROVE  Promise!Count(r)
<1>1. /\ req[r].at = "count" /\ req[r].at # "idle"
      /\ pageCount' = pageCount + 1
      /\ UNCHANGED <<status, shot>>
  BY DEF IncrementDocumentPageCount, At
<1>2. Owns(r)
  BY <1>1 DEF Inv, StageOK, Owns
<1>3. \A q \in Requests : ~Owns(q)'
  <2>1. /\ \A q \in Requests : q # r => req'[q] = req[q]
        /\ req'[r].at = "idle"
    BY Ends DEF Inv, IncrementDocumentPageCount
  <2>2. \A q \in Requests : q # r => ~Owns(q)
    BY <1>2 DEF Inv, OneOwner
  <2> QED  BY <2>1, <2>2 DEF Owns
<1>4. Owner = r /\ Owner' = Null
  BY <1>2, <1>3, OwnerIsTheOne, NobodyOwnsNext DEF Inv
<1>5. AbstractPages' = AbstractPages
  BY <1>1, RowsStay
<1> QED  BY <1>1, <1>4, <1>5 DEF Promise!Count, AbstractPages

\* An upload that ends otherwise gives its page up, if it had one.
LEMMA EndLosesOrNothing ==
  ASSUME Inv, Inv', NEW r \in Requests, Finish(r), req[r].at # "idle",
         UNCHANGED <<pageCount, shot>>,
         \A n \in Numbers : status'[n] = "none" <=> status[n] = "none"
  PROVE  Promise!Lose(r) \/ UNCHANGED Promise!numberingVars
<1>1. /\ \A q \in Requests : q # r => req'[q] = req[q]
      /\ req'[r].at = "idle"
  BY Ends DEF Inv
<1>2. AbstractPages' = AbstractPages
  BY RowsStay
<1>3. CASE Owns(r)
  <2>1. \A q \in Requests : ~Owns(q)'
    <3>1. \A q \in Requests : q # r => ~Owns(q)
      BY <1>3 DEF Inv, OneOwner
    <3> QED  BY <3>1, <1>1 DEF Owns
  <2>2. Owner = r /\ Owner' = Null
    BY <1>3, <2>1, OwnerIsTheOne, NobodyOwnsNext DEF Inv
  <2> QED  BY <2>2, <1>2 DEF Promise!Lose, AbstractPages
<1>4. CASE ~Owns(r)
  <2>1. \A q \in Requests : Owns(q)' <=> Owns(q)
    BY <1>1, <1>4, OthersKeep DEF Owns
  <2>2. Owner' = Owner
    BY <2>1, OwnersStay
  <2> QED  BY <2>2, <1>2 DEF Promise!numberingVars, AbstractPages
<1> QED  BY <1>3, <1>4

\* A request that goes on and owns what it owned is not seen.
LEMMA QuietStepStutters ==
  ASSUME Inv, Inv', NEW r \in Requests, UNCHANGED <<pageCount, shot>>,
         \A n \in Numbers : status'[n] = "none" <=> status[n] = "none",
         \A q \in Requests : q # r => req'[q] = req[q],
         Owns(r)' <=> Owns(r)
  PROVE  UNCHANGED Promise!numberingVars
<1>1. \A q \in Requests : Owns(q)' <=> Owns(q)
  BY OthersKeep
<1>2. Owner' = Owner
  BY <1>1, OwnersStay
<1>3. AbstractPages' = AbstractPages
  BY RowsStay
<1> QED  BY <1>2, <1>3 DEF Promise!numberingVars, AbstractPages

LEMMA WorkRefines ==
  ASSUME Inv, Inv', NEW r \in Requests, Work(r)
  PROVE  Promise!Step(r) \/ UNCHANGED Promise!numberingVars
<1>1. CASE \E i \in Images : AddRead(r, i)
  <2>1. PICK i \in Images : AddRead(r, i)
    BY <1>1
  <2>2. /\ \A q \in Requests : q # r => req'[q] = req[q]
        /\ req[r].at = "idle" /\ req'[r].at \in {"truncate", "insert"}
        /\ UNCHANGED <<pageCount, shot, status>>
    BY <2>1 DEF Inv, TypeOK, AddRead, At, Upload, store
  <2> QED  BY <2>2, QuietStepStutters DEF Owns
<1>2. CASE TruncateImage(r) \/ PutImage(r) \/ TruncateThumbnail(r) \/ PutThumbnail(r)
  <2>1. PICK stage \in {"put", "truncateThumb", "thumb", "insert"} : Proceed(r, stage)
    BY <1>2 DEF TruncateImage, PutImage, TruncateThumbnail, PutThumbnail
  <2>2. /\ req[r].at \in {"truncate", "put", "truncateThumb", "thumb"}
        /\ UNCHANGED <<pageCount, shot, status>>
    BY <1>2 DEF TruncateImage, PutImage, TruncateThumbnail, PutThumbnail, At
  <2>3. /\ \A q \in Requests : q # r => req'[q] = req[q]
        /\ req'[r].at = stage
    BY <2>1, <2>2, MovesOn DEF Inv, Stages
  <2> QED  BY <2>2, <2>3, QuietStepStutters DEF Owns
<1>3. CASE CreatePage(r)
  BY <1>3, CreatePageInserts DEF Promise!Step
<1>4. CASE CreatePageConflict(r)
  <2>1. /\ Finish(r) /\ req[r].at # "idle"
        /\ UNCHANGED <<pageCount, shot, status>>
    BY <1>4 DEF CreatePageConflict, At, store
  <2> QED  BY <2>1, EndLosesOrNothing DEF Promise!Step
<1>5. CASE MarkDone(r)
  <2>1. /\ req[r].at = "done" /\ Proceed(r, "count")
        /\ UNCHANGED <<pageCount, shot>>
        /\ status' = [status EXCEPT ![req[r].page] = "done"]
    BY <1>5 DEF MarkDone, SetPageStatus, At
  <2>2. req[r].adds /\ status[req[r].page] = "processing"
    BY <2>1 DEF Inv, StageOK, OwnerOK, Owns, At
  <2>3. /\ \A q \in Requests : q # r => req'[q] = req[q]
        /\ req'[r].at = "count" /\ req'[r].adds
    BY <2>1, <2>2, MovesOn DEF Inv, Stages
  <2>4. \A n \in Numbers : status'[n] = "none" <=> status[n] = "none"
    BY <2>1, <2>2 DEF Inv, TypeOK
  <2> QED  BY <2>1, <2>2, <2>3, <2>4, QuietStepStutters DEF Owns
<1>6. CASE IncrementDocumentPageCount(r)
  BY <1>6, IncrementCounts DEF Promise!Step
<1>7. CASE \E n \in Numbers : RerunRead(r, n)
  <2>1. PICK n \in Numbers : RerunRead(r, n)
    BY <1>7
  <2>2. /\ \A q \in Requests : q # r => req'[q] = req[q]
        /\ req[r].at = "idle" /\ ~req'[r].adds
        /\ UNCHANGED <<pageCount, shot, status>>
    BY <2>1 DEF Inv, TypeOK, RerunRead, At, store
  <2> QED  BY <2>2, QuietStepStutters DEF Owns
<1>8. CASE Transcribed(r)
  <2>1. /\ req[r].at = "transcribe"
        /\ UNCHANGED <<pageCount, shot, status>>
        /\ IF req[r].adds THEN Proceed(r, "done") ELSE Finish(r)
    BY <1>8 DEF Transcribed, At
  <2>2. CASE req[r].adds
    <3>1. /\ \A q \in Requests : q # r => req'[q] = req[q]
          /\ req'[r].at = "done" /\ req'[r].adds
      BY <2>1, <2>2, MovesOn DEF Inv, Stages
    <3> QED  BY <2>1, <2>2, <3>1, QuietStepStutters DEF Owns
  <2>3. CASE ~req[r].adds
    BY <2>1, <2>3, EndLosesOrNothing DEF Promise!Step
  <2> QED  BY <2>2, <2>3
<1> QED  BY <1>1, <1>2, <1>3, <1>4, <1>5, <1>6, <1>7, <1>8 DEF Work

LEMMA TroubleRefines ==
  ASSUME Inv, Inv', NEW r \in Requests, Trouble(r)
  PROVE  Promise!Step(r) \/ UNCHANGED Promise!numberingVars
<1>1. CASE TranscriptionFails(r)
  <2>1. /\ req[r].at = "transcribe"
        /\ UNCHANGED <<pageCount, shot, status>>
        /\ IF req[r].adds THEN Proceed(r, "failed") ELSE Finish(r)
    BY <1>1 DEF TranscriptionFails, At
  <2>2. CASE req[r].adds
    <3>1. /\ \A q \in Requests : q # r => req'[q] = req[q]
          /\ req'[r].at = "failed" /\ req'[r].adds
      BY <2>1, <2>2, MovesOn DEF Inv, Stages
    <3> QED  BY <2>1, <2>2, <3>1, QuietStepStutters DEF Owns
  <2>3. CASE ~req[r].adds
    BY <2>1, <2>3, EndLosesOrNothing DEF Promise!Step
  <2> QED  BY <2>2, <2>3
<1>2. CASE MarkFailed(r)
  <2>1. /\ req[r].at = "failed" /\ Finish(r)
        /\ UNCHANGED <<pageCount, shot>>
        /\ status' = [status EXCEPT ![req[r].page] = "failed"]
    BY <1>2 DEF MarkFailed, SetPageStatus, At
  <2>2. status[req[r].page] = "processing"
    BY <2>1 DEF Inv, StageOK, OwnerOK, Owns, At
  <2>3. \A n \in Numbers : status'[n] = "none" <=> status[n] = "none"
    BY <2>1, <2>2 DEF Inv, TypeOK
  <2> QED  BY <2>1, <2>3, EndLosesOrNothing DEF Promise!Step
<1>3. CASE Abort(r)
  <2>1. /\ Finish(r) /\ req[r].at # "idle"
        /\ UNCHANGED <<pageCount, shot, status>>
    BY <1>3 DEF Abort, At, store
  <2> QED  BY <2>1, EndLosesOrNothing DEF Promise!Step
<1> QED  BY <1>1, <1>2, <1>3 DEF Trouble

\* Uploading, with all its writes, races and failures, implements the numbering.
THEOREM UploadsKeepNumbering == Spec => KeepsNumbering
<1>1. Init => Promise!StartEmpty
  <2> SUFFICES ASSUME Init PROVE Promise!StartEmpty
    OBVIOUS
  <2>1. Rows = {} /\ pageCount = 0
    BY DEF Init, Rows
  <2>2. \A r \in Requests : ~Owns(r)
    BY DEF Init, Owns, Idle
  <2>3. Owner = Null
    BY <2>2, NobodyOwns
  <2>4. [n \in Rows |-> shot[n]] = [n \in {} |-> Null]
    BY <2>1
  <2> QED  BY <2>1, <2>3, <2>4 DEF Promise!StartEmpty
<1>2. ASSUME Inv, Inv', [Next]_pageVars
      PROVE  [\E r \in Requests : Promise!Step(r)]_Promise!numberingVars
  <2>1. CASE Next
    <3>1. PICK r \in Requests : Work(r) \/ Trouble(r)
      BY <2>1 DEF Next
    <3> QED  BY <3>1, <1>2, WorkRefines, TroubleRefines
  <2>2. CASE UNCHANGED pageVars
    <3>1. UNCHANGED <<mode, pageCount, status, shot, req>>
      BY <2>2 DEF pageVars, store
    <3>2. \A q \in Requests : Owns(q)' <=> Owns(q)
      BY <3>1 DEF Owns
    <3>3. Owner' = Owner /\ AbstractPages' = AbstractPages
      BY <1>2, <3>1, <3>2, OwnersStay, RowsStay
    <3> QED  BY <3>1, <3>3 DEF Promise!numberingVars, AbstractPages
  <2> QED  BY <1>2, <2>1, <2>2
<1> QED  BY <1>1, <1>2, Invariance, PTL DEF Spec, KeepsNumbering, Promise!Numbering

-----------------------------------------------------------------------------
(***************************************************************************)
(* Whose photograph the files hold.  An upload that is alone with its      *)
(* number finds no row there, so what it writes is in the files when its   *)
(* row is; whoever reads an uncontested page reads its own photograph.     *)
(***************************************************************************)
Alone(r, n) == status[n] = "none" /\ \A q \in Requests : q # r => ~Storing(q, n)

FilesHold(r) ==
  \A n \in Numbers : Storing(r, n) /\ n \notin contested =>
    /\ Alone(r, n)
    /\ mode = "photo" /\ req[r].at \in {"truncateThumb", "thumb", "insert"}
         => image[n] = req[r].image
    /\ mode = "photo" /\ At(r, "insert") => thumb[n] = req[r].image

ReadHolds(r) ==
  At(r, "transcribe") /\ req[r].page \notin contested => req[r].image = shot[req[r].page]

PageHolds(n) ==
  n \notin contested =>
    /\ mode = "photo" /\ status[n] # "none" => image[n] = shot[n] /\ thumb[n] = shot[n]
    /\ latest[n].status = "done" => status[n] # "none" /\ latest[n].of = shot[n]

PhotoInv == /\ Inv
            /\ \A r \in Requests : FilesHold(r) /\ ReadHolds(r)
            /\ \A n \in Numbers : PageHolds(n)

Observed == contested' = contested \cup Contended'

\* Where nobody has noticed a second upload there is none.
LEMMA UncontestedIsAlone ==
  ASSUME Observed, NEW r \in Requests, NEW n \in Numbers, n \notin contested', Storing(r, n)'
  PROVE  n \notin contested /\ Alone(r, n)'
<1>1. n \notin contested /\ n \notin Contended'
  BY DEF Observed
<1>2. ~(n \in Rows \/ \E q \in Requests \ {r} : Storing(q, n))'
  BY <1>1 DEF Contended
<1> QED  BY <1>1, <1>2 DEF Alone, Rows

\* A step that ends a request or only marks its row, whose files and text stay.
LEMMA EndKeepsPhotos ==
  ASSUME PhotoInv, Inv', Observed, NEW r \in Requests,
         \A q \in Requests : q # r => req'[q] = req[q],
         UNCHANGED <<mode, latest, image, thumb, shot>>,
         \A n \in Numbers : status'[n] = "none" <=> status[n] = "none",
         req'[r].at \in {"idle", "count"}
  PROVE  PhotoInv'
<1>1. ASSUME NEW q \in Requests PROVE (FilesHold(q) /\ ReadHolds(q))'
  <2>1. CASE q = r
    BY <2>1 DEF FilesHold, ReadHolds, Storing, At
  <2>2. CASE q # r
    BY <2>2, UncontestedIsAlone DEF PhotoInv, FilesHold, ReadHolds, Storing, At, Observed
  <2> QED  BY <2>1, <2>2
<1>2. ASSUME NEW n \in Numbers PROVE PageHolds(n)'
  BY DEF PhotoInv, PageHolds, Observed
<1> QED  BY <1>1, <1>2 DEF PhotoInv

\* An upload that begins has written nothing, and a rerun has read what is there.
LEMMA ReadKeepsPhotos ==
  ASSUME PhotoInv, Inv', Observed, NEW r \in Requests,
         (\E i \in Images : AddRead(r, i)) \/ (\E n \in Numbers : RerunRead(r, n))
  PROVE  PhotoInv'
<1>1. /\ \A q \in Requests : q # r => req'[q] = req[q]
      /\ UNCHANGED <<mode, status, latest, image, thumb, shot>>
  BY DEF PhotoInv, Inv, TypeOK, AddRead, RerunRead, store
<1>2. ASSUME NEW q \in Requests, q # r PROVE (FilesHold(q) /\ ReadHolds(q))'
  BY <1>1, <1>2, UncontestedIsAlone DEF PhotoInv, FilesHold, ReadHolds, Storing, At, Observed
<1>3. (FilesHold(r) /\ ReadHolds(r))'
  <2>1. ASSUME NEW i \in Images, AddRead(r, i) PROVE (FilesHold(r) /\ ReadHolds(r))'
    <3>1. /\ req'[r].at = IF mode = "photo" THEN "truncate" ELSE "insert"
          /\ mode' = mode
      BY <2>1 DEF PhotoInv, Inv, TypeOK, AddRead, Upload, store
    <3> QED  BY <3>1, UncontestedIsAlone DEF FilesHold, ReadHolds, At
  <2>2. ASSUME NEW n \in Numbers, RerunRead(r, n) PROVE (FilesHold(r) /\ ReadHolds(r))'
    <3>1. /\ req'[r].at = "transcribe" /\ req'[r].page = n /\ req'[r].image = image[n]
          /\ mode = "photo" /\ status[n] # "none"
      BY <2>2 DEF PhotoInv, Inv, TypeOK, RerunRead, Rows
    <3> QED  BY <1>1, <3>1 DEF PhotoInv, PageHolds, FilesHold, ReadHolds, Storing, At, Observed
  <2> QED  BY <2>1, <2>2
<1>4. ASSUME NEW n \in Numbers PROVE PageHolds(n)'
  BY <1>1 DEF PhotoInv, PageHolds, Observed
<1> QED  BY <1>2, <1>3, <1>4 DEF PhotoInv

\* Only an upload that is alone writes the files of an uncontested page.
LEMMA FilesKeepPhotos ==
  ASSUME PhotoInv, Inv', Observed, NEW r \in Requests,
         TruncateImage(r) \/ PutImage(r) \/ TruncateThumbnail(r) \/ PutThumbnail(r)
  PROVE  PhotoInv'
<1> DEFINE p == req[r].page
<1>1. /\ req[r].at \in {"truncate", "put", "truncateThumb", "thumb"}
      /\ p \in Numbers /\ mode = "photo"
      /\ UNCHANGED <<mode, status, latest, shot>>
  BY Begun DEF PhotoInv, Inv, TypeOK, WriterOK, Writing, TruncateImage, PutImage,
               TruncateThumbnail, PutThumbnail, At
<1>2. PICK stage \in {"put", "truncateThumb", "thumb", "insert"} :
         /\ Proceed(r, stage)
         /\ \/ TruncateImage(r) /\ stage = "put"
            \/ PutImage(r) /\ stage = "truncateThumb"
            \/ TruncateThumbnail(r) /\ stage = "thumb"
            \/ PutThumbnail(r) /\ stage = "insert"
  BY DEF TruncateImage, PutImage, TruncateThumbnail, PutThumbnail
<1>3. /\ \A q \in Requests : q # r => req'[q] = req[q]
      /\ req'[r].at = stage /\ req'[r].page = p /\ req'[r].image = req[r].image
  BY <1>1, <1>2, MovesOn DEF PhotoInv, Inv, Stages
<1>4. /\ \A n \in Numbers : n # p => image'[n] = image[n] /\ thumb'[n] = thumb[n]
      /\ stage = "truncateThumb" => image'[p] = req[r].image
      /\ stage \in {"thumb", "insert"} => image'[p] = image[p]
      /\ stage = "insert" => thumb'[p] = req[r].image
      /\ stage = "thumb" => req[r].at = "truncateThumb"
      /\ stage = "insert" => req[r].at = "thumb"
  <2>1. image \in [Numbers -> Files] /\ thumb \in [Numbers -> Files]
    BY DEF PhotoInv, Inv, TypeOK
  <2>2. CASE TruncateImage(r) /\ stage = "put"
    BY <2>1, <2>2, <1>1 DEF TruncateImage, At
  <2>3. CASE PutImage(r) /\ stage = "truncateThumb"
    BY <2>1, <2>3, <1>1 DEF PutImage, At
  <2>4. CASE TruncateThumbnail(r) /\ stage = "thumb"
    BY <2>1, <2>4, <1>1 DEF TruncateThumbnail, At
  <2>5. CASE PutThumbnail(r) /\ stage = "insert"
    BY <2>1, <2>5, <1>1 DEF PutThumbnail, At
  <2> QED  BY <1>2, <2>2, <2>3, <2>4, <2>5
<1>5. ASSUME NEW n \in Numbers, n = p PROVE Storing(r, n) /\ Storing(r, n)'
  BY <1>5, <1>1, <1>3 DEF Storing
<1>6. ASSUME NEW q \in Requests PROVE (FilesHold(q) /\ ReadHolds(q))'
  <2>1. CASE q = r
    <3>1. ASSUME NEW n \in Numbers, n = p, n \notin contested'
          PROVE  /\ stage \in {"truncateThumb", "thumb", "insert"} => image'[n] = req[r].image
                 /\ stage = "insert" => thumb'[n] = req[r].image
      <4>1. n \notin contested /\ FilesHold(r)
        BY <3>1, <1>1, <1>5, UncontestedIsAlone DEF PhotoInv
      <4> QED  BY <4>1, <3>1, <1>1, <1>4, <1>5 DEF FilesHold
    <3> QED  BY <2>1, <3>1, <1>1, <1>3, UncontestedIsAlone DEF FilesHold, ReadHolds, Storing, At
  <2>2. CASE q # r
    <3>1. ASSUME NEW n \in Numbers, n \notin contested', Storing(q, n)'
          PROVE  n # p /\ Storing(q, n) /\ n \notin contested
      BY <2>2, <3>1, <1>3, <1>5, UncontestedIsAlone DEF Alone, Storing
    <3>2. FilesHold(q)'
      BY <2>2, <3>1, <1>1, <1>3, <1>4, UncontestedIsAlone DEF PhotoInv, FilesHold, At
    <3>3. ReadHolds(q)'
      BY <2>2, <1>1, <1>3 DEF PhotoInv, ReadHolds, At, Observed
    <3> QED  BY <3>2, <3>3
  <2> QED  BY <2>1, <2>2
<1>7. ASSUME NEW n \in Numbers PROVE PageHolds(n)'
  <2>1. CASE n = p
    <3>1. ASSUME n \notin contested' PROVE n \notin contested /\ status[n] = "none"
      <4>1. n \notin contested /\ FilesHold(r)
        BY <2>1, <3>1, <1>1, <1>5, UncontestedIsAlone DEF PhotoInv
      <4> QED  BY <4>1, <2>1, <1>1, <1>5 DEF FilesHold, Alone
    <3> QED  BY <3>1, <1>1 DEF PhotoInv, PageHolds
  <2>2. CASE n # p
    BY <2>2, <1>1, <1>4 DEF PhotoInv, PageHolds, Observed
  <2> QED  BY <2>1, <2>2
<1> QED  BY <1>6, <1>7 DEF PhotoInv

\* The row is inserted with the photograph that is in its files.
LEMMA CreateKeepsPhotos ==
  ASSUME PhotoInv, Inv', Observed, NEW r \in Requests, CreatePage(r)
  PROVE  PhotoInv'
<1> DEFINE p == req[r].page
<1>1. /\ req[r].at = "insert" /\ p \in Numbers /\ status[p] = "none"
      /\ UNCHANGED <<mode, latest, image, thumb>>
      /\ \A n \in Numbers : n # p => status'[n] = status[n] /\ shot'[n] = shot[n]
      /\ shot'[p] = req[r].image /\ status'[p] = "processing"
  BY Begun DEF PhotoInv, Inv, TypeOK, CreatePage, InsertPage, At, Rows
<1>2. /\ \A q \in Requests : q # r => req'[q] = req[q]
      /\ req'[r].at = "transcribe" /\ req'[r].page = p /\ req'[r].image = req[r].image
  BY <1>1, MovesOn DEF PhotoInv, Inv, CreatePage, InsertPage, Stages
<1>3. Storing(r, p)
  BY <1>1 DEF Storing
<1>4. ASSUME NEW q \in Requests PROVE (FilesHold(q) /\ ReadHolds(q))'
  <2>1. CASE q = r
    BY <2>1, <1>1, <1>2 DEF FilesHold, ReadHolds, Storing, At
  <2>2. CASE q # r
    <3>1. ASSUME NEW n \in Numbers, n \notin contested', Storing(q, n)'
          PROVE  n # p /\ Storing(q, n) /\ n \notin contested
      BY <2>2, <3>1, <1>1, <1>2, UncontestedIsAlone DEF Alone, Storing
    <3>2. FilesHold(q)'
      BY <2>2, <3>1, <1>1, <1>2, UncontestedIsAlone DEF PhotoInv, FilesHold, At
    <3>3. At(q, "transcribe") => req[q].page \in Numbers /\ status[req[q].page] # "none"
      BY Begun DEF PhotoInv, Inv, StageOK, At
    <3>4. ReadHolds(q)'
      BY <2>2, <3>3, <1>1, <1>2 DEF PhotoInv, ReadHolds, At, Observed
    <3> QED  BY <3>2, <3>4
  <2> QED  BY <2>1, <2>2
<1>5. ASSUME NEW n \in Numbers PROVE PageHolds(n)'
  <2>1. CASE n = p
    <3>1. ASSUME n \notin contested, mode = "photo"
          PROVE  image[n] = req[r].image /\ thumb[n] = req[r].image
      BY <2>1, <3>1, <1>1, <1>3 DEF PhotoInv, FilesHold, At
    <3> QED  BY <2>1, <3>1, <1>1 DEF PhotoInv, PageHolds, Observed
  <2>2. CASE n # p
    BY <2>2, <1>1 DEF PhotoInv, PageHolds, Observed
  <2> QED  BY <2>1, <2>2
<1> QED  BY <1>4, <1>5 DEF PhotoInv

\* A transcription stores the text of the photograph it was given.
LEMMA TranscriptionKeepsPhotos ==
  ASSUME PhotoInv, Inv', Observed, NEW r \in Requests, Transcribed(r) \/ TranscriptionFails(r)
  PROVE  PhotoInv'
<1> DEFINE p == req[r].page
<1>1. /\ req[r].at = "transcribe" /\ p \in Numbers
      /\ status[p] # "none"
      /\ UNCHANGED <<mode, status, image, thumb, shot>>
  BY Begun DEF PhotoInv, Inv, StageOK, Transcribed, TranscriptionFails, CreateOCRResult, At
<1>2. /\ \A q \in Requests : q # r => req'[q] = req[q]
      /\ req'[r].at \in {"done", "failed", "idle"}
  <2>1. \/ Proceed(r, "done") \/ Proceed(r, "failed") \/ Finish(r)
    BY DEF Transcribed, TranscriptionFails, CreateOCRResult
  <2> QED  BY <2>1, <1>1, MovesOn, Ends DEF PhotoInv, Inv, Stages
<1>3. /\ \A n \in Numbers : n # p => latest'[n] = latest[n]
      /\ latest'[p].status = "done" => latest'[p] = latest[p] \/ latest'[p].of = req[r].image
  BY <1>1 DEF PhotoInv, Inv, TypeOK, Transcribed, TranscriptionFails, CreateOCRResult
<1>4. ASSUME NEW q \in Requests PROVE (FilesHold(q) /\ ReadHolds(q))'
  <2>1. CASE q = r
    BY <2>1, <1>2 DEF FilesHold, ReadHolds, Storing, At
  <2>2. CASE q # r
    BY <2>2, <1>1, <1>2, UncontestedIsAlone
    DEF PhotoInv, FilesHold, ReadHolds, Storing, At, Observed
  <2> QED  BY <2>1, <2>2
<1>5. ASSUME NEW n \in Numbers PROVE PageHolds(n)'
  <2>1. CASE n = p
    <3>1. n \notin contested => req[r].image = shot[n]
      BY <2>1, <1>1 DEF PhotoInv, ReadHolds, At
    <3> QED  BY <2>1, <3>1, <1>1, <1>3 DEF PhotoInv, PageHolds, Observed
  <2>2. CASE n # p
    BY <2>2, <1>1, <1>3 DEF PhotoInv, PageHolds, Observed
  <2> QED  BY <2>1, <2>2
<1> QED  BY <1>4, <1>5 DEF PhotoInv

\* Every step of the requests keeps the photographs where they belong.
LEMMA StepKeepsPhotos == PhotoInv /\ [ImageNext]_imageVars => PhotoInv'
<1> SUFFICES ASSUME PhotoInv, [ImageNext]_imageVars PROVE PhotoInv'
  OBVIOUS
<1>1. Inv'
  BY StepKeepsInv DEF PhotoInv, ImageNext, imageVars
<1>2. CASE ImageNext
  <2>1. Observed
    BY <1>2 DEF ImageNext, Observed
  <2>2. PICK r \in Requests : Work(r) \/ Trouble(r)
    BY <1>2 DEF ImageNext, Next
  <2>3. ASSUME Finish(r) \/ Proceed(r, "count"), req[r].at # "idle",
               UNCHANGED <<mode, latest, image, thumb, shot>>,
               \A n \in Numbers : status'[n] = "none" <=> status[n] = "none"
        PROVE  PhotoInv'
    <3>1. /\ \A q \in Requests : q # r => req'[q] = req[q]
          /\ req'[r].at \in {"idle", "count"}
      BY <2>3, MovesOn, Ends DEF PhotoInv, Inv, Stages
    <3> QED  BY <1>1, <2>1, <2>3, <3>1, EndKeepsPhotos
  <2>4. CASE MarkDone(r) \/ MarkFailed(r)
    <3>1. /\ status[req[r].page] # "none"
          /\ status \in [Numbers -> {"none", "processing", "done", "failed"}]
      BY <2>4 DEF PhotoInv, Inv, TypeOK, StageOK, OwnerOK, Owns, MarkDone, MarkFailed, At
    <3>2. \A n \in Numbers : status'[n] = "none" <=> status[n] = "none"
      BY <2>4, <3>1 DEF MarkDone, MarkFailed, SetPageStatus
    <3> QED  BY <2>3, <2>4, <3>2 DEF MarkDone, MarkFailed, SetPageStatus, At
  <2>5. CASE IncrementDocumentPageCount(r)
    BY <2>3, <2>5 DEF IncrementDocumentPageCount, At
  <2>6. CASE CreatePageConflict(r) \/ Abort(r)
    BY <2>3, <2>6 DEF CreatePageConflict, Abort, At, store
  <2> QED  BY <1>1, <2>1, <2>2, <2>4, <2>5, <2>6, ReadKeepsPhotos, FilesKeepPhotos,
              CreateKeepsPhotos, TranscriptionKeepsPhotos DEF Work, Trouble
<1>3. CASE UNCHANGED imageVars
  <2>1. UNCHANGED <<mode, status, latest, image, thumb, shot, req, contested>>
    BY <1>3 DEF imageVars, pageVars, store
  <2> QED  BY <1>1, <2>1 DEF PhotoInv, FilesHold, ReadHolds, PageHolds, Alone, Storing, At
<1> QED  BY <1>2, <1>3

\* A page whose number only one upload has worked at shows the photograph it was
\* uploaded with and has no other photograph's text, for any number of requests that
\* overlap, fail and stop wherever they are.
THEOREM PagesKeepTheirPhotograph == ImageSpec => []PagesShowTheirPhotograph
<1>1. ImageInit => PhotoInv
  <2> SUFFICES ASSUME ImageInit PROVE PhotoInv
    OBVIOUS
  <2>1. Inv
    BY InitInv DEF ImageInit
  <2>2. \A r \in Requests : FilesHold(r) /\ ReadHolds(r)
    BY DEF ImageInit, Init, Idle, FilesHold, ReadHolds, Storing, At
  <2>3. \A n \in Numbers : PageHolds(n)
    BY DEF ImageInit, Init, NoResult, PageHolds
  <2> QED  BY <2>1, <2>2, <2>3 DEF PhotoInv
<1>2. PhotoInv => PagesShowTheirPhotograph
  BY DEF PhotoInv, PageHolds, PagesShowTheirPhotograph, Rows
<1> QED  BY <1>1, <1>2, StepKeepsPhotos, PTL DEF ImageSpec
=============================================================================
