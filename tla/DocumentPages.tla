---------------------------- MODULE DocumentPages ----------------------------
(***************************************************************************)
(* The pages of one document: AddPage of internal/app/document, Run and    *)
(* Rerun of internal/app/ocr, the page, ocr_result and document tables and *)
(* the image files of internal/adapter/blob.  AddPage is a chain of        *)
(* separate writes without a transaction, the page number it uses is the   *)
(* page_count it read first plus one, and the transcription in the middle  *)
(* takes minutes; requests overlap, and fail or die between any two writes.*)
(***************************************************************************)
EXTENDS Naturals, FiniteSets

CONSTANTS
  Requests,   \* requests on this document at the same time
  Images,     \* photographs an owner uploads
  PageLimit,  \* bound on the page numbers explored
  Modes,      \* modes the document may have been created with
  Empty,      \* a file of no bytes
  Null

ASSUME PagesAssumption ==
  /\ PageLimit \in Nat \ {0}
  /\ Modes \subseteq {"photo", "text"}
  /\ Null \notin Images \cup Requests /\ Empty \notin Images /\ Null # Empty

Numbers == 1 .. PageLimit

VARIABLES
  mode,       \* document.mode
  pageCount,  \* document.page_count
  status,     \* [Numbers -> page.status, or "none" while there is no row]
  latest,     \* [Numbers -> the row GetLatestOCRResult finds for the page]
  image,      \* [Numbers -> the photograph in the image file <n>.jpg]
  thumb,      \* [Numbers -> the photograph in <n>_thumb.jpg]
  req,        \* [Requests -> where the request stands and what it has read]
  shot        \* [Numbers -> the photograph the page row was inserted for]: history

store == <<mode, pageCount, status, latest, image, thumb, shot>>
pageVars == <<store, req>>

Idle == [at |-> "idle"]
Upload(at, n, i) == [at |-> at, page |-> n, image |-> i, adds |-> TRUE]

At(r, stage) == req[r].at = stage
Proceed(r, stage) == req' = [req EXCEPT ![r].at = stage]
Finish(r) == req' = [req EXCEPT ![r] = Idle]

Rows == {n \in Numbers : status[n] # "none"}

-----------------------------------------------------------------------------
(* Queries *)

\* INSERT INTO page; (document_id, page_number) is unique.
InsertPage(n, i) ==
  /\ n \notin Rows
  /\ status' = [status EXCEPT ![n] = "processing"]
  /\ shot' = [shot EXCEPT ![n] = i]

SetPageStatus(n, new) == status' = [status EXCEPT ![n] = new]

\* Results are only ever added, and the last one is the one that is read.
CreateOCRResult(n, new, i) == latest' = [latest EXCEPT ![n] = [status |-> new, of |-> i]]

-----------------------------------------------------------------------------
(* AddPage.  The owner's authorization succeeds and returns the document,   *)
(* whose page_count is read here and used in every later step.              *)

AddRead(r, i) ==
  /\ At(r, "idle")
  /\ pageCount < PageLimit
  /\ req' = [req EXCEPT ![r] =
               Upload(IF mode = "photo" THEN "truncate" ELSE "insert", pageCount + 1, i)]
  /\ UNCHANGED store

\* Mutant: no thumbnail is written.
PutImageOnly(r) ==
  /\ At(r, "put")
  /\ Proceed(r, "insert")
  /\ image' = [image EXCEPT ![req[r].page] = req[r].image]
  /\ UNCHANGED <<mode, pageCount, status, latest, thumb, shot>>

\* The path is made of the page number alone, and os.WriteFile truncates the
\* file that is already there before it writes.
TruncateImage(r) ==
  /\ At(r, "truncate")
  /\ Proceed(r, "put")
  /\ image' = [image EXCEPT ![req[r].page] = Empty]
  /\ UNCHANGED <<mode, pageCount, status, latest, thumb, shot>>

PutImage(r) ==
  /\ At(r, "put")
  /\ Proceed(r, "truncateThumb")
  /\ image' = [image EXCEPT ![req[r].page] = req[r].image]
  /\ UNCHANGED <<mode, pageCount, status, latest, thumb, shot>>

TruncateThumbnail(r) ==
  /\ At(r, "truncateThumb")
  /\ Proceed(r, "thumb")
  /\ thumb' = [thumb EXCEPT ![req[r].page] = Empty]
  /\ UNCHANGED <<mode, pageCount, status, latest, image, shot>>

PutThumbnail(r) ==
  /\ At(r, "thumb")
  /\ Proceed(r, "insert")
  /\ thumb' = [thumb EXCEPT ![req[r].page] = req[r].image]
  /\ UNCHANGED <<mode, pageCount, status, latest, image, shot>>

CreatePage(r) ==
  /\ At(r, "insert")
  /\ InsertPage(req[r].page, req[r].image)
  /\ Proceed(r, "transcribe")
  /\ UNCHANGED <<mode, pageCount, latest, image, thumb>>

\* Mutant: a page that exists is uploaded again.
CreatePageTwice(r) ==
  /\ At(r, "insert")
  /\ req[r].page \in Rows
  /\ Proceed(r, "transcribe")
  /\ UNCHANGED store

\* UNIQUE (document_id, page_number): the upload ends with an error.
CreatePageConflict(r) ==
  /\ At(r, "insert")
  /\ req[r].page \in Rows
  /\ Finish(r)
  /\ UNCHANGED store

MarkDone(r) ==
  /\ At(r, "done")
  /\ Proceed(r, "count")
  /\ SetPageStatus(req[r].page, "done")
  /\ UNCHANGED <<mode, pageCount, latest, image, thumb, shot>>

IncrementDocumentPageCount(r) ==
  /\ At(r, "count")
  /\ Finish(r)
  /\ pageCount' = pageCount + 1
  /\ UNCHANGED <<mode, status, latest, image, thumb, shot>>

\* Mutant: a status the page table does not know.
MarkBroken(r) ==
  /\ At(r, "failed")
  /\ Finish(r)
  /\ SetPageStatus(req[r].page, "broken")
  /\ UNCHANGED <<mode, pageCount, latest, image, thumb, shot>>

MarkFailed(r) ==
  /\ At(r, "failed")
  /\ Finish(r)
  /\ SetPageStatus(req[r].page, "failed")
  /\ UNCHANGED <<mode, pageCount, latest, image, thumb, shot>>

-----------------------------------------------------------------------------
(* ocr.Service: Rerun reads the image file of an existing page, and then    *)
(* both kinds of request run the transcription and store its result.        *)

\* Mutant: the image of the first page is read.
RerunReadFirst(r, n) ==
  /\ At(r, "idle")
  /\ n \in Rows
  /\ mode = "photo"
  /\ req' = [req EXCEPT ![r] = [at |-> "transcribe", page |-> n,
                                image |-> image[1], adds |-> FALSE]]
  /\ UNCHANGED store

RerunRead(r, n) ==
  /\ At(r, "idle")
  /\ n \in Rows
  /\ mode = "photo"
  /\ req' = [req EXCEPT ![r] = [at |-> "transcribe", page |-> n,
                                image |-> image[n], adds |-> FALSE]]
  /\ UNCHANGED store

Transcribed(r) ==
  /\ At(r, "transcribe")
  /\ CreateOCRResult(req[r].page, "done", req[r].image)
  /\ IF req[r].adds THEN Proceed(r, "done") ELSE Finish(r)
  /\ UNCHANGED <<mode, pageCount, status, image, thumb, shot>>

\* Mutant: the page counts although its transcription failed.
TranscriptionFailsCounted(r) ==
  /\ At(r, "transcribe")
  /\ CreateOCRResult(req[r].page, "failed", Null) \/ UNCHANGED latest
  /\ IF req[r].adds THEN Proceed(r, "count") ELSE Finish(r)
  /\ UNCHANGED <<mode, pageCount, status, image, thumb, shot>>

\* The transcription fails, or its result cannot be stored; the marker of the
\* failure is itself a write that may fail.
TranscriptionFails(r) ==
  /\ At(r, "transcribe")
  /\ CreateOCRResult(req[r].page, "failed", Null) \/ UNCHANGED latest
  /\ IF req[r].adds THEN Proceed(r, "failed") ELSE Finish(r)
  /\ UNCHANGED <<mode, pageCount, status, image, thumb, shot>>

\* A write fails, the client goes away and its context is cancelled, or the
\* server stops: nothing more of the request happens, what it wrote stays.
Abort(r) ==
  /\ ~At(r, "idle")
  /\ Finish(r)
  /\ UNCHANGED store

-----------------------------------------------------------------------------
NoResult == [status |-> "pending", of |-> Null]

Init == /\ mode \in Modes
        /\ pageCount = 0
        /\ status = [n \in Numbers |-> "none"]
        /\ latest = [n \in Numbers |-> NoResult]
        /\ image = [n \in Numbers |-> Null]
        /\ thumb = [n \in Numbers |-> Null]
        /\ shot = [n \in Numbers |-> Null]
        /\ req = [r \in Requests |-> Idle]

Work(r) ==
  \/ \E i \in Images : AddRead(r, i)
  \/ TruncateImage(r)
  \/ PutImage(r)
  \/ TruncateThumbnail(r)
  \/ PutThumbnail(r)
  \/ CreatePage(r)
  \/ CreatePageConflict(r)
  \/ MarkDone(r)
  \/ IncrementDocumentPageCount(r)
  \/ \E n \in Numbers : RerunRead(r, n)
  \/ Transcribed(r)

Trouble(r) == TranscriptionFails(r) \/ MarkFailed(r) \/ Abort(r)

Next == \E r \in Requests : Work(r) \/ Trouble(r)

Spec == Init /\ [][Next]_pageVars

(***************************************************************************)
(* Fairness: each step of a request that is tried again and again happens  *)
(* in the end, so neither the database, the disk nor the transcription     *)
(* fails for ever, and the owner keeps uploading and rerunning.            *)
(***************************************************************************)
Progress ==
  \A r \in Requests :
    /\ SF_pageVars(\E i \in Images : AddRead(r, i))
    /\ SF_pageVars(TruncateImage(r) \/ TruncateThumbnail(r))
    /\ SF_pageVars(PutImage(r))
    /\ SF_pageVars(PutThumbnail(r))
    /\ SF_pageVars(CreatePage(r) \/ CreatePageConflict(r))
    /\ SF_pageVars(Transcribed(r))
    /\ SF_pageVars(MarkDone(r))
    /\ SF_pageVars(IncrementDocumentPageCount(r))
    /\ SF_pageVars(\E n \in Numbers : RerunRead(r, n))
    /\ WF_pageVars(MarkFailed(r))

\* Anything fails, but not for ever.
FairSpec == Spec /\ Progress

-----------------------------------------------------------------------------
(* Properties *)

Stages == {"truncate", "put", "truncateThumb", "thumb", "insert",
           "transcribe", "done", "count", "failed"}
Files == Images \cup {Empty, Null}
Result == [status : {"pending", "done", "failed"}, of : Files]

TypeOK ==
  /\ mode \in Modes
  /\ pageCount \in 0 .. PageLimit
  /\ status \in [Numbers -> {"none", "processing", "done", "failed"}]
  /\ latest \in [Numbers -> Result]
  /\ image \in [Numbers -> Files]
  /\ thumb \in [Numbers -> Files]
  /\ shot \in [Numbers -> Files]
  /\ req \in [Requests -> {Idle} \cup
       [at : Stages, page : Numbers, image : Files, adds : BOOLEAN]]

\* Page numbers have no gap and are given out once: the rows are exactly the
\* counted pages and at most the one after them, whoever races or dies.
NumbersHaveNoGap == Rows \in {1 .. pageCount, 1 .. pageCount + 1}

\* A page that is counted is done, and its transcription was stored before.
CountedPagesAreDone ==
  \A n \in 1 .. pageCount : status[n] = "done" /\ latest[n].status # "pending"

\* In photo mode no row is ever without its files, in text mode no photograph
\* is ever stored (README.md:193).
RowsHaveFiles ==
  IF mode = "photo"
  THEN \A n \in Rows : image[n] # Null /\ thumb[n] # Null
  ELSE \A n \in Numbers : image[n] = Null /\ thumb[n] = Null

\* A page whose upload failed can be retried until it succeeds
\* (capture_controller_test.dart:47).
RetrySucceeds == \A n \in Numbers : status[n] = "failed" ~> status[n] = "done"

-----------------------------------------------------------------------------
(* Refinement *)

\* The upload whose page is in: it alone will count that page.
Owns(r) == req[r].at \in {"transcribe", "done", "count", "failed"} /\ req[r].adds

Owner == IF \E r \in Requests : Owns(r) THEN CHOOSE r \in Requests : Owns(r) ELSE Null

Promise == INSTANCE PageNumbers
             WITH Uploads <- Requests, Photos <- Images, Last <- PageLimit, Nobody <- Null,
                  pages <- [n \in Rows |-> shot[n]], counted <- pageCount, owner <- Owner

\* However uploads and reruns interleave, fail and die, the tables number the
\* pages as promised: each step is one step of the numbering or none.
KeepsNumbering == Promise!Numbering
=============================================================================
