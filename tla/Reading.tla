------------------------------- MODULE Reading -------------------------------
(***************************************************************************)
(* Reading a document while its pages are uploaded and transcribed again:  *)
(* Get of internal/app/document, the cover and image links of the HTTP     *)
(* layer, SetThumbnail, and Run of internal/app/transform, which turns the *)
(* text of all pages into an output.  Each is a chain of separate queries, *)
(* with the writes of DocumentPages between any two of them.               *)
(***************************************************************************)
EXTENDS DocumentPages

CONSTANTS
  Readers,     \* requests that read, pick a cover or transform
  Scopes,      \* scopes of the templates a transform may name
  Blank,       \* photographs with nothing but white space for a text
  OutputLimit  \* bound on the outputs explored

ASSUME ReadingAssumption ==
  /\ Scopes \subseteq {"page", "document", "unknown"}
  /\ Blank \subseteq Images \cup {Empty}
  /\ OutputLimit \in Nat

VARIABLES
  cover,    \* document.thumb_page
  outputs,  \* rows of output, as the sets of pages whose texts they hold
  reader,   \* [Readers -> where the request stands and what it has read]
  kept      \* [Readers -> pages a transform listed with a text, which they have
            \*  had at every moment since, and whose result it could read]: history

readVars == <<cover, outputs, reader, kept>>
readingVars == <<pageVars, readVars>>

-----------------------------------------------------------------------------
(* Queries *)

GetPageByNumber(n) == n \in Rows

ListPagesByDocument == [n \in Rows |-> status[n]]

\* Mutant: the page's own status is taken for its result's.
GetPageStatus(n) == [latest[n] EXCEPT !.status = status[n]]

GetLatestOCRResult(n) == latest[n]

ListOutputsByDocument == outputs

SetDocumentThumbPage(n) == cover' = n

CreateOutput(pages) == outputs' = outputs \cup {pages}

-----------------------------------------------------------------------------
(* Requests *)

Start(q, op, stage, n) ==
  reader' = [reader EXCEPT ![q] =
    [at |-> stage, op |-> op, want |-> n, count |-> IF op = "detail" THEN pageCount ELSE 0,
     pages |-> << >>, results |-> << >>, got |-> Null]]

Stands(q, stage) == reader[q].at = stage
Goes(q, stage) == reader' = [reader EXCEPT ![q].at = stage]
Leaves(q) == reader' = [reader EXCEPT ![q] = Idle]

Unread(q) == DOMAIN reader[q].pages \ DOMAIN reader[q].results
NextUnread(q) == CHOOSE n \in Unread(q) : \A m \in Unread(q) : n <= m

\* Following a link: the texts and outputs of the detail are read and dropped.
Following(q) == reader[q].op \in {"image", "thumb"}

Extend(f, n, v) == [m \in DOMAIN f \cup {n} |-> IF m = n THEN v ELSE f[m]]

Unreadable == [status |-> "unreadable", of |-> Null]

\* What strings.TrimSpace leaves something of.
HasText(result) == result.status = "done" /\ result.of \notin Blank

-----------------------------------------------------------------------------
(* Get: the document's row, then its pages, the latest result of each page  *)
(* one by one, and the outputs.                                             *)

GetDetail(q) ==
  /\ Stands(q, "idle")
  /\ Start(q, "detail", "pages", 1)
  /\ UNCHANGED <<pageVars, cover, outputs>>

ListPages(q) ==
  /\ Stands(q, "pages")
  /\ reader' = [reader EXCEPT ![q].at = IF Following(q) THEN "found" ELSE "results",
                              ![q].pages = ListPagesByDocument]
  /\ UNCHANGED <<pageVars, cover, outputs>>

\* A page without a result is not an error: it is shown as pending.
ReadResult(q) ==
  /\ Stands(q, "results")
  /\ Unread(q) # {}
  /\ reader' = [reader EXCEPT ![q].results =
                   Extend(@, NextUnread(q), GetLatestOCRResult(NextUnread(q)))]
  /\ UNCHANGED <<pageVars, cover, outputs>>

\* Mutant: the document's row is read when everything else has been.
ListOutputsFirst(q) ==
  /\ Stands(q, "results") /\ reader[q].op = "detail"
  /\ Unread(q) = {}
  /\ reader' = [reader EXCEPT ![q].at = "found", ![q].got = ListOutputsByDocument,
                              ![q].count = pageCount]
  /\ UNCHANGED <<pageVars, cover, outputs>>

ListOutputs(q) ==
  /\ Stands(q, "results") /\ reader[q].op = "detail"
  /\ Unread(q) = {}
  /\ reader' = [reader EXCEPT ![q].at = "found", ![q].got = ListOutputsByDocument]
  /\ UNCHANGED <<pageVars, cover, outputs>>

-----------------------------------------------------------------------------
(* Links: a cover in the list of documents, images and thumbnails in a      *)
(* detail.  Following one is a request of its own, later.                   *)

\* Mutant: a document without pages has a cover.
HasCoverAlways == mode = "photo"

HasCover == pageCount > 0 /\ mode = "photo"

\* The chosen page, or the first when that one is not counted (yet).
CoverPage == IF cover \in 1 .. pageCount THEN cover ELSE 1

FollowCover(q) ==
  /\ Stands(q, "idle")
  /\ HasCover
  /\ Start(q, "thumb", "open", CoverPage)
  /\ UNCHANGED <<pageVars, cover, outputs>>

\* The links of a page are there when its row has the paths, in photo mode.
FollowPage(q, kind) ==
  /\ Stands(q, "found")
  /\ reader[q].op = "detail"
  /\ mode = "photo"
  /\ \E n \in DOMAIN reader[q].pages : Start(q, kind, "open", n)
  /\ UNCHANGED <<pageVars, cover, outputs>>

\* findPage gets the whole detail again and looks for the number in it.
OpenPage(q) ==
  /\ Stands(q, "open")
  /\ Goes(q, "pages")
  /\ UNCHANGED <<pageVars, cover, outputs>>

FindPage(q) == reader[q].want \in DOMAIN reader[q].pages

BlobOf(kind, n) == IF kind = "image" THEN image[n] ELSE thumb[n]

\* got is Null for a 404: no such page in the detail, or no such file.
ServeBlob(q) ==
  /\ Stands(q, "found")
  /\ Following(q)
  /\ reader' = [reader EXCEPT ![q].at = "served",
       ![q].got = IF FindPage(q) THEN BlobOf(reader[q].op, reader[q].want) ELSE Null]
  /\ UNCHANGED <<pageVars, cover, outputs>>

\* SetThumbnail: the page must exist and have a thumbnail.
ReadCoverPage(q, n) ==
  /\ Stands(q, "idle")
  /\ GetPageByNumber(n) /\ mode = "photo"
  /\ Start(q, "cover", "pick", n)
  /\ UNCHANGED <<pageVars, cover, outputs>>

SetThumbnail(q) ==
  /\ Stands(q, "pick")
  /\ SetDocumentThumbPage(reader[q].want)
  /\ Leaves(q)
  /\ UNCHANGED <<pageVars, outputs>>

-----------------------------------------------------------------------------
(* transform.Service.Run *)

BeginTransform(q) ==
  /\ Stands(q, "idle")
  /\ Start(q, "transform", "pages", 1)
  /\ UNCHANGED <<pageVars, cover, outputs>>

\* Whatever error the read of a result ends with, the page is skipped.
SkipResult(q) ==
  /\ Stands(q, "results")
  /\ Unread(q) # {}
  /\ reader[q].op = "transform"
  /\ reader' = [reader EXCEPT ![q].results = Extend(@, NextUnread(q), Unreadable)]
  /\ UNCHANGED <<pageVars, cover, outputs>>

\* Mutant: the page's own status decides, and a rerun never changes that one.
TextsOfDonePages(q) ==
  LET results == reader[q].results
      used == {n \in DOMAIN results : reader[q].pages[n] = "done" /\ HasText(results[n])}
  IN  [n \in used |-> results[n].of]

Texts(q) ==
  LET results == reader[q].results
      used == {n \in DOMAIN results : HasText(results[n])}
  IN  [n \in used |-> results[n].of]

\* Without any text the request is refused.
Collect(q) ==
  /\ Stands(q, "results")
  /\ Unread(q) = {}
  /\ reader[q].op = "transform"
  /\ IF DOMAIN Texts(q) = {} THEN Leaves(q) ELSE Goes(q, "ask")
  /\ UNCHANGED <<pageVars, cover, outputs>>

\* The model is called once for the document or once for each page, which
\* takes minutes; a template of another scope is refused.
AskModel(q) ==
  /\ Stands(q, "ask")
  /\ \E scope \in Scopes :
       IF scope \in {"page", "document"} THEN Goes(q, "store") ELSE Leaves(q)
  /\ UNCHANGED <<pageVars, cover, outputs>>

StoreOutput(q) ==
  /\ Stands(q, "store")
  /\ Cardinality(outputs) < OutputLimit
  /\ CreateOutput(DOMAIN Texts(q))
  /\ Goes(q, "stored")
  /\ UNCHANGED <<pageVars, cover>>
-----------------------------------------------------------------------------
\* An answer is received; or a query, the model or the disk fails, the client
\* goes away, the server stops.
Leave(q) ==
  /\ ~Stands(q, "idle")
  /\ Leaves(q)
  /\ UNCHANGED <<pageVars, cover, outputs>>

Transforming(r) == r.at \in {"results", "ask", "store", "stored"} /\ r.op = "transform"

\* What each transform could count on since it listed the pages.
Observe ==
  kept' = [q \in Readers |->
    IF ~Transforming(reader'[q]) THEN {}
    ELSE IF Stands(q, "pages") THEN {n \in Rows : HasText(latest[n])}
    ELSE {n \in kept[q] :
            /\ HasText(latest'[n])
            /\ n \in DOMAIN reader'[q].results => reader'[q].results[n] # Unreadable}]

ReadingInit ==
  /\ Init
  /\ cover = 1
  /\ outputs = {}
  /\ reader = [q \in Readers |-> Idle]
  /\ kept = [q \in Readers |-> {}]

ReadStep(q) ==
  \/ GetDetail(q) \/ ListPages(q) \/ ReadResult(q) \/ ListOutputs(q)
  \/ FollowCover(q) \/ FollowPage(q, "image") \/ FollowPage(q, "thumb")
  \/ OpenPage(q) \/ ServeBlob(q)
  \/ \E n \in Numbers : ReadCoverPage(q, n)
  \/ SetThumbnail(q)
  \/ BeginTransform(q) \/ SkipResult(q) \/ Collect(q) \/ AskModel(q) \/ StoreOutput(q)
  \/ Leave(q)

ReadingNext ==
  /\ \/ Next /\ UNCHANGED <<cover, outputs, reader>>
     \/ \E q \in Readers : ReadStep(q)
  /\ Observe

ReadingSpec == ReadingInit /\ [][ReadingNext]_readingVars

-----------------------------------------------------------------------------
(* Properties *)

SomePages(Values) == UNION {[S -> Values] : S \in SUBSET Numbers}

ReadingTypeOK ==
  /\ cover \in Numbers
  /\ outputs \subseteq SUBSET Numbers /\ Cardinality(outputs) <= OutputLimit
  /\ kept \in [Readers -> SUBSET Numbers]
  /\ reader \in [Readers -> {Idle} \cup
       [at : {"pages", "results", "found", "open", "served", "pick", "ask", "store", "stored"},
        op : {"detail", "image", "thumb", "cover", "transform"}, want : Numbers,
        count : 0 .. PageLimit, pages : SomePages({"processing", "done", "failed"}),
        results : SomePages(Result \cup {Unreadable}), got : Files \cup SUBSET outputs]]

\* A detail is consistent although it is read in many queries: every page its
\* document row counts is among its pages, done, with a result
\* (service.go:51-82).
DetailShowsCountedPages ==
  \A q \in Readers :
    LET detail == reader[q] IN
    Stands(q, "found") /\ detail.op = "detail" =>
      \A n \in 1 .. detail.count :
        /\ n \in DOMAIN detail.pages
        /\ detail.pages[n] = "done"
        /\ detail.results[n].status # "pending"

\* A link, once shown, leads to a file whenever it is followed: the cover of the
\* list of documents (doc_handler.go:78-84) and the images of a detail.
LinksLeadToFiles == \A q \in Readers : Stands(q, "served") => reader[q].got # Null

\* An output has the text of every page that had one from the moment the pages
\* were listed, however often this page or another was transcribed again meanwhile,
\* except a page whose result could not be read (transform/service.go:47-61).
OutputsHoldTheText ==
  \A q \in Readers : Stands(q, "stored") => kept[q] \subseteq DOMAIN Texts(q)
=============================================================================
