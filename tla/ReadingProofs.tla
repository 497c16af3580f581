---------------------------- MODULE ReadingProofs ----------------------------
(***************************************************************************)
(* What a reader can rely on, for every number of readers and of uploads   *)
(* and reruns beside them.  The argument is one of monotony: rows are      *)
(* never removed, a counted page stays done with a result, a file that is  *)
(* there is only replaced; so what a request has read of an earlier moment *)
(* is still a lower bound for what it reads next.                          *)
(***************************************************************************)
EXTENDS Reading, DocumentPagesProofs, FiniteSetTheorems, WellFoundedInduction

-----------------------------------------------------------------------------
(* The pages grow *)

\* Reading leaves the pages alone; whatever else happens is a step of theirs.
LEMMA PagesStep == [ReadingNext]_readingVars => [Next]_pageVars
  BY DEF ReadingNext, ReadStep, GetDetail, ListPages, ReadResult, ListOutputs, FollowCover,
     FollowPage, OpenPage, ServeBlob, ReadCoverPage, SetThumbnail, BeginTransform, SkipResult,
     Collect, AskModel, StoreOutput, Leave, readingVars

Grown ==
  /\ mode' = mode
  /\ pageCount \in Nat /\ pageCount' \in Nat /\ pageCount <= pageCount'
  /\ \A n \in Numbers : status[n] # "none" => status'[n] # "none"

LEMMA PagesGrow == Inv /\ [Next]_pageVars => Grown
<1> SUFFICES ASSUME Inv, [Next]_pageVars PROVE Grown
  OBVIOUS
<1>0. TypeOK /\ pageCount \in Nat
  BY DEF Inv, TypeOK
<1>1. CASE UNCHANGED <<mode, pageCount, status>>
  BY <1>0, <1>1 DEF Grown
<1>2. ASSUME NEW r \in Requests, CreatePage(r) \/ MarkDone(r) \/ MarkFailed(r) PROVE Grown
  BY <1>0, <1>2 DEF Grown, TypeOK, CreatePage, MarkDone, MarkFailed, InsertPage, SetPageStatus
<1>3. ASSUME NEW r \in Requests, IncrementDocumentPageCount(r) PROVE Grown
  BY <1>0, <1>3 DEF Grown, IncrementDocumentPageCount
<1> QED
  BY <1>1, <1>2, <1>3 DEF Next, Work, Trouble, AddRead, TruncateImage, PutImage, TruncateThumbnail,
     PutThumbnail, CreatePageConflict, RerunRead, Transcribed, TranscriptionFails, Abort,
     pageVars, store

LEMMA RowsGrow == Grown => Rows \subseteq Rows'
  BY DEF Grown, Rows

-----------------------------------------------------------------------------
(* What holds of one reader *)

Shape(x) ==
  x = [at |-> x.at, op |-> x.op, want |-> x.want, count |-> x.count,
       pages |-> x.pages, results |-> x.results, got |-> x.got]

\* The stages of each kind of request, and rows that are still there.
WayOK(x) ==
  /\ Shape(x)
  /\ x.op \in {"detail", "image", "thumb", "cover", "transform"}
  /\ x.op = "detail" => x.at \in {"pages", "results", "found"}
  /\ x.op \in {"image", "thumb"} => x.at \in {"open", "pages", "found", "served"}
  /\ x.op = "cover" => x.at = "pick"
  /\ x.op = "transform" => x.at \in {"pages", "results", "ask", "store", "stored"}
  /\ x.at \in {"open", "pages"} => DOMAIN x.results = {}
  /\ DOMAIN x.pages \subseteq Rows

\* The count was read first, so the pages and results read later cover it.
DetailOK(x) ==
  x.op = "detail" =>
    /\ x.count \in Nat /\ x.count <= pageCount
    /\ x.at \in {"results", "found"} =>
         \A n \in 1 .. x.count : n \in DOMAIN x.pages /\ x.pages[n] = "done"
    /\ \A n \in 1 .. x.count : n \in DOMAIN x.results => x.results[n].status # "pending"
    /\ x.at = "found" => DOMAIN x.pages \subseteq DOMAIN x.results

\* A link is made of a row in photo mode.
LinkOK(x) ==
  x.op \in {"image", "thumb"} =>
    /\ mode = "photo"
    /\ x.want \in Rows
    /\ x.at = "found" => x.want \in DOMAIN x.pages
    /\ x.at = "served" => x.got # Null

\* A page that kept a text and was read has a text among the results.
TransformOK(x, still) ==
  x.op = "transform" =>
    /\ \A n \in still : /\ HasText(latest[n])
                        /\ n \in DOMAIN x.pages
                        /\ n \in DOMAIN x.results => HasText(x.results[n])
    /\ x.at \in {"ask", "store", "stored"} => still \subseteq DOMAIN x.results

ReaderOK(q) ==
  reader[q] # Idle =>
    /\ WayOK(reader[q])
    /\ DetailOK(reader[q])
    /\ LinkOK(reader[q])
    /\ TransformOK(reader[q], kept[q])

ReadingInv ==
  /\ Inv
  /\ reader = [q \in Readers |-> reader[q]]
  /\ \A q \in Readers : ReaderOK(q)

-----------------------------------------------------------------------------
(* Readers that rest while something else happens *)

LEMMA KeptWhileResting ==
  ASSUME Observe, NEW q \in Readers, reader'[q] = reader[q]
  PROVE  \A n \in kept'[q] : n \in kept[q] /\ HasText(latest'[n])
  BY DEF Observe, Stands, Transforming

LEMMA RestingStaysOK ==
  ASSUME Inv, Grown, Observe, NEW q \in Readers, ReaderOK(q), reader'[q] = reader[q]
  PROVE  ReaderOK(q)'
<1> SUFFICES ASSUME reader[q] # Idle
             PROVE  /\ WayOK(reader[q])'
                    /\ DetailOK(reader[q])'
                    /\ LinkOK(reader[q])'
                    /\ TransformOK(reader[q], kept[q])'
  BY DEF ReaderOK
<1> DEFINE x == reader[q]
<1>1. WayOK(x) /\ DetailOK(x) /\ LinkOK(x) /\ TransformOK(x, kept[q])
  BY DEF ReaderOK
<1>2. WayOK(reader[q])'
  BY <1>1, RowsGrow DEF WayOK, Shape
<1>3. DetailOK(reader[q])'
  BY <1>1 DEF DetailOK, Grown
<1>4. LinkOK(reader[q])'
  BY <1>1, RowsGrow DEF LinkOK, Grown
<1>5. TransformOK(reader[q], kept[q])'
  BY <1>1, KeptWhileResting DEF TransformOK, HasText
<1> QED  BY <1>2, <1>3, <1>4, <1>5

-----------------------------------------------------------------------------
(* The reader that moves *)

With(x, stage, pages, results, got) ==
  [at |-> stage, op |-> x.op, want |-> x.want, count |-> x.count,
   pages |-> pages, results |-> results, got |-> got]

\* Two fields changed at once.
LEMMA StageAndPages ==
  ASSUME NEW x, Shape(x), NEW stage, NEW v
  PROVE  [x EXCEPT !.at = stage, !.pages = v] = With(x, stage, v, x.results, x.got)
<1> DEFINE y == With(x, stage, x.pages, x.results, x.got)
<1>1. [x EXCEPT !.at = stage] = y
  BY DEF Shape, With
<1>2. [y EXCEPT !.pages = v] = With(x, stage, v, x.results, x.got)
  BY DEF With
<1>3. [x EXCEPT !.at = stage, !.pages = v] = [[x EXCEPT !.at = stage] EXCEPT !.pages = v]
  OBVIOUS
<1> QED  BY <1>1, <1>2, <1>3

LEMMA StageAndGot ==
  ASSUME NEW x, Shape(x), NEW stage, NEW v
  PROVE  [x EXCEPT !.at = stage, !.got = v] = With(x, stage, x.pages, x.results, v)
<1> DEFINE y == With(x, stage, x.pages, x.results, x.got)
<1>1. [x EXCEPT !.at = stage] = y
  BY DEF Shape, With
<1>2. [y EXCEPT !.got = v] = With(x, stage, x.pages, x.results, v)
  BY DEF With
<1>3. [x EXCEPT !.at = stage, !.got = v] = [[x EXCEPT !.at = stage] EXCEPT !.got = v]
  OBVIOUS
<1> QED  BY <1>1, <1>2, <1>3

\* The request of q becomes y, and nothing else changes.
Becomes(q, y) ==
  /\ reader' = [p \in Readers |-> reader'[p]]
  /\ \A p \in Readers : p # q => reader'[p] = reader[p]
  /\ reader'[q] = y
  /\ UNCHANGED pageVars

LEMMA BecomesIt ==
  ASSUME reader = [p \in Readers |-> reader[p]], NEW q \in Readers, NEW y,
         reader' = [reader EXCEPT ![q] = y], UNCHANGED pageVars
  PROVE  Becomes(q, y)
  BY DEF Becomes

LEMMA GoesBecomes ==
  ASSUME reader = [p \in Readers |-> reader[p]], NEW q \in Readers, Shape(reader[q]),
         NEW stage, Goes(q, stage), UNCHANGED pageVars
  PROVE  Becomes(q, With(reader[q], stage, reader[q].pages, reader[q].results, reader[q].got))
<1>1. reader' = [reader EXCEPT ![q] = [reader[q] EXCEPT !.at = stage]]
  BY DEF Goes
<1>2. [reader[q] EXCEPT !.at = stage]
        = With(reader[q], stage, reader[q].pages, reader[q].results, reader[q].got)
  BY DEF Shape, With
<1> QED  BY <1>1, <1>2, BecomesIt

LEMMA StartBecomes ==
  ASSUME reader = [p \in Readers |-> reader[p]], NEW q \in Readers,
         NEW op, NEW stage, NEW n, Start(q, op, stage, n), UNCHANGED pageVars
  PROVE  Becomes(q, [at |-> stage, op |-> op, want |-> n,
                     count |-> IF op = "detail" THEN pageCount ELSE 0,
                     pages |-> << >>, results |-> << >>, got |-> Null])
  BY BecomesIt DEF Start

LEMMA ListPagesBecomes ==
  ASSUME reader = [p \in Readers |-> reader[p]], NEW q \in Readers, Shape(reader[q]), ListPages(q)
  PROVE  Becomes(q, With(reader[q], IF Following(q) THEN "found" ELSE "results",
                         ListPagesByDocument, reader[q].results, reader[q].got))
<1> DEFINE stage == IF Following(q) THEN "found" ELSE "results"
<1>1. reader' =
        [reader EXCEPT ![q] = [reader[q] EXCEPT !.at = stage, !.pages = ListPagesByDocument]]
  BY DEF ListPages
<1>2. [reader[q] EXCEPT !.at = stage, !.pages = ListPagesByDocument]
        = With(reader[q], stage, ListPagesByDocument, reader[q].results, reader[q].got)
  BY StageAndPages
<1>3. UNCHANGED pageVars
  BY DEF ListPages
<1> HIDE DEF stage
<1>4. Becomes(q, With(reader[q], stage, ListPagesByDocument, reader[q].results, reader[q].got))
  BY <1>1, <1>2, <1>3, BecomesIt
<1> QED  BY <1>4 DEF stage

LEMMA ResultsBecome ==
  ASSUME reader = [p \in Readers |-> reader[p]], NEW q \in Readers, Shape(reader[q]),
         NEW v, reader' = [reader EXCEPT ![q].results = Extend(@, NextUnread(q), v)],
         UNCHANGED pageVars
  PROVE  Becomes(q, With(reader[q], reader[q].at, reader[q].pages,
                         Extend(reader[q].results, NextUnread(q), v), reader[q].got))
<1>1. reader' = [reader EXCEPT ![q] = [reader[q] EXCEPT !.results = Extend(@, NextUnread(q), v)]]
  OBVIOUS
<1>2. [reader[q] EXCEPT !.results = Extend(@, NextUnread(q), v)]
        = With(reader[q], reader[q].at, reader[q].pages,
               Extend(reader[q].results, NextUnread(q), v), reader[q].got)
  BY DEF Shape, With
<1> QED  BY <1>1, <1>2, BecomesIt

LEMMA GotBecomes ==
  ASSUME reader = [p \in Readers |-> reader[p]], NEW q \in Readers, Shape(reader[q]),
         NEW stage, NEW v, reader' = [reader EXCEPT ![q].at = stage, ![q].got = v],
         UNCHANGED pageVars
  PROVE  Becomes(q, With(reader[q], stage, reader[q].pages, reader[q].results, v))
<1>1. reader' = [reader EXCEPT ![q] = [reader[q] EXCEPT !.at = stage, !.got = v]]
  OBVIOUS
<1>2. [reader[q] EXCEPT !.at = stage, !.got = v]
        = With(reader[q], stage, reader[q].pages, reader[q].results, v)
  BY StageAndGot
<1>3. reader' = [reader EXCEPT ![q] = With(reader[q], stage, reader[q].pages, reader[q].results, v)]
  BY <1>1, <1>2
<1> QED  BY <1>3, BecomesIt

\* What the moving request has kept.
LEMMA KeptWhileMoving ==
  ASSUME NEW q \in Readers, NEW y, Becomes(q, y), Observe
  PROVE  /\ ~Transforming(y) => kept'[q] = {}
         /\ Transforming(y) /\ Stands(q, "pages") => kept'[q] = {n \in Rows : HasText(latest[n])}
         /\ Transforming(y) /\ ~Stands(q, "pages") =>
              \A n \in kept'[q] : /\ n \in kept[q] /\ HasText(latest[n])
                                  /\ n \in DOMAIN y.results => y.results[n] # Unreadable
  BY DEF Becomes, Observe, pageVars, store

LEMMA MovedOK ==
  ASSUME NEW q \in Readers, NEW y, Becomes(q, y),
         WayOK(y), DetailOK(y), LinkOK(y), TransformOK(y, kept'[q])
  PROVE  ReaderOK(q)'
<1>1. UNCHANGED <<pageCount, mode, latest, Rows>>
  BY DEF Becomes, pageVars, store, Rows
<1> QED
  BY <1>1 DEF Becomes, ReaderOK, WayOK, DetailOK, LinkOK, TransformOK, HasText, Shape

\* A request that begins has read nothing.
LEMMA StartedOK ==
  ASSUME ReadingInv, Observe, NEW q \in Readers, NEW stage, NEW n,
         NEW op \in {"detail", "image", "thumb", "cover", "transform"},
         Start(q, op, stage, n), UNCHANGED pageVars,
         op \in {"detail", "transform"} => stage = "pages",
         op \in {"image", "thumb"} => stage = "open" /\ mode = "photo" /\ n \in Rows,
         op = "cover" => stage = "pick"
  PROVE  (\E y : Becomes(q, y)) /\ ReaderOK(q)'
<1> DEFINE y == [at |-> stage, op |-> op, want |-> n,
                 count |-> IF op = "detail" THEN pageCount ELSE 0,
                 pages |-> << >>, results |-> << >>, got |-> Null]
<1>1. Becomes(q, y)
  BY StartBecomes DEF ReadingInv
<1>2. DOMAIN << >> = {}
  OBVIOUS
<1>3. WayOK(y)
  BY <1>2 DEF WayOK, Shape
<1>4. DetailOK(y)
  BY <1>2, PagesAssumption DEF DetailOK, ReadingInv, Inv, TypeOK
<1>5. LinkOK(y)
  BY DEF LinkOK
<1>6. kept'[q] = {}
  BY <1>1, KeptWhileMoving DEF Transforming
<1>7. TransformOK(y, kept'[q])
  BY <1>6 DEF TransformOK
<1> HIDE DEF y
<1> QED  BY <1>1, <1>3, <1>4, <1>5, <1>7, MovedOK

LEMMA StartsKeepOK ==
  ASSUME ReadingInv, Observe, NEW q \in Readers,
         \/ GetDetail(q) \/ FollowCover(q) \/ FollowPage(q, "image") \/ FollowPage(q, "thumb")
         \/ (\E n \in Numbers : ReadCoverPage(q, n)) \/ BeginTransform(q)
  PROVE  (\E y : Becomes(q, y)) /\ ReaderOK(q)'
<1>1. CASE GetDetail(q)
  BY <1>1, StartedOK DEF GetDetail
<1>2. CASE FollowCover(q)
  <2>1. pageCount \in 1 .. PageLimit /\ mode = "photo"
    BY <1>2, PagesAssumption DEF FollowCover, HasCover, ReadingInv, Inv, TypeOK
  <2>2. CoverPage \in Numbers /\ CoverPage <= pageCount
    BY <2>1, PagesAssumption DEF CoverPage, Numbers
  <2>3. CoverPage \in Rows
    BY <2>2 DEF ReadingInv, Inv, PageOK, Rows
  <2> QED  BY <1>2, <2>1, <2>3, StartedOK DEF FollowCover
<1>3. ASSUME NEW kind \in {"image", "thumb"}, FollowPage(q, kind)
      PROVE  (\E y : Becomes(q, y)) /\ ReaderOK(q)'
  <2>1. PICK n \in DOMAIN reader[q].pages : Start(q, kind, "open", n)
    BY <1>3 DEF FollowPage
  <2>2. reader[q] # Idle
    BY <1>3 DEF FollowPage, Stands, Idle
  <2>3. n \in Rows
    BY <2>1, <2>2 DEF ReadingInv, ReaderOK, WayOK
  <2> QED  BY <1>3, <2>1, <2>3, StartedOK DEF FollowPage
<1>4. CASE \E n \in Numbers : ReadCoverPage(q, n)
  BY <1>4, StartedOK DEF ReadCoverPage
<1>5. CASE BeginTransform(q)
  BY <1>5, StartedOK DEF BeginTransform
<1> QED  BY <1>1, <1>2, <1>3, <1>4, <1>5

\* What is known of a request that has begun.
LEMMA Underway ==
  ASSUME ReadingInv, NEW q \in Readers, reader[q].at # "idle"
  PROVE  /\ WayOK(reader[q]) /\ DetailOK(reader[q]) /\ LinkOK(reader[q])
         /\ TransformOK(reader[q], kept[q])
         /\ reader = [p \in Readers |-> reader[p]]
         /\ Shape(reader[q])
  BY DEF ReadingInv, ReaderOK, WayOK, Idle

\* A counted page is done and has a result.
LEMMA CountedIsDone ==
  ASSUME ReadingInv, NEW n \in Nat, 1 <= n, n <= pageCount
  PROVE  n \in Numbers /\ n \in Rows /\ status[n] = "done" /\ latest[n].status # "pending"
<1>1. pageCount \in 0 .. PageLimit
  BY DEF ReadingInv, Inv, TypeOK
<1>2. n \in Numbers
  BY <1>1, PagesAssumption DEF Numbers
<1>3. PageOK(n)
  BY <1>2 DEF ReadingInv, Inv
<1> QED  BY <1>2, <1>3 DEF PageOK, Rows

LEMMA ListPagesKeepsOK ==
  ASSUME ReadingInv, Observe, NEW q \in Readers, ListPages(q)
  PROVE  (\E y : Becomes(q, y)) /\ ReaderOK(q)'
<1> DEFINE x == reader[q]
           y == With(x, IF Following(q) THEN "found" ELSE "results",
                     ListPagesByDocument, x.results, x.got)
<1>1. x.at = "pages"
  BY DEF ListPages, Stands
<1>2. /\ WayOK(x) /\ DetailOK(x) /\ LinkOK(x)
      /\ Becomes(q, y)
  BY <1>1, Underway, ListPagesBecomes
<1>3. /\ DOMAIN ListPagesByDocument = Rows
      /\ \A n \in Rows : ListPagesByDocument[n] = status[n]
  BY DEF ListPagesByDocument
<1>4. /\ y.at = IF Following(q) THEN "found" ELSE "results"
      /\ y.op = x.op /\ y.want = x.want /\ y.count = x.count
      /\ y.pages = ListPagesByDocument /\ y.results = x.results
      /\ Shape(y)
  BY DEF With, Shape
<1> HIDE DEF x, y
<1>5. WayOK(y)
  BY <1>1, <1>2, <1>3, <1>4 DEF WayOK, Following, x
<1>6. DetailOK(y)
  <2> SUFFICES ASSUME x.op = "detail" PROVE DetailOK(y)
    BY <1>4 DEF DetailOK
  <2>1. x.count \in Nat /\ x.count <= pageCount /\ pageCount \in Nat
    BY <1>2 DEF DetailOK, ReadingInv, Inv, TypeOK
  <2>2. \A n \in 1 .. x.count : n \in Rows /\ status[n] = "done"
    BY <2>1, CountedIsDone
  <2> QED  BY <1>1, <1>2, <1>3, <1>4, <2>1, <2>2 DEF DetailOK, Following, x
<1>7. LinkOK(y)
  BY <1>2, <1>3, <1>4 DEF LinkOK, Following, x
<1>8. TransformOK(y, kept'[q])
  <2> SUFFICES ASSUME x.op = "transform" PROVE TransformOK(y, kept'[q])
    BY <1>4 DEF TransformOK
  <2>1. y.at = "results"
    BY <1>4 DEF Following, x
  <2>2. kept'[q] = {n \in Rows : HasText(latest[n])}
    BY <1>1, <1>2, <1>4, <2>1, KeptWhileMoving DEF Transforming, Stands, x
  <2>3. DOMAIN y.results = {}
    BY <1>1, <1>2, <1>4 DEF WayOK
  <2> QED  BY <1>3, <1>4, <2>1, <2>2, <2>3 DEF TransformOK
<1> QED  BY <1>2, <1>5, <1>6, <1>7, <1>8, MovedOK

\* The result of one page is read, or cannot be.
LEMMA ResultsKeepOK ==
  ASSUME ReadingInv, Observe, NEW q \in Readers, ReadResult(q) \/ SkipResult(q)
  PROVE  (\E y : Becomes(q, y)) /\ ReaderOK(q)'
<1> DEFINE x == reader[q]
           k == NextUnread(q)
<1>1. PICK v : /\ reader' = [reader EXCEPT ![q].results = Extend(@, k, v)]
               /\ v = latest[k] \/ (x.op = "transform" /\ v = Unreadable)
  BY DEF ReadResult, SkipResult, GetLatestOCRResult
<1> DEFINE y == With(x, x.at, x.pages, Extend(x.results, k, v), x.got)
<1>2. x.at = "results" /\ UNCHANGED pageVars
  BY DEF ReadResult, SkipResult, Stands
<1>3. /\ WayOK(x) /\ DetailOK(x) /\ LinkOK(x) /\ TransformOK(x, kept[q])
      /\ Becomes(q, y)
  BY <1>1, <1>2, Underway, ResultsBecome
<1>4. /\ y.at = "results" /\ y.op = x.op /\ y.want = x.want /\ y.count = x.count
      /\ y.pages = x.pages
      /\ DOMAIN y.results = DOMAIN x.results \cup {k}
      /\ \A n \in DOMAIN y.results : y.results[n] = IF n = k THEN v ELSE x.results[n]
      /\ Shape(y)
  BY <1>2 DEF With, Shape, Extend
<1> HIDE DEF x, y, k
<1>5. WayOK(y)
  BY <1>2, <1>3, <1>4 DEF WayOK
<1>6. DetailOK(y)
  <2> SUFFICES ASSUME x.op = "detail" PROVE DetailOK(y)
    BY <1>4 DEF DetailOK
  <2>1. /\ x.count \in Nat /\ x.count <= pageCount /\ pageCount \in Nat
        /\ v = latest[k]
    BY <1>1, <1>3 DEF DetailOK, ReadingInv, Inv, TypeOK
  <2>2. \A n \in 1 .. x.count : n = k => v.status # "pending"
    BY <2>1, CountedIsDone
  <2>3. \A n \in 1 .. x.count : n \in DOMAIN y.results => y.results[n].status # "pending"
    BY <1>3, <1>4, <2>2 DEF DetailOK
  <2> QED  BY <1>2, <1>3, <1>4, <2>1, <2>3 DEF DetailOK
<1>7. LinkOK(y)
  BY <1>2, <1>3, <1>4 DEF LinkOK, WayOK
<1>8. TransformOK(y, kept'[q])
  <2> SUFFICES ASSUME x.op = "transform" PROVE TransformOK(y, kept'[q])
    BY <1>4 DEF TransformOK
  <2>0. Transforming(y) /\ ~Stands(q, "pages")
    BY <1>2, <1>4 DEF Transforming, Stands, x
  <2>1. \A n \in kept'[q] : /\ n \in kept[q] /\ HasText(latest[n])
                            /\ n \in DOMAIN y.results => y.results[n] # Unreadable
    BY <1>3, <2>0, KeptWhileMoving
  <2>2. ASSUME NEW n \in kept'[q], n \in DOMAIN y.results PROVE HasText(y.results[n])
    <3>0. n \in kept[q] /\ HasText(latest[n]) /\ y.results[n] # Unreadable
      BY <2>1, <2>2
    <3>1. CASE n = k
      <4>1. v # Unreadable /\ y.results[n] = v /\ v = latest[n]
        BY <1>1, <1>4, <2>2, <3>0, <3>1
      <4> QED  BY <3>0, <4>1
    <3>2. CASE n # k
      <4>1. y.results[n] = x.results[n] /\ n \in DOMAIN x.results
        BY <1>4, <2>2, <3>2
      <4> QED  BY <1>3, <3>0, <4>1 DEF TransformOK
    <3> QED  BY <3>1, <3>2
  <2>3. y.at = "results" /\ \A n \in kept'[q] : n \in DOMAIN y.pages
    BY <1>3, <1>4, <2>1 DEF TransformOK
  <2> QED  BY <2>1, <2>2, <2>3 DEF TransformOK
<1> QED  BY <1>3, <1>5, <1>6, <1>7, <1>8, MovedOK

LEMMA ListOutputsKeepsOK ==
  ASSUME ReadingInv, Observe, NEW q \in Readers, ListOutputs(q)
  PROVE  (\E y : Becomes(q, y)) /\ ReaderOK(q)'
<1> DEFINE x == reader[q]
           y == With(x, "found", x.pages, x.results, ListOutputsByDocument)
<1>1. x.at = "results" /\ x.op = "detail" /\ DOMAIN x.pages \subseteq DOMAIN x.results
  BY DEF ListOutputs, Stands, Unread
<1>2. WayOK(x) /\ DetailOK(x) /\ Becomes(q, y)
  BY <1>1, Underway, GotBecomes DEF ListOutputs
<1>3. /\ y.at = "found" /\ y.op = "detail" /\ y.count = x.count
      /\ y.pages = x.pages /\ y.results = x.results /\ Shape(y)
  BY <1>1 DEF With, Shape
<1> HIDE DEF x, y
<1>4. WayOK(y)
  BY <1>2, <1>3 DEF WayOK
<1>5. DetailOK(y)
  BY <1>1, <1>2, <1>3 DEF DetailOK
<1>6. LinkOK(y) /\ TransformOK(y, kept'[q])
  BY <1>3 DEF LinkOK, TransformOK
<1> QED  BY <1>2, <1>4, <1>5, <1>6, MovedOK

\* The page of a link is a row, its files were there when it became one, and
\* are still.
LEMMA ServeBlobKeepsOK ==
  ASSUME ReadingInv, Observe, NEW q \in Readers, ServeBlob(q)
  PROVE  (\E y : Becomes(q, y)) /\ ReaderOK(q)'
<1> DEFINE x == reader[q]
           v == IF FindPage(q) THEN BlobOf(x.op, x.want) ELSE Null
           y == With(x, "served", x.pages, x.results, v)
<1>1. x.at = "found" /\ x.op \in {"image", "thumb"}
  BY DEF ServeBlob, Stands, Following
<1>2. WayOK(x) /\ LinkOK(x) /\ Becomes(q, y)
  BY <1>1, Underway, GotBecomes DEF ServeBlob
<1>3. v # Null
  <2>1. /\ mode = "photo" /\ x.want \in Rows /\ FindPage(q)
        /\ x.want \in Numbers
    BY <1>1, <1>2 DEF LinkOK, FindPage, Rows
  <2>2. image[x.want] # Null /\ thumb[x.want] # Null
    BY <2>1 DEF ReadingInv, Inv, PageOK, Rows
  <2> QED  BY <2>1, <2>2 DEF BlobOf
<1>4. /\ y.at = "served" /\ y.op = x.op /\ y.want = x.want /\ y.got = v
      /\ y.pages = x.pages /\ y.results = x.results /\ Shape(y)
  BY DEF With, Shape
<1> HIDE DEF x, y, v
<1>5. WayOK(y)
  BY <1>1, <1>2, <1>4 DEF WayOK
<1>6. LinkOK(y)
  BY <1>1, <1>2, <1>3, <1>4 DEF LinkOK
<1>7. DetailOK(y) /\ TransformOK(y, kept'[q])
  BY <1>1, <1>4 DEF DetailOK, TransformOK
<1> QED  BY <1>2, <1>5, <1>6, <1>7, MovedOK

\* Links are followed, and transforms go on, with what they hold.
LEMMA GoingKeepsOK ==
  ASSUME ReadingInv, Observe, NEW q \in Readers, NEW stage,
         Goes(q, stage), UNCHANGED pageVars, reader[q].at # "idle",
         \/ reader[q].at = "open" /\ stage = "pages"
         \/ /\ reader[q].op = "transform" /\ reader[q].at # "pages"
            /\ stage \in {"ask", "store", "stored"}
            /\ reader[q].at = "results" => Unread(q) = {}
  PROVE  (\E y : Becomes(q, y)) /\ ReaderOK(q)'
<1> DEFINE x == reader[q]
           y == With(x, stage, x.pages, x.results, x.got)
<1>1. /\ WayOK(x) /\ DetailOK(x) /\ LinkOK(x) /\ TransformOK(x, kept[q])
      /\ Becomes(q, y)
  BY Underway, GoesBecomes
<1>2. /\ y.at = stage /\ y.op = x.op /\ y.want = x.want /\ y.count = x.count /\ y.got = x.got
      /\ y.pages = x.pages /\ y.results = x.results /\ Shape(y)
  BY DEF With, Shape
<1>3. x.at = "results" /\ stage # "pages" => DOMAIN x.pages \subseteq DOMAIN x.results
  BY DEF Unread
<1>4. CASE x.at = "open" /\ stage = "pages"
  <2>1. x.op \in {"image", "thumb"} /\ DOMAIN x.results = {}
    BY <1>1, <1>4 DEF WayOK
  <2> HIDE DEF x, y
  <2>2. WayOK(y) /\ DetailOK(y) /\ LinkOK(y) /\ TransformOK(y, kept'[q])
    BY <1>1, <1>2, <1>4, <2>1 DEF WayOK, DetailOK, LinkOK, TransformOK
  <2> QED  BY <1>1, <2>2, MovedOK
<1>5. CASE x.op = "transform" /\ x.at # "pages" /\ stage \in {"ask", "store", "stored"}
  <2>1. kept'[q] \subseteq kept[q]
    BY <1>1, <1>2, <1>5, KeptWhileMoving DEF Transforming, Stands
  <2>2. x.at \in {"results", "ask", "store", "stored"}
    BY <1>1, <1>5 DEF WayOK
  <2> HIDE DEF x, y
  <2>3. WayOK(y) /\ DetailOK(y) /\ LinkOK(y)
    BY <1>1, <1>2, <1>5 DEF WayOK, DetailOK, LinkOK
  <2>4. kept[q] \subseteq DOMAIN x.results
    BY <1>1, <1>3, <1>5, <2>2 DEF TransformOK
  <2>5. TransformOK(y, kept'[q])
    BY <1>1, <1>2, <1>5, <2>1, <2>4 DEF TransformOK
  <2> QED  BY <1>1, <2>3, <2>5, MovedOK
<1> QED  BY <1>4, <1>5

LEMMA LeavingKeepsOK ==
  ASSUME ReadingInv, NEW q \in Readers, Leaves(q), UNCHANGED pageVars
  PROVE  (\E y : Becomes(q, y)) /\ ReaderOK(q)'
<1>1. Becomes(q, Idle)
  BY BecomesIt DEF ReadingInv, Leaves
<1> QED  BY <1>1 DEF Becomes, ReaderOK, Idle

\* Every step of a reader.
LEMMA ReadStepKeepsOK ==
  ASSUME ReadingInv, Observe, NEW q \in Readers, ReadStep(q)
  PROVE  (\E y : Becomes(q, y)) /\ ReaderOK(q)'
<1>1. CASE \/ GetDetail(q) \/ FollowCover(q) \/ FollowPage(q, "image") \/ FollowPage(q, "thumb")
           \/ (\E n \in Numbers : ReadCoverPage(q, n)) \/ BeginTransform(q)
  BY <1>1, StartsKeepOK
<1>2. CASE ListPages(q)
  BY <1>2, ListPagesKeepsOK
<1>3. CASE ReadResult(q) \/ SkipResult(q)
  BY <1>3, ResultsKeepOK
<1>4. CASE ListOutputs(q)
  BY <1>4, ListOutputsKeepsOK
<1>5. CASE ServeBlob(q)
  BY <1>5, ServeBlobKeepsOK
<1>6. CASE OpenPage(q)
  BY <1>6, GoingKeepsOK DEF OpenPage, Stands
<1>7. CASE Collect(q)
  BY <1>7, GoingKeepsOK, LeavingKeepsOK DEF Collect, Stands
<1>8. CASE AskModel(q)
  <2>1. reader[q].op = "transform"
    BY <1>8, Underway DEF AskModel, Stands, WayOK
  <2> QED  BY <1>8, <2>1, GoingKeepsOK, LeavingKeepsOK DEF AskModel, Stands
<1>9. CASE StoreOutput(q)
  <2>1. reader[q].op = "transform"
    BY <1>9, Underway DEF StoreOutput, Stands, WayOK
  <2> QED  BY <1>9, <2>1, GoingKeepsOK DEF StoreOutput, Stands
<1>10. CASE SetThumbnail(q) \/ Leave(q)
  BY <1>10, LeavingKeepsOK DEF SetThumbnail, Leave
<1> QED
  BY <1>1, <1>2, <1>3, <1>4, <1>5, <1>6, <1>7, <1>8, <1>9, <1>10 DEF ReadStep

-----------------------------------------------------------------------------
(* Results *)

LEMMA ReadingInvariance == ReadingSpec => []ReadingInv
<1>1. ReadingInit => ReadingInv
  BY InitInv DEF ReadingInit, ReadingInv, ReaderOK
<1>2. ReadingInv /\ [ReadingNext]_readingVars => ReadingInv'
  <2> SUFFICES ASSUME ReadingInv, [ReadingNext]_readingVars PROVE ReadingInv'
    OBVIOUS
  <2>1. Inv' /\ Grown
    BY PagesStep, StepKeepsInv, PagesGrow DEF ReadingInv
  <2>2. ASSUME Observe, UNCHANGED reader PROVE ReadingInv'
    BY <2>1, <2>2, RestingStaysOK DEF ReadingInv
  <2>3. ASSUME Observe, NEW q \in Readers, ReadStep(q) PROVE ReadingInv'
    <3>1. PICK y : Becomes(q, y)
      BY <2>3, ReadStepKeepsOK
    <3>2. ReaderOK(q)'
      BY <2>3, ReadStepKeepsOK
    <3>3. \A p \in Readers : p # q => ReaderOK(p)'
      BY <2>1, <2>3, <3>1, RestingStaysOK DEF Becomes, ReadingInv
    <3> QED  BY <2>1, <3>1, <3>2, <3>3 DEF Becomes, ReadingInv
  <2>4. CASE UNCHANGED readingVars
    <3>1. UNCHANGED <<reader, kept, pageVars>>
      BY <2>4 DEF readingVars, readVars
    <3> QED
      BY <2>1, <3>1 DEF ReadingInv, ReaderOK, WayOK, DetailOK, LinkOK, TransformOK, Shape,
         HasText, Rows, pageVars, store
  <2> QED  BY <2>2, <2>3, <2>4 DEF ReadingNext
<1> QED  BY <1>1, <1>2, PTL DEF ReadingSpec

\* The detail of a document that is being uploaded is never torn: what its row
\* counts is there, done and transcribed.
THEOREM DetailsAreConsistent == ReadingSpec => []DetailShowsCountedPages
<1>1. ReadingInv => DetailShowsCountedPages
  <2> SUFFICES ASSUME ReadingInv, NEW q \in Readers, Stands(q, "found"), reader[q].op = "detail",
                      NEW n \in 1 .. reader[q].count
               PROVE  /\ n \in DOMAIN reader[q].pages
                      /\ reader[q].pages[n] = "done"
                      /\ reader[q].results[n].status # "pending"
    BY DEF DetailShowsCountedPages
  <2> QED  BY Underway DEF Stands, DetailOK
<1> QED  BY <1>1, ReadingInvariance, PTL

\* Whoever follows a link once shown is served a file.
THEOREM LinksAreGood == ReadingSpec => []LinksLeadToFiles
<1>1. ReadingInv => LinksLeadToFiles
  <2> SUFFICES ASSUME ReadingInv, NEW q \in Readers, Stands(q, "served")
               PROVE  reader[q].got # Null
    BY DEF LinksLeadToFiles
  <2> QED  BY Underway DEF Stands, WayOK, LinkOK
<1> QED  BY <1>1, ReadingInvariance, PTL

\* No text that could be read is missing from an output.
THEOREM OutputsAreComplete == ReadingSpec => []OutputsHoldTheText
<1>1. ReadingInv => OutputsHoldTheText
  <2> SUFFICES ASSUME ReadingInv, NEW q \in Readers, Stands(q, "stored")
               PROVE  kept[q] \subseteq DOMAIN Texts(q)
    BY DEF OutputsHoldTheText
  <2>1. WayOK(reader[q]) /\ TransformOK(reader[q], kept[q])
    BY Underway DEF Stands
  <2>2. \A n \in kept[q] : n \in DOMAIN reader[q].results /\ HasText(reader[q].results[n])
    BY <2>1 DEF Stands, WayOK, TransformOK
  <2> QED  BY <2>2 DEF Texts
<1> QED  BY <1>1, ReadingInvariance, PTL

-----------------------------------------------------------------------------
(* Type correctness *)

Statuses == {"processing", "done", "failed"}

ReadStages == {"pages", "results", "found", "open", "served", "pick", "ask", "store", "stored"}

Typed(x, made) ==
  /\ x.at \in ReadStages
  /\ x.op \in {"detail", "image", "thumb", "cover", "transform"}
  /\ x.want \in Numbers
  /\ x.count \in 0 .. PageLimit
  /\ x.pages \in SomePages(Statuses)
  /\ x.results \in SomePages(Result \cup {Unreadable})
  /\ x.got \in Files \cup SUBSET made

TypedInv ==
  /\ cover \in Numbers
  /\ outputs \subseteq SUBSET Numbers /\ Cardinality(outputs) <= OutputLimit
  /\ kept \in [Readers -> SUBSET Numbers]
  /\ \A q \in Readers : reader[q] # Idle => Typed(reader[q], outputs)

\* Texts and states of some of the pages.
LEMMA SomePagesAre ==
  ASSUME NEW V, NEW f
  PROVE  /\ f \in SomePages(V) => f \in [DOMAIN f -> V] /\ DOMAIN f \subseteq Numbers
         /\ \A S \in SUBSET Numbers : f \in [S -> V] => f \in SomePages(V)
  BY DEF SomePages

\* There is a next page as long as one is unread.
LEMMA NextUnreadIs ==
  ASSUME NEW q \in Readers, Unread(q) \subseteq Numbers, Unread(q) # {}
  PROVE  NextUnread(q) \in Unread(q)
<1> DEFINE T == Unread(q)
<1>1. T \subseteq Nat /\ T # {}
  BY PagesAssumption DEF Numbers
<1> HIDE DEF T
<1>2. PICK n \in T : \A m \in T : ~ (<<m, n>> \in OpToRel(<, Nat))
  BY <1>1, WFMin, NatLessThanWellFounded
<1>3. \A m \in T : n <= m
  <2> SUFFICES ASSUME NEW m \in T, ~ (n <= m) PROVE FALSE
    OBVIOUS
  <2>1. m \in Nat /\ n \in Nat
    BY <1>1
  <2>2. m < n
    BY <2>1
  <2>3. <<m, n>> \in OpToRel(<, Nat)
    BY <2>1, <2>2 DEF OpToRel
  <2> QED  BY <1>2, <2>3
<1> QED  BY <1>2, <1>3 DEF NextUnread, T

\* An output more is a set of outputs still.
LEMMA OutputStored ==
  ASSUME TypedInv, NEW S \in SUBSET Numbers, Cardinality(outputs) < OutputLimit,
         CreateOutput(S)
  PROVE  outputs' \subseteq SUBSET Numbers /\ Cardinality(outputs') <= OutputLimit
<1>1. IsFiniteSet(Numbers)
  BY PagesAssumption, FS_Interval DEF Numbers
<1>2. IsFiniteSet(outputs)
  BY <1>1, FS_SUBSET, FS_Subset DEF TypedInv
<1>3. Cardinality(outputs) \in Nat
  BY <1>2, FS_CardinalityType
<1>4. outputs' = outputs \cup {S}
  BY DEF CreateOutput
<1>5. Cardinality(outputs') <= Cardinality(outputs) + 1
  BY <1>2, <1>3, <1>4, FS_AddElement
<1>6. Cardinality(outputs') \in Nat
  BY <1>2, <1>4, FS_AddElement, FS_CardinalityType
<1> QED  BY <1>3, <1>4, <1>5, <1>6, ReadingAssumption DEF TypedInv

\* A request of which these parts change.
LEMMA WithTyped ==
  ASSUME NEW x, NEW made, Typed(x, made), NEW stage \in ReadStages,
         NEW ps \in SomePages(Statuses), NEW rs \in SomePages(Result \cup {Unreadable}),
         NEW v \in Files \cup SUBSET made
  PROVE  Typed(With(x, stage, ps, rs, v), made)
  BY DEF Typed, With

\* What was read stays of its type when outputs are added.
LEMMA TypedStill ==
  ASSUME NEW x, NEW made, NEW more, made \subseteq more, Typed(x, made)
  PROVE  Typed(x, more)
  BY DEF Typed

\* A request that begins.
LEMMA StartTyped ==
  ASSUME ReadingInv, NEW q \in Readers,
         NEW op \in {"detail", "image", "thumb", "cover", "transform"},
         NEW stage \in {"pages", "open", "pick"}, NEW n \in Numbers,
         Start(q, op, stage, n), UNCHANGED pageVars
  PROVE  Typed(reader'[q], outputs)
<1> DEFINE c == IF op = "detail" THEN pageCount ELSE 0
           y == [at |-> stage, op |-> op, want |-> n, count |-> c,
                 pages |-> << >>, results |-> << >>, got |-> Null]
<1>1. reader'[q] = y
  BY StartBecomes DEF ReadingInv, Becomes
<1>2. << >> \in [{} -> Statuses] /\ << >> \in [{} -> Result \cup {Unreadable}]
  OBVIOUS
<1>3. << >> \in SomePages(Statuses) /\ << >> \in SomePages(Result \cup {Unreadable})
  BY <1>2, SomePagesAre
<1>4. c \in 0 .. PageLimit
  BY PagesAssumption DEF ReadingInv, Inv, TypeOK
<1> HIDE DEF c
<1>5. Typed(y, outputs)
  BY <1>3, <1>4 DEF Typed, Files, ReadStages
<1> QED  BY <1>1, <1>5

LEMMA StartsTyped ==
  ASSUME ReadingInv, TypedInv, NEW q \in Readers,
         \/ GetDetail(q) \/ FollowCover(q) \/ FollowPage(q, "image") \/ FollowPage(q, "thumb")
         \/ (\E n \in Numbers : ReadCoverPage(q, n)) \/ BeginTransform(q)
  PROVE  Typed(reader'[q], outputs)
<1>0. 1 \in Numbers
  BY PagesAssumption DEF Numbers
<1>1. CASE GetDetail(q) \/ BeginTransform(q)
  BY <1>0, <1>1, StartTyped DEF GetDetail, BeginTransform
<1>2. CASE FollowCover(q)
  <2>1. CoverPage \in Numbers
    BY <1>0 DEF CoverPage, TypedInv
  <2> QED  BY <1>2, <2>1, StartTyped DEF FollowCover
<1>3. ASSUME NEW kind \in {"image", "thumb"}, FollowPage(q, kind)
      PROVE  Typed(reader'[q], outputs)
  <2>1. PICK n \in DOMAIN reader[q].pages : Start(q, kind, "open", n)
    BY <1>3 DEF FollowPage
  <2>2. n \in Numbers
    BY <1>3, Underway DEF FollowPage, Stands, WayOK, Rows
  <2> QED  BY <1>3, <2>1, <2>2, StartTyped DEF FollowPage
<1>4. CASE \E n \in Numbers : ReadCoverPage(q, n)
  BY <1>4, StartTyped DEF ReadCoverPage
<1> QED  BY <1>1, <1>2, <1>3, <1>4

\* A request that reads.
LEMMA ReadsTyped ==
  ASSUME ReadingInv, TypedInv, NEW q \in Readers, reader[q].at # "idle",
         ListPages(q) \/ ReadResult(q) \/ SkipResult(q) \/ ListOutputs(q) \/ ServeBlob(q)
  PROVE  Typed(reader'[q], outputs)
<1> DEFINE x == reader[q]
<1>1. Typed(x, outputs) /\ Shape(x) /\ reader = [p \in Readers |-> reader[p]]
  BY Underway DEF TypedInv, Idle
<1>2. /\ x.at \in ReadStages /\ x.want \in Numbers
      /\ x.pages \in SomePages(Statuses)
      /\ x.results \in SomePages(Result \cup {Unreadable})
      /\ x.got \in Files \cup SUBSET outputs
  BY <1>1 DEF Typed
<1>3. CASE ListPages(q)
  <2> DEFINE stage == IF Following(q) THEN "found" ELSE "results"
  <2>1. reader'[q] = With(x, stage, ListPagesByDocument, x.results, x.got)
    BY <1>1, <1>3, ListPagesBecomes DEF Becomes
  <2>2. Rows \in SUBSET Numbers /\ ListPagesByDocument \in [Rows -> Statuses]
    BY DEF ReadingInv, Inv, TypeOK, Rows, ListPagesByDocument, Statuses
  <2>3. ListPagesByDocument \in SomePages(Statuses)
    BY <2>2, SomePagesAre
  <2>4. stage \in ReadStages
    BY DEF ReadStages
  <2> HIDE DEF stage, x
  <2>5. Typed(With(x, stage, ListPagesByDocument, x.results, x.got), outputs)
    BY <1>1, <1>2, <2>3, <2>4, WithTyped
  <2> QED  BY <2>1, <2>5
<1>4. CASE ReadResult(q) \/ SkipResult(q)
  <2> DEFINE k == NextUnread(q)
  <2>1. PICK v : /\ reader' = [reader EXCEPT ![q].results = Extend(@, k, v)]
                 /\ v = latest[k] \/ v = Unreadable
    BY <1>4 DEF ReadResult, SkipResult, GetLatestOCRResult
  <2>2. UNCHANGED pageVars /\ Unread(q) # {}
    BY <1>4 DEF ReadResult, SkipResult
  <2>3. reader'[q] = With(x, x.at, x.pages, Extend(x.results, k, v), x.got)
    BY <1>1, <2>1, <2>2, ResultsBecome DEF Becomes
  <2>4. k \in Numbers
    <3>1. Unread(q) \subseteq Numbers
      BY <1>2, SomePagesAre DEF Unread
    <3> QED  BY <2>2, <3>1, NextUnreadIs
  <2>5. v \in Result \cup {Unreadable}
    BY <2>1, <2>4 DEF ReadingInv, Inv, TypeOK
  <2>6. /\ x.results \in [DOMAIN x.results -> Result \cup {Unreadable}]
        /\ DOMAIN x.results \subseteq Numbers
    BY <1>2, SomePagesAre
  <2> HIDE DEF k, x
  <2>7. Extend(x.results, k, v) \in [DOMAIN x.results \cup {k} -> Result \cup {Unreadable}]
    BY <2>5, <2>6 DEF Extend
  <2>8. DOMAIN x.results \cup {k} \in SUBSET Numbers
    BY <2>4, <2>6
  <2>9. Extend(x.results, k, v) \in SomePages(Result \cup {Unreadable})
    BY <2>7, <2>8, SomePagesAre
  <2>10. Typed(With(x, x.at, x.pages, Extend(x.results, k, v), x.got), outputs)
    BY <1>1, <1>2, <2>9, WithTyped
  <2> QED  BY <2>3, <2>10
<1>5. CASE ListOutputs(q)
  <2> DEFINE v == ListOutputsByDocument
             stage == "found"
  <2>1. UNCHANGED pageVars /\ reader' = [reader EXCEPT ![q].at = stage, ![q].got = v]
    BY <1>5 DEF ListOutputs
  <2>2. v \in Files \cup SUBSET outputs /\ stage \in ReadStages
    BY DEF ListOutputsByDocument, ReadStages
  <2> HIDE DEF v, stage
  <2>3. Becomes(q, With(x, stage, x.pages, x.results, v))
    BY <1>1, <2>1, GotBecomes
  <2>4. reader'[q] = With(x, stage, x.pages, x.results, v)
    BY <2>3 DEF Becomes
  <2> HIDE DEF x
  <2>5. v \in Files \cup SUBSET outputs
    BY <2>2
  <2>6. Typed(With(x, stage, x.pages, x.results, v), outputs)
    BY <1>1, <1>2, <2>2, <2>5, WithTyped
  <2> QED  BY <2>4, <2>6
<1>6. CASE ServeBlob(q)
  <2> DEFINE v == IF FindPage(q) THEN BlobOf(x.op, x.want) ELSE Null
             stage == "served"
  <2>1. UNCHANGED pageVars /\ reader' = [reader EXCEPT ![q].at = stage, ![q].got = v]
    BY <1>6 DEF ServeBlob
  <2>2. v \in Files /\ stage \in ReadStages
    BY <1>2 DEF BlobOf, Files, ReadingInv, Inv, TypeOK, ReadStages
  <2> HIDE DEF v, stage
  <2>3. Becomes(q, With(x, stage, x.pages, x.results, v))
    BY <1>1, <2>1, GotBecomes
  <2>4. reader'[q] = With(x, stage, x.pages, x.results, v)
    BY <2>3 DEF Becomes
  <2> HIDE DEF x
  <2>5. v \in Files \cup SUBSET outputs
    BY <2>2
  <2>6. Typed(With(x, stage, x.pages, x.results, v), outputs)
    BY <1>1, <1>2, <2>2, <2>5, WithTyped
  <2> QED  BY <2>4, <2>6
<1> QED  BY <1>3, <1>4, <1>5, <1>6

\* A request that goes to another stage with what it has, or is over.
LEMMA GoesTyped ==
  ASSUME ReadingInv, TypedInv, NEW q \in Readers, reader[q].at # "idle",
         NEW stage \in ReadStages, Goes(q, stage), UNCHANGED pageVars
  PROVE  Typed(reader'[q], outputs)
<1> DEFINE x == reader[q]
<1>1. Typed(x, outputs) /\ Shape(x) /\ reader = [p \in Readers |-> reader[p]]
  BY Underway DEF TypedInv, Idle
<1>2. /\ x.pages \in SomePages(Statuses)
      /\ x.results \in SomePages(Result \cup {Unreadable})
      /\ x.got \in Files \cup SUBSET outputs
  BY <1>1 DEF Typed
<1>3. reader'[q] = With(x, stage, x.pages, x.results, x.got)
  BY <1>1, GoesBecomes DEF Becomes
<1> HIDE DEF x
<1>4. Typed(With(x, stage, x.pages, x.results, x.got), outputs)
  BY <1>1, <1>2, WithTyped
<1> QED  BY <1>3, <1>4

LEMMA LeavesIdle ==
  ASSUME ReadingInv, NEW q \in Readers, Leaves(q)
  PROVE  reader'[q] = Idle
  BY DEF ReadingInv, Leaves

\* The texts of an output are of pages of the document.
LEMMA TextsOfPages ==
  ASSUME TypedInv, NEW q \in Readers, reader[q] # Idle
  PROVE  DOMAIN Texts(q) \in SUBSET Numbers
<1>1. reader[q].results \in SomePages(Result \cup {Unreadable})
  BY DEF TypedInv, Typed
<1>2. DOMAIN reader[q].results \subseteq Numbers
  BY <1>1, SomePagesAre
<1>3. DOMAIN Texts(q) \subseteq DOMAIN reader[q].results
  BY DEF Texts
<1> QED  BY <1>2, <1>3

\* What one request does to what it holds, to the cover and to the outputs.
StepTyped(q) ==
  /\ reader'[q] # Idle => Typed(reader'[q], outputs)
  /\ cover' \in Numbers
  /\ outputs \subseteq outputs'
  /\ outputs' \subseteq SUBSET Numbers /\ Cardinality(outputs') <= OutputLimit

LEMMA ReadStepTyped ==
  ASSUME ReadingInv, TypedInv, NEW q \in Readers, ReadStep(q)
  PROVE  StepTyped(q)
<1> USE DEF StepTyped
<1>0. /\ cover \in Numbers
      /\ outputs \subseteq SUBSET Numbers /\ Cardinality(outputs) <= OutputLimit
  BY DEF TypedInv
<1>1. CASE \/ GetDetail(q) \/ FollowCover(q) \/ FollowPage(q, "image") \/ FollowPage(q, "thumb")
           \/ (\E n \in Numbers : ReadCoverPage(q, n)) \/ BeginTransform(q)
  <2>1. UNCHANGED <<cover, outputs>>
    BY <1>1 DEF GetDetail, FollowCover, FollowPage, ReadCoverPage, BeginTransform
  <2> QED  BY <1>0, <1>1, <2>1, StartsTyped
<1>2. CASE ListPages(q) \/ ReadResult(q) \/ SkipResult(q) \/ ListOutputs(q) \/ ServeBlob(q)
  <2>1. UNCHANGED <<cover, outputs>> /\ reader[q].at # "idle"
    BY <1>2 DEF ListPages, ReadResult, SkipResult, ListOutputs, ServeBlob, Stands
  <2> QED  BY <1>0, <1>2, <2>1, ReadsTyped
<1>3. CASE OpenPage(q) \/ Collect(q) \/ AskModel(q)
  <2>1. UNCHANGED <<cover, outputs>> /\ UNCHANGED pageVars /\ reader[q].at # "idle"
    BY <1>3 DEF OpenPage, Collect, AskModel, Stands
  <2>2. Leaves(q) \/ \E stage \in ReadStages : Goes(q, stage)
    BY <1>3 DEF OpenPage, Collect, AskModel, ReadStages
  <2> QED  BY <1>0, <2>1, <2>2, GoesTyped, LeavesIdle
<1>4. CASE StoreOutput(q)
  <2>1. UNCHANGED <<cover, pageVars>> /\ reader[q].at # "idle" /\ Goes(q, "stored")
    BY <1>4 DEF StoreOutput, Stands
  <2>2. Typed(reader'[q], outputs)
    BY <2>1, GoesTyped DEF ReadStages
  <2>3. DOMAIN Texts(q) \in SUBSET Numbers
    BY <2>1, TextsOfPages DEF Idle
  <2>4. CreateOutput(DOMAIN Texts(q)) /\ Cardinality(outputs) < OutputLimit
    BY <1>4 DEF StoreOutput
  <2>5. outputs' \subseteq SUBSET Numbers /\ Cardinality(outputs') <= OutputLimit
    BY <2>3, <2>4, OutputStored
  <2>6. outputs \subseteq outputs'
    BY <2>4 DEF CreateOutput
  <2> QED  BY <1>0, <2>1, <2>2, <2>5, <2>6
<1>5. CASE SetThumbnail(q)
  <2>1. reader[q].want \in Numbers
    BY <1>5 DEF SetThumbnail, Stands, Idle, TypedInv, Typed
  <2> QED  BY <1>0, <1>5, <2>1, LeavesIdle DEF SetThumbnail, SetDocumentThumbPage
<1>6. CASE Leave(q)
  BY <1>0, <1>6, LeavesIdle DEF Leave
<1> QED  BY <1>1, <1>2, <1>3, <1>4, <1>5, <1>6 DEF ReadStep

LEMMA KeptTyped ==
  ASSUME TypedInv, Observe
  PROVE  kept' \in [Readers -> SUBSET Numbers]
<1> DEFINE k(q) == IF ~Transforming(reader'[q]) THEN {}
                   ELSE IF Stands(q, "pages") THEN {n \in Rows : HasText(latest[n])}
                   ELSE {n \in kept[q] :
                           /\ HasText(latest'[n])
                           /\ n \in DOMAIN reader'[q].results
                                => reader'[q].results[n] # Unreadable}
<1>1. kept' = [q \in Readers |-> k(q)]
  BY DEF Observe
<1>2. \A q \in Readers : k(q) \subseteq Numbers
  BY DEF TypedInv, Rows
<1> HIDE DEF k
<1> QED  BY <1>1, <1>2

LEMMA TypedInvariance == ReadingSpec => []TypedInv
<1>1. ReadingInit => TypedInv
  <2> SUFFICES ASSUME ReadingInit PROVE TypedInv
    OBVIOUS
  <2>1. 1 \in Numbers /\ Cardinality({}) = 0
    BY PagesAssumption, FS_EmptySet DEF Numbers
  <2>2. cover = 1 /\ outputs = {} /\ kept \in [Readers -> SUBSET Numbers]
    BY DEF ReadingInit
  <2>3. \A q \in Readers : reader[q] = Idle
    BY DEF ReadingInit
  <2> QED  BY <2>1, <2>2, <2>3, ReadingAssumption DEF TypedInv
<1>2. ReadingInv /\ TypedInv /\ [ReadingNext]_readingVars => TypedInv'
  <2> SUFFICES ASSUME ReadingInv, TypedInv, [ReadingNext]_readingVars PROVE TypedInv'
    OBVIOUS
  <2>1. CASE UNCHANGED readingVars
    BY <2>1 DEF readingVars, readVars, TypedInv, Typed, Files, SomePages
  <2>2. ASSUME Observe, UNCHANGED <<cover, outputs, reader>> PROVE TypedInv'
    <3>1. kept' \in [Readers -> SUBSET Numbers]
      BY <2>2, KeptTyped
    <3> QED  BY <2>2, <3>1 DEF TypedInv, Typed
  <2>3. ASSUME Observe, NEW q \in Readers, ReadStep(q) PROVE TypedInv'
    <3>1. StepTyped(q) /\ kept' \in [Readers -> SUBSET Numbers]
      BY <2>3, ReadStepTyped, KeptTyped
    <3>2. PICK y : Becomes(q, y)
      BY <2>3, ReadStepKeepsOK
    <3>3. \A p \in Readers : reader'[p] # Idle => Typed(reader'[p], outputs)
      BY <3>1, <3>2 DEF Becomes, StepTyped, TypedInv
    <3>4. \A p \in Readers : reader'[p] # Idle => Typed(reader'[p], outputs')
      BY <3>1, <3>3, TypedStill DEF StepTyped
    <3> QED  BY <3>1, <3>4 DEF TypedInv, StepTyped
  <2> QED  BY <2>1, <2>2, <2>3 DEF ReadingNext
<1> QED  BY <1>1, <1>2, ReadingInvariance, PTL DEF ReadingSpec

\* Requests hold what they are taken to hold, whoever writes meanwhile: pages
\* of the document, their results, a file or outputs that exist, and no more
\* outputs than explored.
THEOREM ReadingTypes == ReadingSpec => []ReadingTypeOK
<1>1. ReadingInv /\ TypedInv => ReadingTypeOK
  <2> SUFFICES ASSUME ReadingInv, TypedInv PROVE ReadingTypeOK
    OBVIOUS
  <2> DEFINE Requested ==
        [at : ReadStages, op : {"detail", "image", "thumb", "cover", "transform"}, want : Numbers,
         count : 0 .. PageLimit, pages : SomePages(Statuses),
         results : SomePages(Result \cup {Unreadable}), got : Files \cup SUBSET outputs]
  <2>1. ASSUME NEW q \in Readers, reader[q] # Idle PROVE reader[q] \in Requested
    <3> DEFINE x == reader[q]
    <3>1. Shape(x) /\ Typed(x, outputs)
      BY <2>1 DEF ReadingInv, ReaderOK, WayOK, TypedInv
    <3> HIDE DEF x
    <3>2. x \in Requested
      BY <3>1 DEF Shape, Typed
    <3> QED  BY <3>2 DEF x
  <2> HIDE DEF Requested
  <2>2. reader \in [Readers -> {Idle} \cup Requested]
    BY <2>1 DEF ReadingInv
  <2> QED  BY <2>2 DEF ReadingTypeOK, TypedInv, Requested, ReadStages, Statuses
<1> QED  BY <1>1, ReadingInvariance, TypedInvariance, PTL
=============================================================================
