---------------------------- MODULE CaptureProofs ----------------------------
(***************************************************************************)
(* Done tiles are pages of the document, and a retried upload becomes one  *)
(* page unless the app gave up on it, for any number of photographs and of *)
(* calls that overlap.                                                     *)
(***************************************************************************)
EXTENDS Capture, SequenceTheorems, TLAPS

(***************************************************************************)
(* Neither property is inductive.  What a retry rests on is that the tile  *)
(* of an upload that failed, and whose answer arrived, has no page, or     *)
(* that the page it left behind blocks the document for good (Open).  What *)
(* makes the upload of a tile the only one is that a tile whose call is    *)
(* waited for is not failed, so that it has no button.                     *)
(***************************************************************************)
InApp(r) == call[r].at \in {"sending", "sent", "stored", "answered"}
Uploading(r) == InApp(r) /\ call[r].op = "upload"
Shot(r) == tiles[call[r].tile].shot

\* A page that failed is in the way of every later one.
Blocked == owner = Nobody /\ DOMAIN pages # 1 .. counted

NotStored(i) == \A n \in DOMAIN pages : pages[n] # i

Open(i) == i \in given \/ NotStored(i) \/ Blocked

NumberingOK ==
  /\ counted \in Nat
  /\ DOMAIN pages = 1 .. counted \/ DOMAIN pages = 1 .. (counted + 1)
  /\ DOMAIN pages \subseteq 1 .. Last
  /\ owner # Nobody => DOMAIN pages = 1 .. (counted + 1)

PagesAreOfTiles ==
  \A n \in DOMAIN pages : pages[n] # Foreign => \E k \in Indices : pages[n] = tiles[k].shot

TilesDiffer == \A j, k \in Indices : tiles[j].shot = tiles[k].shot => j = k

FailedTilesAreOpen == \A k \in Indices : tiles[k].status = "failed" => Open(tiles[k].shot)

UploadHolds(r) ==
  /\ call[r].waits => /\ tiles[call[r].tile].status # "failed"
                      /\ call[r].tile \notin mixedUp => tiles[call[r].tile].status = "uploading"
  /\ ~call[r].waits => Shot(r) \in given
  /\ Calls(r, "sending") \/ Calls(r, "sent") => Open(Shot(r))
  /\ Calls(r, "answered") /\ call[r].result = Failure => Open(Shot(r))
  /\ Calls(r, "answered") /\ call[r].result # Failure =>
       call[r].result \in 1 .. counted /\ pages[call[r].result] = Shot(r)

CallHolds(r) ==
  /\ InApp(r) => call[r].tile \in Indices
  /\ Calls(r, "sending") => call[r].waits
  /\ Calls(r, "stored") => /\ call[r].op = "upload" /\ owner = r
                           /\ pages[counted + 1] = Shot(r)
  /\ Uploading(r) => UploadHolds(r)
  /\ InApp(r) /\ call[r].op = "rerun" /\ call[r].tile \notin mixedUp =>
       tiles[call[r].tile].status = "done"

OneCallPerTile ==
  \A r, s \in Uploads :
    /\ Uploading(r) /\ call[r].waits /\ Uploading(s) /\ call[s].waits
    /\ call[r].tile = call[s].tile
    => r = s

CaptureInv ==
  /\ CaptureTypeOK
  /\ NumberingOK
  /\ PagesAreOfTiles
  /\ TilesDiffer
  /\ FailedTilesAreOpen
  /\ \A r \in Uploads : CallHolds(r)
  /\ OneCallPerTile
  /\ DoneTilesAreStored
  /\ RetriesStoreOnce

-----------------------------------------------------------------------------
(* Records and sequences *)

USE CaptureAssumption

\* The fields of a call.
LEMMA CallFields ==
  ASSUME CaptureTypeOK, NEW r \in Uploads
  PROVE  /\ InApp(r) => /\ call[r] \in CallOfTheApp
                        /\ call[r].op \in {"upload", "rerun"}
                        /\ call[r].waits \in BOOLEAN
                        /\ call[r].tile \in 1 .. TileLimit
                        /\ call[r].number \in 1 .. TileLimit \cup 1 .. Last
                        /\ call[r].result \in 0 .. Last
         /\ call[r].waits => InApp(r)
         /\ ~Calls(r, "none") /\ ~Calls(r, "foreign") => InApp(r)
  <1>1. call[r] \in {NoCall, ForeignCall} \cup CallOfTheApp
    BY DEF CaptureTypeOK
  <1>2. CASE call[r] = NoCall \/ call[r] = ForeignCall
    BY <1>2 DEF NoCall, ForeignCall, InApp, Calls
  <1>3. CASE call[r] \in CallOfTheApp
    BY <1>3 DEF CallOfTheApp, InApp
  <1>4. QED
    BY <1>1, <1>2, <1>3

\* A call that is answered, or moves on, or is not waited for any more.
LEMMA CallMoves ==
  ASSUME NEW c \in CallOfTheApp, NEW v \in 0 .. Last
  PROVE  /\ [[c EXCEPT !.at = "answered"] EXCEPT !.result = v] \in CallOfTheApp
         /\ [c EXCEPT !.at = "sent"] \in CallOfTheApp
         /\ [[c EXCEPT !.at = "sending"] EXCEPT !.replayed = TRUE] \in CallOfTheApp
         /\ [c EXCEPT !.at = "stored"] \in CallOfTheApp
         /\ [c EXCEPT !.waits = FALSE] \in CallOfTheApp
  BY DEF CallOfTheApp

\* The other calls stay as they are.
LEMMA CallChanges ==
  ASSUME CaptureTypeOK, NEW r \in Uploads,
         NEW c \in {NoCall, ForeignCall} \cup CallOfTheApp,
         call' = [call EXCEPT ![r] = c]
  PROVE  /\ call' \in [Uploads -> {NoCall, ForeignCall} \cup CallOfTheApp]
         /\ call'[r] = c
         /\ \A s \in Uploads : s # r => call'[s] = call[s]
  BY DEF CaptureTypeOK

\* A step answers a call of the app.
LEMMA AnswerChanges ==
  ASSUME CaptureTypeOK, NEW r \in Uploads, InApp(r), NEW v \in 0 .. Last,
         call' = [call EXCEPT ![r].at = "answered", ![r].result = v]
  PROVE  /\ call' \in [Uploads -> {NoCall, ForeignCall} \cup CallOfTheApp]
         /\ \A s \in Uploads : s # r => call'[s] = call[s]
         /\ call'[r].at = "answered" /\ call'[r].result = v
         /\ call'[r].op = call[r].op /\ call'[r].tile = call[r].tile
         /\ call'[r].waits = call[r].waits
  <1> DEFINE c == [[call[r] EXCEPT !.at = "answered"] EXCEPT !.result = v]
  <1>1. call[r] \in CallOfTheApp
    BY CallFields
  <1>2. c \in CallOfTheApp
    BY <1>1, CallMoves
  <1>3. /\ c.at = "answered" /\ c.result = v
        /\ c.op = call[r].op /\ c.tile = call[r].tile /\ c.waits = call[r].waits
    BY <1>1 DEF CallOfTheApp
  <1>4. call \in [Uploads -> {NoCall, ForeignCall} \cup CallOfTheApp]
    BY DEF CaptureTypeOK
  <1>5. call' = [call EXCEPT ![r] = c]
    BY <1>4
  <1> HIDE DEF c
  <1>6. QED
    BY <1>2, <1>3, <1>5, CallChanges

\* The fields of a tile.
LEMMA TileFields ==
  ASSUME CaptureTypeOK, NEW k \in Indices
  PROVE  /\ tiles[k] \in Tile /\ k \in 1 .. TileLimit
         /\ tiles[k].number \in 1 .. TileLimit \cup 1 .. Last
         /\ tiles[k].status \in {"uploading", "done", "failed"}
         /\ tiles[k].shot \in Photos
  <1>1. Len(tiles) \in Nat /\ Len(tiles) <= TileLimit
    BY LenProperties DEF CaptureTypeOK
  <1>2. tiles[k] \in Tile
    BY ElementOfSeq DEF CaptureTypeOK, Indices
  <1>3. QED
    BY <1>1, <1>2 DEF Tile, Indices

\* The other tiles stay as they are.
LEMMA TileChanges ==
  ASSUME CaptureTypeOK, NEW k \in Indices, NEW t \in Tile,
         tiles' = [tiles EXCEPT ![k] = t]
  PROVE  /\ tiles' \in Seq(Tile) /\ Len(tiles') = Len(tiles) /\ Indices' = Indices
         /\ tiles'[k] = t
         /\ \A j \in Indices : j # k => tiles'[j] = tiles[j]
  <1>1. tiles \in Seq(Tile)
    BY DEF CaptureTypeOK
  <1>2. tiles' \in Seq(Tile) /\ Len(tiles') = Len(tiles)
    BY <1>1, ExceptSeq DEF Indices
  <1>3. tiles \in [1 .. Len(tiles) -> Tile]
    BY <1>1, LenProperties
  <1>4. QED
    BY <1>2, <1>3 DEF Indices

\* A tile that only gets another status.
LEMMA StatusChanges ==
  ASSUME CaptureTypeOK, NEW k \in Indices,
         NEW status \in {"uploading", "done", "failed"}, SetStatus(k, status)
  PROVE  /\ tiles' \in Seq(Tile) /\ Len(tiles') = Len(tiles) /\ Indices' = Indices
         /\ tiles'[k].status = status
         /\ \A j \in Indices : /\ tiles'[j].shot = tiles[j].shot
                               /\ tiles'[j].number = tiles[j].number
                               /\ j # k => tiles'[j] = tiles[j]
  <1> DEFINE t == [tiles[k] EXCEPT !.status = status]
  <1>1. tiles[k] \in Tile
    BY TileFields
  <1>2. /\ t \in Tile /\ t.status = status
        /\ t.shot = tiles[k].shot /\ t.number = tiles[k].number
    BY <1>1 DEF Tile
  <1>3. tiles \in [1 .. Len(tiles) -> Tile]
    BY LenProperties DEF CaptureTypeOK
  <1>4. tiles' = [tiles EXCEPT ![k] = t]
    BY <1>3 DEF SetStatus, Indices
  <1> HIDE DEF t
  <1>5. QED
    BY <1>2, <1>4, TileChanges

-----------------------------------------------------------------------------
(* The numbering *)

\* A new row is the one after the counted ones, and blocks nothing.
LEMMA InsertFacts ==
  ASSUME NumberingOK, NEW r \in Uploads, NEW i, Insert(r, i)
  PROVE  /\ NumberingOK'
         /\ counted' = counted /\ owner' = r /\ owner = Nobody /\ ~Blocked
         /\ DOMAIN pages = 1 .. counted /\ DOMAIN pages' = 1 .. (counted + 1)
         /\ \A n \in 1 .. counted : pages'[n] = pages[n]
         /\ pages'[counted + 1] = i
  <1>1. counted' = counted /\ owner' = r /\ DOMAIN pages = 1 .. counted
    BY DEF Insert
  <1>2. /\ DOMAIN pages' = 1 .. (counted + 1)
        /\ \A n \in 1 .. counted : pages'[n] = pages[n]
        /\ pages'[counted + 1] = i
    BY DEF Insert, NumberingOK
  <1>3. owner = Nobody
    BY <1>1 DEF NumberingOK
  <1>4. counted + 1 <= Last
    BY DEF Insert, NumberingOK
  <1>5. NumberingOK'
    BY <1>1, <1>2, <1>4 DEF NumberingOK
  <1>6. QED
    BY <1>1, <1>2, <1>3, <1>5 DEF Blocked

\* The upload that counts its page had it stored.
LEMMA CountFacts ==
  ASSUME NumberingOK, NEW r \in Uploads, Count(r)
  PROVE  /\ NumberingOK'
         /\ counted' = counted + 1 /\ pages' = pages /\ ~Blocked
         /\ counted + 1 \in DOMAIN pages /\ counted + 1 \in 1 .. Last
  BY DEF NumberingOK, Count, Blocked

\* The page of an upload that ends otherwise blocks the document.
LEMMA LoseFacts ==
  ASSUME NumberingOK, NEW r \in Uploads, Lose(r)
  PROVE  NumberingOK' /\ Blocked' /\ counted' = counted /\ pages' = pages
  BY DEF NumberingOK, Lose, Blocked

\* A photograph stays open while pages of others are stored and counted.
LEMMA StaysOpen ==
  ASSUME NumberingOK, NEW r \in Uploads, NEW i, NEW j, given' = given, Open(j),
         \/ Insert(r, i) /\ (j # i \/ j \in given)
         \/ Count(r) \/ Lose(r) \/ UNCHANGED numberingVars
  PROVE  Open(j)'
  <1>1. CASE Insert(r, i) /\ (j # i \/ j \in given)
    <2>1. /\ DOMAIN pages = 1 .. counted /\ DOMAIN pages' = 1 .. (counted + 1) /\ ~Blocked
          /\ \A n \in 1 .. counted : pages'[n] = pages[n]
          /\ pages'[counted + 1] = i /\ counted \in Nat
      BY <1>1, InsertFacts DEF NumberingOK
    <2>2. QED
      BY <1>1, <2>1 DEF Open, NotStored
  <1>2. CASE Count(r)
    BY <1>2, CountFacts DEF Open, NotStored
  <1>3. CASE Lose(r)
    BY <1>3, LoseFacts DEF Open
  <1>4. CASE UNCHANGED numberingVars
    BY <1>4 DEF Open, NotStored, Blocked, numberingVars
  <1>5. QED
    BY <1>1, <1>2, <1>3, <1>4

-----------------------------------------------------------------------------
(* Steps of the server *)

\* A step of the server for one call leaves the others and the screen alone.
LEMMA ServerStep ==
  ASSUME CaptureInv, NEW r \in Uploads, UNCHANGED appVars,
         call' \in [Uploads -> {NoCall, ForeignCall} \cup CallOfTheApp],
         \A s \in Uploads : s # r => call'[s] = call[s],
         (Uploading(r) /\ call[r].waits)' =>
           Uploading(r) /\ call[r].waits /\ call'[r].tile = call[r].tile,
         NumberingOK', counted' \in {counted, counted + 1},
         \A n \in 1 .. counted : pages'[n] = pages[n],
         \A s \in Uploads : s # r /\ Calls(s, "stored") => UNCHANGED numberingVars,
         \A s \in Uploads : s # r /\ Uploading(s) /\ Open(Shot(s)) => Open(Shot(s))',
         \A k \in Indices : tiles[k].status = "failed" => Open(tiles[k].shot)',
         CallHolds(r)', PagesAreOfTiles', RetriesStoreOnce'
  PROVE  CaptureInv'
  <1>1. tiles' = tiles /\ mixedUp' = mixedUp /\ given' = given /\ Indices' = Indices
    BY DEF appVars, Indices
  <1>2. CaptureTypeOK'
    BY <1>1 DEF CaptureInv, CaptureTypeOK
  <1>3. TilesDiffer'
    BY <1>1 DEF CaptureInv, TilesDiffer
  <1>4. FailedTilesAreOpen'
    BY <1>1 DEF FailedTilesAreOpen
  <1>5. ASSUME NEW s \in Uploads PROVE CallHolds(s)'
    <2>1. CASE s = r
      BY <2>1
    <2>2. CASE s # r
      <3>1. call'[s] = call[s] /\ CallHolds(s) /\ counted \in Nat
        BY <2>2 DEF CaptureInv, NumberingOK
      <3>2. /\ Shot(s)' = Shot(s) /\ InApp(s)' = InApp(s) /\ Uploading(s)' = Uploading(s)
            /\ \A a : Calls(s, a)' = Calls(s, a)
        BY <1>1, <3>1 DEF Shot, InApp, Uploading, Calls
      <3>3. Uploading(s) => UploadHolds(s)'
        <4>1. SUFFICES ASSUME Uploading(s) PROVE UploadHolds(s)'
          OBVIOUS
        <4>2. UploadHolds(s)
          BY <3>1, <4>1 DEF CallHolds
        <4>3. \/ Calls(s, "sending") \/ Calls(s, "sent")
              \/ Calls(s, "answered") /\ call[s].result = Failure
              => Open(Shot(s))'
          BY <2>2, <4>1, <4>2 DEF UploadHolds
        <4>4. Calls(s, "answered") /\ call[s].result # Failure =>
                call[s].result \in 1 .. counted' /\ pages'[call[s].result] = Shot(s)
          BY <3>1, <4>2 DEF UploadHolds
        <4>5. QED
          BY <1>1, <3>1, <3>2, <4>2, <4>3, <4>4 DEF UploadHolds
      <3>4. Calls(s, "stored") => counted' = counted /\ pages' = pages /\ owner' = owner
        BY <2>2 DEF numberingVars
      <3>5. QED
        BY <1>1, <3>1, <3>2, <3>3, <3>4 DEF CallHolds
    <2>3. QED
      BY <2>1, <2>2
  <1>6. OneCallPerTile'
    <2>1. ASSUME NEW s \in Uploads, (Uploading(s) /\ call[s].waits)'
          PROVE  Uploading(s) /\ call[s].waits /\ call'[s].tile = call[s].tile
      BY <2>1 DEF Uploading, InApp
    <2>2. QED
      BY <2>1 DEF CaptureInv, OneCallPerTile
  <1>7. DoneTilesAreStored'
    BY <1>1 DEF CaptureInv, DoneTilesAreStored, NumberingOK
  <1>8. QED
    BY <1>2, <1>3, <1>4, <1>5, <1>6, <1>7 DEF CaptureInv

\* The photograph of the tile of a call.
LEMMA ShotFacts ==
  ASSUME CaptureInv, NEW r \in Uploads, InApp(r)
  PROVE  /\ call[r].tile \in Indices /\ Shot(r) \in Photos /\ Shot(r) # Foreign
         /\ \A k \in Indices : tiles[k].shot = Shot(r) => k = call[r].tile
  <1>1. call[r].tile \in Indices
    BY DEF CaptureInv, CallHolds
  <1>2. Shot(r) \in Photos
    BY <1>1, TileFields DEF CaptureInv, Shot
  <1>3. \A k \in Indices : tiles[k].shot = Shot(r) => k = call[r].tile
    BY <1>1 DEF CaptureInv, TilesDiffer, Shot
  <1>4. QED
    BY <1>1, <1>2, <1>3

\* The row of an upload is the only one of its photograph, or the app gave up on it.
LEMMA StoreStep ==
  ASSUME CaptureInv, NEW r \in Uploads, Store(r) PROVE CaptureInv'
  <1> DEFINE c == [call[r] EXCEPT !.at = "stored"]
  <1>1. Calls(r, "sent") /\ Uploading(r) /\ InApp(r) /\ Insert(r, Shot(r)) /\ UNCHANGED appVars
    BY DEF Store, Calls, Uploading, InApp, Shot
  <1>2. CaptureTypeOK /\ NumberingOK /\ CallHolds(r) /\ UploadHolds(r)
    BY <1>1 DEF CaptureInv, CallHolds
  <1>3. /\ call[r] \in CallOfTheApp /\ call[r].op = "upload"
        /\ call[r].tile \in Indices /\ call[r].waits \in BOOLEAN
    BY <1>1, <1>2, CallFields, ShotFacts DEF Uploading
  <1>4. /\ c \in CallOfTheApp /\ c.at = "stored" /\ c.op = "upload"
        /\ c.tile = call[r].tile /\ c.waits = call[r].waits
    BY <1>3, CallMoves DEF CallOfTheApp
  <1>5. call' = [call EXCEPT ![r] = c]
    BY <1>2 DEF CaptureTypeOK, Store
  <1> HIDE DEF c
  <1>6. /\ call' \in [Uploads -> {NoCall, ForeignCall} \cup CallOfTheApp]
        /\ call'[r] = c
        /\ \A s \in Uploads : s # r => call'[s] = call[s]
    BY <1>2, <1>4, <1>5, CallChanges
  <1>7. tiles' = tiles /\ mixedUp' = mixedUp /\ given' = given /\ Indices' = Indices
    BY <1>1 DEF appVars, Indices
  <1>8. /\ NumberingOK' /\ counted' = counted /\ owner' = r /\ owner = Nobody /\ ~Blocked
        /\ DOMAIN pages = 1 .. counted /\ DOMAIN pages' = 1 .. (counted + 1)
        /\ \A n \in 1 .. counted : pages'[n] = pages[n]
        /\ pages'[counted + 1] = Shot(r) /\ counted \in Nat
    BY <1>1, <1>2, InsertFacts DEF NumberingOK
  <1>9. Shot(r) \in given \/ NotStored(Shot(r))
    BY <1>1, <1>2, <1>8 DEF UploadHolds, Open
  <1>10. ASSUME NEW s \in Uploads, s # r, Uploading(s), Open(Shot(s)) PROVE Open(Shot(s))'
    <2>1. UploadHolds(s) /\ call[s].waits \in BOOLEAN /\ InApp(s)
      BY <1>2, <1>10, CallFields DEF CaptureInv, CallHolds, Uploading
    <2>2. Shot(s) # Shot(r) \/ Shot(s) \in given
      <3>1. CASE call[s].tile = call[r].tile
        BY <1>1, <1>2, <1>3, <1>10, <2>1, <3>1 DEF CaptureInv, OneCallPerTile, UploadHolds, Shot
      <3>2. CASE call[s].tile # call[r].tile
        BY <1>1, <2>1, <3>2, ShotFacts DEF Shot
      <3>3. QED
        BY <3>1, <3>2
    <2>3. Shot(s)' = Shot(s)
      BY <1>6, <1>7, <1>10 DEF Shot
    <2>4. QED
      BY <1>1, <1>2, <1>7, <1>10, <2>2, <2>3, StaysOpen
  <1>11. ASSUME NEW k \in Indices, tiles[k].status = "failed" PROVE Open(tiles[k].shot)'
    <2>1. Open(tiles[k].shot)
      BY <1>11 DEF CaptureInv, FailedTilesAreOpen
    <2>2. tiles[k].shot # Shot(r) \/ tiles[k].shot \in given
      BY <1>1, <1>2, <1>3, <1>11, ShotFacts DEF UploadHolds
    <2>3. QED
      BY <1>1, <1>2, <1>7, <2>1, <2>2, StaysOpen
  <1>12. CallHolds(r)'
    <2>1. Shot(r)' = Shot(r)
      BY <1>4, <1>6, <1>7 DEF Shot
    <2>2. UploadHolds(r)'
      BY <1>2, <1>4, <1>6, <1>7, <2>1 DEF UploadHolds, Calls
    <2>3. QED
      BY <1>3, <1>4, <1>6, <1>7, <1>8, <2>1, <2>2 DEF CallHolds, Calls
  <1>13. PagesAreOfTiles'
    <2>1. SUFFICES ASSUME NEW n \in 1 .. (counted + 1)
                   PROVE  pages'[n] # Foreign => \E k \in Indices : pages'[n] = tiles[k].shot
      BY <1>7, <1>8 DEF PagesAreOfTiles
    <2>2. CASE n = counted + 1
      BY <1>3, <1>8, <2>2 DEF Shot
    <2>3. CASE n # counted + 1
      BY <1>8, <2>3 DEF CaptureInv, PagesAreOfTiles
    <2>4. QED
      BY <2>2, <2>3
  <1>14. RetriesStoreOnce'
    BY <1>7, <1>8, <1>9 DEF CaptureInv, RetriesStoreOnce, NotStored
  <1>15. ASSUME NEW s \in Uploads, s # r, Calls(s, "stored") PROVE FALSE
    BY <1>8, <1>15 DEF CaptureInv, CallHolds
  <1>16. QED
    BY <1>1, <1>3, <1>4, <1>6, <1>8, <1>10, <1>11, <1>12, <1>13, <1>14, <1>15, ServerStep

\* A page from elsewhere is of no tile.
LEMMA StoreForeignStep ==
  ASSUME CaptureInv, NEW r \in Uploads, StoreForeign(r) PROVE CaptureInv'
  <1>1. /\ Insert(r, Foreign) /\ UNCHANGED appVars
        /\ call' = [call EXCEPT ![r] = ForeignCall]
    BY DEF StoreForeign
  <1>2. CaptureTypeOK /\ NumberingOK
    BY DEF CaptureInv
  <1>3. /\ call' \in [Uploads -> {NoCall, ForeignCall} \cup CallOfTheApp]
        /\ call'[r] = ForeignCall
        /\ \A s \in Uploads : s # r => call'[s] = call[s]
    BY <1>1, <1>2, CallChanges
  <1>4. tiles' = tiles /\ mixedUp' = mixedUp /\ given' = given /\ Indices' = Indices
    BY <1>1 DEF appVars, Indices
  <1>5. /\ NumberingOK' /\ counted' = counted /\ owner = Nobody
        /\ DOMAIN pages = 1 .. counted /\ DOMAIN pages' = 1 .. (counted + 1)
        /\ \A n \in 1 .. counted : pages'[n] = pages[n]
        /\ pages'[counted + 1] = Foreign /\ counted \in Nat
    BY <1>1, <1>2, InsertFacts DEF NumberingOK
  <1>6. ASSUME NEW s \in Uploads, s # r, Uploading(s), Open(Shot(s)) PROVE Open(Shot(s))'
    <2>1. Shot(s)' = Shot(s) /\ Shot(s) # Foreign
      BY <1>3, <1>4, <1>6, ShotFacts DEF Shot, Uploading
    <2>2. QED
      BY <1>1, <1>2, <1>4, <1>6, <2>1, StaysOpen
  <1>7. ASSUME NEW k \in Indices, tiles[k].status = "failed" PROVE Open(tiles[k].shot)'
    <2>1. Open(tiles[k].shot) /\ tiles[k].shot # Foreign
      BY <1>2, <1>7, TileFields DEF CaptureInv, FailedTilesAreOpen
    <2>2. QED
      BY <1>1, <1>2, <1>4, <2>1, StaysOpen
  <1>8. ~InApp(r)' /\ ~Calls(r, "stored")' /\ ~Calls(r, "sending")' /\ ~Uploading(r)'
    BY <1>3 DEF ForeignCall, InApp, Calls, Uploading
  <1>9. CallHolds(r)'
    BY <1>8 DEF CallHolds
  <1>10. PagesAreOfTiles'
    BY <1>4, <1>5 DEF CaptureInv, PagesAreOfTiles
  <1>11. RetriesStoreOnce'
    BY <1>4, <1>5 DEF CaptureInv, RetriesStoreOnce
  <1>12. ASSUME NEW s \in Uploads, s # r, Calls(s, "stored") PROVE FALSE
    BY <1>5, <1>12 DEF CaptureInv, CallHolds
  <1>13. QED
    BY <1>1, <1>3, <1>5, <1>6, <1>7, <1>8, <1>9, <1>10, <1>11, <1>12, ServerStep

\* A step that stores nothing leaves what is stored and what is open.
LEMMA NothingStored ==
  ASSUME CaptureInv, NEW r \in Uploads, UNCHANGED appVars,
         Count(r) \/ Lose(r) \/ UNCHANGED numberingVars,
         call' \in [Uploads -> {NoCall, ForeignCall} \cup CallOfTheApp],
         \A s \in Uploads : s # r => call'[s] = call[s],
         (Uploading(r) /\ call[r].waits)' =>
           Uploading(r) /\ call[r].waits /\ call'[r].tile = call[r].tile,
         CallHolds(r)'
  PROVE  CaptureInv'
  <1>1. tiles' = tiles /\ mixedUp' = mixedUp /\ given' = given /\ Indices' = Indices
    BY DEF appVars, Indices
  <1>2. NumberingOK /\ counted \in Nat
    BY DEF CaptureInv, NumberingOK
  <1>3. NumberingOK' /\ counted' \in {counted, counted + 1} /\ pages' = pages
    <2>1. CASE Count(r)
      BY <1>2, <2>1, CountFacts
    <2>2. CASE Lose(r)
      BY <1>2, <2>2, LoseFacts
    <2>3. CASE UNCHANGED numberingVars
      BY <1>2, <2>3 DEF numberingVars, NumberingOK
    <2>4. QED
      BY <2>1, <2>2, <2>3
  <1>4. ASSUME NEW i, Open(i) PROVE Open(i)'
    BY <1>1, <1>2, <1>4, StaysOpen
  <1>5. ASSUME NEW s \in Uploads, s # r, Uploading(s), Open(Shot(s)) PROVE Open(Shot(s))'
    <2>1. Shot(s)' = Shot(s)
      BY <1>1, <1>5 DEF Shot
    <2>2. QED
      BY <1>4, <1>5, <2>1
  <1>6. ASSUME NEW k \in Indices, tiles[k].status = "failed" PROVE Open(tiles[k].shot)'
    <2>1. Open(tiles[k].shot)
      BY <1>6 DEF CaptureInv, FailedTilesAreOpen
    <2>2. QED
      BY <1>1, <1>2, <2>1, StaysOpen
  <1>7. ASSUME NEW s \in Uploads, s # r, Calls(s, "stored") PROVE UNCHANGED numberingVars
    <2>1. owner = s
      BY <1>7 DEF CaptureInv, CallHolds
    <2>2. QED
      BY <1>7, <2>1 DEF Count, Lose
  <1>8. PagesAreOfTiles' /\ RetriesStoreOnce'
    BY <1>1, <1>3 DEF CaptureInv, PagesAreOfTiles, RetriesStoreOnce
  <1>9. QED
    BY <1>3, <1>5, <1>6, <1>7, <1>8, ServerStep

\* The number that is answered is the number of the row.
LEMMA AnswerUploadStep ==
  ASSUME CaptureInv, NEW r \in Uploads, AnswerUpload(r) PROVE CaptureInv'
  <1>1. /\ Calls(r, "stored") /\ InApp(r) /\ Count(r) /\ UNCHANGED appVars
        /\ call' = [call EXCEPT ![r].at = "answered", ![r].result = counted + 1]
    BY DEF AnswerUpload, Answer, Calls, InApp
  <1>2. /\ CaptureTypeOK /\ NumberingOK /\ CallHolds(r) /\ Uploading(r) /\ UploadHolds(r)
        /\ pages[counted + 1] = Shot(r) /\ call[r].tile \in Indices
    BY <1>1 DEF CaptureInv, CallHolds, Uploading
  <1>3. /\ counted' = counted + 1 /\ pages' = pages /\ counted \in Nat
        /\ counted + 1 \in 1 .. Last
    BY <1>1, <1>2, CountFacts DEF NumberingOK
  <1>4. counted + 1 \in 0 .. Last
    BY <1>3
  <1>5. /\ call' \in [Uploads -> {NoCall, ForeignCall} \cup CallOfTheApp]
        /\ \A s \in Uploads : s # r => call'[s] = call[s]
        /\ call'[r].at = "answered" /\ call'[r].result = counted + 1
        /\ call'[r].op = call[r].op /\ call'[r].tile = call[r].tile
        /\ call'[r].waits = call[r].waits
    BY <1>1, <1>2, <1>4, AnswerChanges
  <1>6. tiles' = tiles /\ mixedUp' = mixedUp /\ given' = given /\ Indices' = Indices
    BY <1>1 DEF appVars, Indices
  <1>7. Shot(r)' = Shot(r)
    BY <1>5, <1>6 DEF Shot
  <1>8. UploadHolds(r)'
    BY <1>2, <1>3, <1>5, <1>6, <1>7 DEF UploadHolds, Calls, Failure
  <1>9. CallHolds(r)'
    BY <1>2, <1>5, <1>6, <1>8 DEF CallHolds, Calls, Uploading
  <1>10. QED
    BY <1>1, <1>2, <1>5, <1>9, NothingStored

\* The answer to a rerun tells nothing of an upload.
LEMMA AnswerRerunStep ==
  ASSUME CaptureInv, NEW r \in Uploads, AnswerRerun(r) PROVE CaptureInv'
  <1>1. /\ InApp(r) /\ call[r].op = "rerun" /\ UNCHANGED numberingVars /\ UNCHANGED appVars
        /\ call[r].number \in DOMAIN pages
        /\ call' = [call EXCEPT ![r].at = "answered", ![r].result = call[r].number]
    BY DEF AnswerRerun, Answer, Calls, InApp
  <1>2. CaptureTypeOK /\ NumberingOK /\ CallHolds(r) /\ call[r].number \in 0 .. Last
    BY <1>1 DEF CaptureInv, NumberingOK
  <1>3. /\ call' \in [Uploads -> {NoCall, ForeignCall} \cup CallOfTheApp]
        /\ \A s \in Uploads : s # r => call'[s] = call[s]
        /\ call'[r].at = "answered"
        /\ call'[r].op = call[r].op /\ call'[r].tile = call[r].tile
    BY <1>1, <1>2, AnswerChanges
  <1>4. tiles' = tiles /\ mixedUp' = mixedUp /\ Indices' = Indices
    BY <1>1 DEF appVars, Indices
  <1>5. ~Uploading(r)' /\ ~Calls(r, "stored")' /\ ~Calls(r, "sending")'
    BY <1>1, <1>3 DEF Uploading, Calls
  <1>6. CallHolds(r)'
    BY <1>1, <1>2, <1>3, <1>4, <1>5 DEF CallHolds
  <1>7. QED
    BY <1>1, <1>3, <1>5, <1>6, NothingStored

\* After an error there is no row of the upload, or none comes after it.
LEMMA AnswerErrorStep ==
  ASSUME CaptureInv, NEW r \in Uploads, AnswerError(r) PROVE CaptureInv'
  <1>1. /\ InApp(r) /\ UNCHANGED appVars
        /\ call' = [call EXCEPT ![r].at = "answered", ![r].result = Failure]
        /\ (Calls(r, "sent") /\ UNCHANGED numberingVars) \/ (Calls(r, "stored") /\ Lose(r))
    <2>1. /\ Answer(r, Failure)
          /\ (Calls(r, "sent") /\ UNCHANGED numberingVars) \/ (Calls(r, "stored") /\ Lose(r))
      BY Zenon DEF AnswerError
    <2>2. InApp(r)
      BY <2>1 DEF InApp, Calls
    <2>3. QED
      BY <2>1, <2>2 DEF Answer
  <1>2. CaptureTypeOK /\ NumberingOK /\ CallHolds(r) /\ Failure \in 0 .. Last
    BY DEF CaptureInv, Failure
  <1>3. /\ call' \in [Uploads -> {NoCall, ForeignCall} \cup CallOfTheApp]
        /\ \A s \in Uploads : s # r => call'[s] = call[s]
        /\ call'[r].at = "answered" /\ call'[r].result = Failure
        /\ call'[r].op = call[r].op /\ call'[r].tile = call[r].tile
        /\ call'[r].waits = call[r].waits
    BY <1>1, <1>2, AnswerChanges
  <1>4. tiles' = tiles /\ mixedUp' = mixedUp /\ given' = given /\ Indices' = Indices
    BY <1>1 DEF appVars, Indices
  <1>5. Shot(r)' = Shot(r) /\ InApp(r)' /\ Uploading(r)' = Uploading(r)
    BY <1>1, <1>3, <1>4 DEF Shot, Uploading, InApp
  <1>6. ASSUME Uploading(r) PROVE UploadHolds(r)'
    <2>1. UploadHolds(r)
      BY <1>2, <1>6 DEF CallHolds
    <2>2. Open(Shot(r))'
      <3>1. CASE Calls(r, "sent") /\ UNCHANGED numberingVars
        <4>1. Open(Shot(r))
          BY <2>1, <3>1 DEF UploadHolds
        <4>2. QED
          BY <1>2, <1>4, <1>5, <3>1, <4>1, StaysOpen
      <3>2. CASE Lose(r)
        BY <1>2, <3>2, LoseFacts DEF Open
      <3>3. QED
        BY <1>1, <3>1, <3>2
    <2>3. QED
      BY <1>3, <1>4, <1>5, <2>1, <2>2 DEF UploadHolds, Calls
  <1>7. CallHolds(r)'
    BY <1>1, <1>2, <1>3, <1>4, <1>5, <1>6 DEF CallHolds, Calls
  <1>8. QED
    BY <1>1, <1>3, <1>5, <1>7, NothingStored

\* A call that is over.
LEMMA CallOver ==
  ASSUME CaptureInv, NEW r \in Uploads, UNCHANGED appVars,
         Count(r) \/ Lose(r) \/ UNCHANGED numberingVars,
         call' = [call EXCEPT ![r] = NoCall]
  PROVE  CaptureInv'
  <1>1. /\ call' \in [Uploads -> {NoCall, ForeignCall} \cup CallOfTheApp]
        /\ call'[r] = NoCall
        /\ \A s \in Uploads : s # r => call'[s] = call[s]
    BY CallChanges DEF CaptureInv
  <1>2. ~InApp(r)' /\ ~Calls(r, "stored")' /\ ~Calls(r, "sending")' /\ ~Uploading(r)'
    BY <1>1 DEF NoCall, InApp, Calls, Uploading
  <1>3. CallHolds(r)'
    BY <1>2 DEF CallHolds
  <1>4. QED
    BY <1>1, <1>2, <1>3, NothingStored

-----------------------------------------------------------------------------
(* Steps of the app *)

\* Nobody but r relies on how tile k stands.
Undisturbed(r, k) ==
  \A s \in Uploads : s # r /\ InApp(s) /\ call[s].tile = k =>
    /\ call[s].op = "upload" => ~call[s].waits
    /\ call[s].op = "rerun" => k \in mixedUp

\* The call a tile is waiting for is the only one to rely on it.
LEMMA WaitingAlone ==
  ASSUME CaptureInv, NEW r \in Uploads, Uploading(r), call[r].waits
  PROVE  Undisturbed(r, call[r].tile)
  <1>1. SUFFICES ASSUME NEW s \in Uploads, s # r, InApp(s), call[s].tile = call[r].tile
                 PROVE  /\ call[s].op = "upload" => ~call[s].waits
                        /\ call[s].op = "rerun" => call[r].tile \in mixedUp
    BY DEF Undisturbed
  <1>2. CallHolds(s) /\ UploadHolds(r)
    BY DEF CaptureInv, CallHolds
  <1>3. call[s].op = "upload" => ~call[s].waits
    BY <1>1 DEF CaptureInv, OneCallPerTile, Uploading
  <1>4. call[s].op = "rerun" => call[r].tile \in mixedUp
    BY <1>1, <1>2 DEF CallHolds, UploadHolds
  <1>5. QED
    BY <1>3, <1>4

\* A step of the app for one call leaves the others and the server alone.
LEMMA AppStep ==
  ASSUME CaptureInv, NEW r \in Uploads, UNCHANGED numberingVars,
         given \subseteq given', mixedUp \subseteq mixedUp', Indices \subseteq Indices',
         \A s \in Uploads : s # r => call'[s] = call[s],
         \A j \in Indices : tiles'[j].shot = tiles[j].shot,
         \A j \in Indices : \/ tiles'[j].status = tiles[j].status
                            \/ tiles'[j].status = "done" /\ j \in mixedUp'
                            \/ Undisturbed(r, j),
         \A s \in Uploads : (Uploading(r) /\ call[r].waits)' /\ s # r
                            /\ Uploading(s) /\ call[s].waits
                              => call'[r].tile # call[s].tile,
         CaptureTypeOK', TilesDiffer', FailedTilesAreOpen', DoneTilesAreStored',
         CallHolds(r)'
  PROVE  CaptureInv'
  <1>1. pages' = pages /\ counted' = counted /\ owner' = owner
    BY DEF numberingVars
  <1>2. NumberingOK'
    BY <1>1 DEF CaptureInv, NumberingOK
  <1>3. PagesAreOfTiles'
    BY <1>1 DEF CaptureInv, PagesAreOfTiles
  <1>4. RetriesStoreOnce'
    BY <1>1 DEF CaptureInv, RetriesStoreOnce
  <1>5. ASSUME NEW s \in Uploads PROVE CallHolds(s)'
    <2>1. CASE s = r
      BY <2>1
    <2>2. CASE s # r
      <3> DEFINE k == call[s].tile
      <3>1. call'[s] = call[s] /\ CallHolds(s)
        BY <2>2 DEF CaptureInv
      <3>2. /\ InApp(s)' = InApp(s) /\ Uploading(s)' = Uploading(s)
            /\ \A a : Calls(s, a)' = Calls(s, a)
        BY <3>1 DEF InApp, Uploading, Calls
      <3>3. ASSUME InApp(s)
            PROVE  /\ k \in Indices /\ k \in Indices' /\ Shot(s)' = Shot(s)
                   /\ \/ tiles'[k].status = tiles[k].status
                      \/ tiles'[k].status = "done" /\ k \in mixedUp'
                      \/ /\ call[s].op = "upload" => ~call[s].waits
                         /\ call[s].op = "rerun" => k \in mixedUp
        <4>1. k \in Indices
          BY <3>1, <3>3 DEF CallHolds
        <4>2. Shot(s)' = Shot(s)
          BY <3>1, <4>1 DEF Shot
        <4>3. QED
          BY <2>2, <3>3, <4>1, <4>2 DEF Undisturbed
      <3>4. ASSUME Uploading(s) PROVE UploadHolds(s)'
        <4>1. UploadHolds(s) /\ InApp(s)
          BY <3>1, <3>4 DEF CallHolds, Uploading
        <4>2. call[s].waits => /\ tiles'[k].status # "failed"
                               /\ k \notin mixedUp' => tiles'[k].status = "uploading"
          BY <3>3, <3>4, <4>1 DEF UploadHolds, Uploading
        <4>3. ASSUME Open(Shot(s)) PROVE Open(Shot(s))'
          BY <1>1, <3>3, <4>1, <4>3 DEF Open, NotStored, Blocked
        <4>4. QED
          BY <1>1, <3>1, <3>2, <3>3, <4>1, <4>2, <4>3 DEF UploadHolds
      <3>5. InApp(s) /\ call[s].op = "rerun" /\ k \notin mixedUp' => tiles'[k].status = "done"
        BY <3>1, <3>3 DEF CallHolds
      <3>6. Calls(s, "stored") => InApp(s)
        BY DEF Calls, InApp
      <3>7. QED
        BY <1>1, <3>1, <3>2, <3>3, <3>4, <3>5, <3>6 DEF CallHolds
    <2>3. QED
      BY <2>1, <2>2
  <1>6. OneCallPerTile'
    <2>1. SUFFICES ASSUME NEW p \in Uploads, NEW q \in Uploads,
                          (Uploading(p) /\ call[p].waits)', (Uploading(q) /\ call[q].waits)',
                          call'[p].tile = call'[q].tile
                   PROVE  p = q
      BY DEF OneCallPerTile
    <2>2. \A s \in Uploads : s # r /\ (Uploading(s) /\ call[s].waits)' =>
            Uploading(s) /\ call[s].waits
      BY DEF Uploading, InApp
    <2>3. CASE p # r /\ q # r
      BY <2>1, <2>2, <2>3 DEF CaptureInv, OneCallPerTile
    <2>4. CASE p = r /\ q # r
      BY <2>1, <2>2, <2>4
    <2>5. CASE p # r /\ q = r
      BY <2>1, <2>2, <2>5
    <2>6. QED
      BY <2>3, <2>4, <2>5
  <1>7. QED
    BY <1>2, <1>3, <1>4, <1>5, <1>6 DEF CaptureInv

\* A call that is sent.
LEMMA SendFacts ==
  ASSUME CaptureInv, NEW r \in Uploads, NEW op \in {"upload", "rerun"},
         NEW k \in 1 .. TileLimit, tiles'[k].number \in 1 .. TileLimit \cup 1 .. Last,
         Send(r, op, k)
  PROVE  /\ call' \in [Uploads -> {NoCall, ForeignCall} \cup CallOfTheApp]
         /\ \A s \in Uploads : s # r => call'[s] = call[s]
         /\ call'[r].at = "sending" /\ call'[r].op = op
         /\ call'[r].tile = k /\ call'[r].waits
         /\ UNCHANGED numberingVars /\ mixedUp' = mixedUp /\ given' = given
  <1> DEFINE c == [at |-> "sending", op |-> op, tile |-> k, waits |-> TRUE,
                   replayed |-> FALSE, number |-> tiles'[k].number, result |-> Failure]
  <1>1. c \in CallOfTheApp
    BY DEF CallOfTheApp, Failure
  <1>2. c.at = "sending" /\ c.op = op /\ c.tile = k /\ c.waits
    OBVIOUS
  <1>3. call' = [call EXCEPT ![r] = c]
    BY DEF Send
  <1> HIDE DEF c
  <1>4. QED
    BY <1>1, <1>2, <1>3, CallChanges DEF CaptureInv, Send

\* A photograph that was just taken has no page.
LEMMA CapturePageStep ==
  ASSUME CaptureInv, NEW r \in Uploads, NEW i \in Photos, CapturePage(r, i)
  PROVE  CaptureInv'
  <1> DEFINE k == Len(tiles) + 1
             t == CapturedPage(k, i)
  <1>1. /\ Len(tiles) < TileLimit /\ tiles' = Append(tiles, t) /\ Send(r, "upload", k)
        /\ \A j \in Indices : tiles[j].shot # i
    BY DEF CapturePage
  <1>2. CaptureTypeOK /\ tiles \in Seq(Tile) /\ Len(tiles) \in Nat
    BY LenProperties DEF CaptureInv, CaptureTypeOK
  <1>3. k \in 1 .. TileLimit
    BY <1>1, <1>2
  <1>4. /\ t \in Tile /\ t.shot = i /\ t.status = "uploading"
        /\ t.number \in 1 .. TileLimit
    BY <1>3 DEF CapturedPage, Tile
  <1> HIDE DEF t
  <1>5. /\ tiles' \in Seq(Tile) /\ Len(tiles') = k
        /\ \A j \in 1 .. Len(tiles) : tiles'[j] = tiles[j]
        /\ tiles'[k] = t
    BY <1>1, <1>2, <1>4, AppendProperties
  <1>6. /\ Indices' = Indices \cup {k} /\ k \notin Indices
        /\ \A j \in Indices : tiles'[j] = tiles[j]
    BY <1>2, <1>5 DEF Indices
  <1> HIDE DEF k
  <1>7. /\ call' \in [Uploads -> {NoCall, ForeignCall} \cup CallOfTheApp]
        /\ \A s \in Uploads : s # r => call'[s] = call[s]
        /\ call'[r].at = "sending" /\ call'[r].op = "upload" /\ call'[r].tile = k
        /\ call'[r].waits
        /\ UNCHANGED numberingVars /\ mixedUp' = mixedUp /\ given' = given
    BY <1>1, <1>3, <1>4, <1>5, SendFacts
  <1>8. CaptureTypeOK'
    BY <1>2, <1>3, <1>5, <1>6, <1>7 DEF CaptureTypeOK
  <1>9. k \notin mixedUp
    BY <1>2, <1>6 DEF CaptureTypeOK
  <1>10. TilesDiffer'
    <2>1. \A j \in Indices : tiles'[j].shot = tiles[j].shot /\ tiles'[j].shot # i
      BY <1>1, <1>6
    <2>2. tiles'[k].shot = i
      BY <1>4, <1>5
    <2>3. \A j, l \in Indices : tiles[j].shot = tiles[l].shot => j = l
      BY DEF CaptureInv, TilesDiffer
    <2>4. \A j, l \in Indices \cup {k} : tiles'[j].shot = tiles'[l].shot => j = l
      BY <2>1, <2>2, <2>3
    <2>5. QED
      BY <1>6, <2>4 DEF TilesDiffer
  <1>11. ASSUME NEW j, Open(j) PROVE Open(j)'
    BY <1>7, <1>11 DEF Open, NotStored, Blocked, numberingVars
  <1>12. FailedTilesAreOpen'
    <2>1. \A j \in Indices : tiles[j].status = "failed" => Open(tiles[j].shot)
      BY DEF CaptureInv, FailedTilesAreOpen
    <2>2. QED
      BY <1>4, <1>5, <1>6, <1>7, <2>1
      DEF FailedTilesAreOpen, Open, NotStored, Blocked, numberingVars
  <1>13. DoneTilesAreStored'
    BY <1>4, <1>5, <1>6, <1>7 DEF CaptureInv, DoneTilesAreStored, numberingVars
  <1>14. NotStored(i)'
    BY <1>1, <1>7 DEF CaptureInv, PagesAreOfTiles, NotStored, numberingVars
  <1>15. Shot(r)' = i
    BY <1>4, <1>5, <1>7 DEF Shot
  <1>16. UploadHolds(r)'
    BY <1>4, <1>5, <1>7, <1>14, <1>15
    DEF UploadHolds, Calls, Open, NotStored
  <1>17. CallHolds(r)'
    BY <1>6, <1>7, <1>16 DEF CallHolds, Calls
  <1>18. ASSUME NEW s \in Uploads, Uploading(s) PROVE call[s].tile # k
    BY <1>6, <1>18 DEF CaptureInv, CallHolds, Uploading
  <1>19. QED
    BY <1>6, <1>7, <1>8, <1>10, <1>12, <1>13, <1>17, <1>18, AppStep

\* Nothing relies on a failed tile, and it has no page that counts.
LEMMA RetryStep ==
  ASSUME CaptureInv, NEW r \in Uploads, NEW k \in Indices, Retry(r, k)
  PROVE  CaptureInv'
  <1>1. tiles[k].status = "failed" /\ SetStatus(k, "uploading") /\ Send(r, "upload", k)
    BY DEF Retry
  <1>2. CaptureTypeOK
    BY DEF CaptureInv
  <1>3. /\ tiles' \in Seq(Tile) /\ Len(tiles') = Len(tiles) /\ Indices' = Indices
        /\ tiles'[k].status = "uploading"
        /\ \A j \in Indices : /\ tiles'[j].shot = tiles[j].shot
                              /\ tiles'[j].number = tiles[j].number
                              /\ j # k => tiles'[j] = tiles[j]
    BY <1>1, <1>2, StatusChanges
  <1>4. k \in 1 .. TileLimit /\ tiles'[k].number \in 1 .. TileLimit \cup 1 .. Last
    BY <1>2, <1>3, TileFields
  <1>5. /\ call' \in [Uploads -> {NoCall, ForeignCall} \cup CallOfTheApp]
        /\ \A s \in Uploads : s # r => call'[s] = call[s]
        /\ call'[r].at = "sending" /\ call'[r].op = "upload" /\ call'[r].tile = k
        /\ call'[r].waits
        /\ UNCHANGED numberingVars /\ mixedUp' = mixedUp /\ given' = given
    BY <1>1, <1>4, SendFacts
  <1>6. CaptureTypeOK'
    BY <1>2, <1>3, <1>5 DEF CaptureTypeOK
  <1>7. TilesDiffer'
    BY <1>3 DEF CaptureInv, TilesDiffer
  <1>8. FailedTilesAreOpen'
    <2>1. \A j \in Indices : tiles[j].status = "failed" => Open(tiles[j].shot)
      BY DEF CaptureInv, FailedTilesAreOpen
    <2>2. QED
      BY <1>3, <1>5, <2>1 DEF FailedTilesAreOpen, Open, NotStored, Blocked, numberingVars
  <1>9. DoneTilesAreStored'
    BY <1>3, <1>5 DEF CaptureInv, DoneTilesAreStored, numberingVars
  <1>10. Undisturbed(r, k)
    BY <1>1 DEF CaptureInv, CallHolds, UploadHolds, Uploading, Undisturbed
  <1>11. Open(tiles[k].shot)
    BY <1>1 DEF CaptureInv, FailedTilesAreOpen
  <1>12. CallHolds(r)'
    <2>1. Shot(r)' = tiles[k].shot
      BY <1>3, <1>5 DEF Shot
    <2>2. Open(Shot(r))'
      BY <1>5, <1>11, <2>1 DEF Open, NotStored, Blocked, numberingVars
    <2>3. QED
      BY <1>3, <1>5, <2>2 DEF CallHolds, UploadHolds, Calls, InApp
  <1>13. QED
    BY <1>3, <1>5, <1>6, <1>7, <1>8, <1>9, <1>10, <1>12, AppStep DEF Undisturbed, Uploading

\* A rerun leaves the screen as it is until its answer comes.
LEMMA RerunOcrStep ==
  ASSUME CaptureInv, NEW r \in Uploads, NEW k \in Indices, RerunOcr(r, k)
  PROVE  CaptureInv'
  <1>1. tiles[k].status = "done" /\ tiles' = tiles /\ Indices' = Indices /\ Send(r, "rerun", k)
    BY DEF RerunOcr, Indices
  <1>2. CaptureTypeOK
    BY DEF CaptureInv
  <1>3. /\ call' \in [Uploads -> {NoCall, ForeignCall} \cup CallOfTheApp]
        /\ \A s \in Uploads : s # r => call'[s] = call[s]
        /\ call'[r].at = "sending" /\ call'[r].op = "rerun" /\ call'[r].tile = k
        /\ call'[r].waits
        /\ UNCHANGED numberingVars /\ mixedUp' = mixedUp /\ given' = given
    BY <1>1, <1>2, TileFields, SendFacts
  <1>4. CaptureTypeOK'
    BY <1>1, <1>2, <1>3 DEF CaptureTypeOK
  <1>5. TilesDiffer' /\ FailedTilesAreOpen' /\ DoneTilesAreStored'
    BY <1>1, <1>3 DEF CaptureInv, TilesDiffer, FailedTilesAreOpen, DoneTilesAreStored,
                      Open, NotStored, Blocked, numberingVars
  <1>6. CallHolds(r)' /\ ~Uploading(r)'
    BY <1>1, <1>3 DEF CallHolds, Uploading, Calls
  <1>7. QED
    BY <1>1, <1>3, <1>4, <1>5, <1>6, AppStep

\* The tile of an upload whose answer, or the lack of one, came.
LEMMA UploadEnds ==
  ASSUME CaptureInv, NEW r \in Uploads, Uploading(r), call[r].waits,
         UNCHANGED numberingVars, mixedUp' = mixedUp,
         given \subseteq given', given' \subseteq Photos,
         call' \in [Uploads -> {NoCall, ForeignCall} \cup CallOfTheApp],
         \A s \in Uploads : s # r => call'[s] = call[s],
         ~(Uploading(r) /\ call[r].waits)',
         NEW k, k = call[r].tile,
         \/ UploadFails(k) /\ (Open(tiles[k].shot) \/ tiles[k].shot \in given')
         \/ \E n \in 1 .. counted : Uploaded(k, n) /\ pages[n] = tiles[k].shot,
         \A j \in Indices : tiles'[j].shot = tiles[j].shot => CallHolds(r)'
  PROVE  CaptureInv'
  <1>1. CaptureTypeOK /\ k \in Indices /\ counted \in Nat /\ tiles[k] \in Tile
    BY ShotFacts, TileFields DEF CaptureInv, Uploading, NumberingOK
  <1>2. 1 .. counted \subseteq 1 .. Last
    BY DEF CaptureInv, NumberingOK
  <1>3. /\ tiles' \in Seq(Tile) /\ Len(tiles') = Len(tiles) /\ Indices' = Indices
        /\ \A j \in Indices : tiles'[j].shot = tiles[j].shot
        /\ \A j \in Indices : j # k => tiles'[j] = tiles[j]
        /\ \/ tiles'[k].status = "failed" /\ (Open(tiles[k].shot) \/ tiles[k].shot \in given')
           \/ /\ tiles'[k].status = "done" /\ tiles'[k].number \in 1 .. counted
              /\ pages[tiles'[k].number] = tiles[k].shot
    <2>1. CASE UploadFails(k) /\ (Open(tiles[k].shot) \/ tiles[k].shot \in given')
      BY <1>1, <2>1, StatusChanges DEF UploadFails
    <2>2. ASSUME NEW n \in 1 .. counted, Uploaded(k, n), pages[n] = tiles[k].shot
          PROVE  /\ tiles' \in Seq(Tile) /\ Len(tiles') = Len(tiles) /\ Indices' = Indices
                 /\ \A j \in Indices : tiles'[j].shot = tiles[j].shot
                 /\ \A j \in Indices : j # k => tiles'[j] = tiles[j]
                 /\ tiles'[k].status = "done" /\ tiles'[k].number \in 1 .. counted
                 /\ pages[tiles'[k].number] = tiles[k].shot
      <3> DEFINE t == [[tiles[k] EXCEPT !.number = n] EXCEPT !.status = "done"]
      <3>1. t \in Tile /\ t.number = n /\ t.status = "done" /\ t.shot = tiles[k].shot
        BY <1>1, <1>2, <2>2 DEF Tile
      <3>2. tiles \in [1 .. Len(tiles) -> Tile]
        BY <1>1, LenProperties DEF CaptureTypeOK
      <3>3. tiles' = [tiles EXCEPT ![k] = t]
        BY <2>2, <3>2 DEF Uploaded, Indices
      <3> HIDE DEF t
      <3>4. /\ tiles' \in Seq(Tile) /\ Len(tiles') = Len(tiles) /\ Indices' = Indices
            /\ tiles'[k] = t
            /\ \A j \in Indices : j # k => tiles'[j] = tiles[j]
        BY <1>1, <3>1, <3>3, TileChanges
      <3>5. \A j \in Indices : tiles'[j].shot = tiles[j].shot
        BY <3>1, <3>4
      <3>6. QED
        BY <2>2, <3>1, <3>4, <3>5
    <2>3. QED
      BY <2>1, <2>2
  <1>4. CaptureTypeOK'
    BY <1>1, <1>3 DEF CaptureTypeOK
  <1>5. TilesDiffer'
    BY <1>3 DEF CaptureInv, TilesDiffer
  <1>6. FailedTilesAreOpen'
    <2>1. SUFFICES ASSUME NEW j \in Indices, tiles'[j].status = "failed"
                   PROVE  Open(tiles[j].shot)'
      BY <1>3 DEF FailedTilesAreOpen
    <2>2. Open(tiles[j].shot) \/ tiles[j].shot \in given'
      BY <1>3, <2>1 DEF CaptureInv, FailedTilesAreOpen
    <2>3. QED
      BY <1>3, <2>2 DEF Open, NotStored, Blocked, numberingVars
  <1>7. DoneTilesAreStored'
    BY <1>3 DEF CaptureInv, DoneTilesAreStored, numberingVars
  <1>8. Undisturbed(r, k)
    BY WaitingAlone
  <1>9. CallHolds(r)'
    BY <1>1, <1>3
  <1>10. \A j \in Indices : \/ tiles'[j].status = tiles[j].status
                            \/ tiles'[j].status = "done" /\ j \in mixedUp'
                            \/ Undisturbed(r, j)
    BY <1>3, <1>8
  <1>11. QED
    BY <1>3, <1>4, <1>5, <1>6, <1>7, <1>9, <1>10, AppStep

\* A call that ends, or is not waited for, and changes no tile.
LEMMA TilesRest ==
  ASSUME CaptureInv, NEW r \in Uploads, UNCHANGED numberingVars,
         UNCHANGED <<tiles, mixedUp>>, given' = given,
         call' \in [Uploads -> {NoCall, ForeignCall} \cup CallOfTheApp],
         \A s \in Uploads : s # r => call'[s] = call[s],
         ~(Uploading(r) /\ call[r].waits)', CallHolds(r)'
  PROVE  CaptureInv'
  <1>1. tiles' = tiles /\ mixedUp' = mixedUp /\ Indices' = Indices
    BY DEF Indices
  <1>2. CaptureTypeOK'
    BY <1>1 DEF CaptureInv, CaptureTypeOK
  <1>3. TilesDiffer' /\ FailedTilesAreOpen' /\ DoneTilesAreStored'
    BY <1>1 DEF CaptureInv, TilesDiffer, FailedTilesAreOpen, DoneTilesAreStored,
                Open, NotStored, Blocked, numberingVars
  <1>4. QED
    BY <1>1, <1>2, <1>3, AppStep

\* The answer to a rerun makes one tile done.
LEMMA RerunAnswered ==
  ASSUME CaptureInv, NEW r \in Uploads, InApp(r), call[r].op = "rerun",
         UNCHANGED numberingVars, given' = given,
         call' = [call EXCEPT ![r] = NoCall], NEW n, Reran(r, n)
  PROVE  CaptureInv'
  <1>0. CaptureTypeOK /\ CallHolds(r)
    BY DEF CaptureInv
  <1>1. /\ call' \in [Uploads -> {NoCall, ForeignCall} \cup CallOfTheApp]
        /\ call'[r] = NoCall
        /\ \A s \in Uploads : s # r => call'[s] = call[s]
    BY <1>0, CallChanges
  <1>2. ~Uploading(r)' /\ CallHolds(r)'
    BY <1>1 DEF NoCall, Uploading, InApp, Calls, CallHolds
  <1>3. CASE UNCHANGED <<tiles, mixedUp>>
    BY <1>1, <1>2, <1>3, TilesRest
  <1>4. ASSUME NEW k \in Indices, SetStatus(k, "done"),
               mixedUp' = IF k = call[r].tile THEN mixedUp ELSE mixedUp \cup {k}
        PROVE  CaptureInv'
    <2>1. /\ tiles' \in Seq(Tile) /\ Len(tiles') = Len(tiles) /\ Indices' = Indices
          /\ tiles'[k].status = "done"
          /\ \A j \in Indices : /\ tiles'[j].shot = tiles[j].shot
                                /\ tiles'[j].number = tiles[j].number
                                /\ j # k => tiles'[j] = tiles[j]
      BY <1>0, <1>4, StatusChanges
    <2>2. k \in mixedUp' \/ tiles[k].status = "done"
      BY <1>0, <1>4 DEF CallHolds
    <2>3. CaptureTypeOK'
      BY <1>0, <1>1, <1>4, <2>1 DEF CaptureTypeOK
    <2>4. TilesDiffer'
      BY <2>1 DEF CaptureInv, TilesDiffer
    <2>5. FailedTilesAreOpen'
      <3>1. \A j \in Indices : tiles[j].status = "failed" => Open(tiles[j].shot)
        BY DEF CaptureInv, FailedTilesAreOpen
      <3>2. QED
        BY <2>1, <3>1 DEF FailedTilesAreOpen, Open, NotStored, Blocked, numberingVars
    <2>6. mixedUp \subseteq mixedUp'
      BY <1>4
    <2>7. DoneTilesAreStored'
      BY <2>1, <2>2, <2>6 DEF CaptureInv, DoneTilesAreStored, numberingVars
    <2>8. QED
      BY <1>1, <1>2, <2>1, <2>2, <2>3, <2>4, <2>5, <2>6, <2>7, AppStep
  <1>5. QED
    BY <1>3, <1>4 DEF Reran

\* The answer tells the tile where its page is.
LEMMA TakeAnswerStep ==
  ASSUME CaptureInv, NEW r \in Uploads, TakeAnswer(r) PROVE CaptureInv'
  <1> DEFINE k == call[r].tile
             v == call[r].result
  <1>1. /\ Calls(r, "answered") /\ InApp(r) /\ call[r].waits /\ Complete(r, v)
        /\ call' = [call EXCEPT ![r] = NoCall]
        /\ UNCHANGED numberingVars /\ given' = given
    BY DEF TakeAnswer, Calls, InApp
  <1>2. /\ CaptureTypeOK /\ CallHolds(r) /\ given \subseteq Photos
        /\ call[r].op \in {"upload", "rerun"}
    BY <1>1, CallFields DEF CaptureInv, CaptureTypeOK
  <1>3. /\ call' \in [Uploads -> {NoCall, ForeignCall} \cup CallOfTheApp]
        /\ call'[r] = NoCall
        /\ \A s \in Uploads : s # r => call'[s] = call[s]
    BY <1>1, <1>2, CallChanges
  <1>4. ~Uploading(r)' /\ CallHolds(r)'
    BY <1>3 DEF NoCall, Uploading, InApp, Calls, CallHolds
  <1>5. CASE call[r].op = "upload"
    <2>1. Uploading(r) /\ UploadHolds(r)
      BY <1>1, <1>2, <1>5 DEF Uploading, CallHolds
    <2>2. CASE v = Failure
      <3>1. UploadFails(k) /\ mixedUp' = mixedUp
        BY <1>1, <1>5, <2>2 DEF Complete, UploadFails
      <3>2. Open(tiles[k].shot)
        BY <1>1, <2>1, <2>2 DEF UploadHolds, Shot
      <3>3. QED
        BY <1>1, <1>2, <1>3, <1>4, <2>1, <3>1, <3>2, UploadEnds
    <2>3. CASE v # Failure
      <3>1. Uploaded(k, v) /\ mixedUp' = mixedUp
        BY <1>1, <1>5, <2>3 DEF Complete, Uploaded
      <3>2. v \in 1 .. counted /\ pages[v] = tiles[k].shot
        BY <1>1, <2>1, <2>3 DEF UploadHolds, Shot
      <3>3. QED
        BY <1>1, <1>2, <1>3, <1>4, <2>1, <3>1, <3>2, UploadEnds
    <2>4. QED
      BY <2>2, <2>3
  <1>6. CASE call[r].op = "rerun"
    <2>1. CASE v = Failure
      <3>1. UNCHANGED <<tiles, mixedUp>>
        BY <1>1, <1>6, <2>1 DEF Complete
      <3>2. QED
        BY <1>1, <1>3, <1>4, <3>1, TilesRest
    <2>2. CASE v # Failure
      <3>1. Reran(r, call[r].number)
        BY <1>1, <1>6, <2>2 DEF Complete
      <3>2. QED
        BY <1>1, <1>6, <3>1, RerunAnswered
    <2>3. QED
      BY <2>1, <2>2
  <1>7. QED
    BY <1>2, <1>5, <1>6

\* A photograph that was given up may get a second page.
LEMMA GiveUpStep ==
  ASSUME CaptureInv, NEW r \in Uploads, GiveUp(r) PROVE CaptureInv'
  <1> DEFINE k == call[r].tile
             c == [call[r] EXCEPT !.waits = FALSE]
  <1>1. /\ call[r].waits /\ ~Calls(r, "sending") /\ Complete(r, Failure)
        /\ call' = [call EXCEPT ![r].waits = FALSE]
        /\ given' = IF call[r].op = "upload" THEN given \cup {tiles[k].shot} ELSE given
        /\ UNCHANGED numberingVars
    BY DEF GiveUp
  <1>2. /\ CaptureTypeOK /\ CallHolds(r) /\ given \subseteq Photos /\ InApp(r)
        /\ call[r] \in CallOfTheApp /\ call[r].op \in {"upload", "rerun"}
    BY <1>1, CallFields DEF CaptureInv, CaptureTypeOK
  <1>3. /\ c \in CallOfTheApp /\ ~c.waits /\ c.at = call[r].at /\ c.op = call[r].op
        /\ c.tile = call[r].tile /\ c.result = call[r].result
    BY <1>2, CallMoves DEF CallOfTheApp
  <1>4. call' = [call EXCEPT ![r] = c]
    BY <1>1, <1>2 DEF CaptureTypeOK
  <1> HIDE DEF c
  <1>5. /\ call' \in [Uploads -> {NoCall, ForeignCall} \cup CallOfTheApp]
        /\ call'[r] = c
        /\ \A s \in Uploads : s # r => call'[s] = call[s]
    BY <1>2, <1>3, <1>4, CallChanges
  <1>6. k \in Indices /\ tiles[k].shot \in Photos
    BY <1>2, ShotFacts DEF Shot
  <1>7. ~(Uploading(r) /\ call[r].waits)'
    BY <1>3, <1>5
  <1>8. CASE call[r].op = "upload"
    <2>1. Uploading(r) /\ UploadHolds(r)
      BY <1>2, <1>8 DEF Uploading, CallHolds
    <2>2. UploadFails(k) /\ mixedUp' = mixedUp
      BY <1>1, <1>8 DEF Complete, UploadFails
    <2>3. given' = given \cup {tiles[k].shot} /\ given' \subseteq Photos
      BY <1>1, <1>2, <1>6, <1>8
    <2>4. Indices' = Indices /\ \A j \in Indices : tiles'[j].shot = tiles[j].shot
      BY <1>2, <1>6, <2>2, StatusChanges DEF UploadFails
    <2>5. Shot(r)' = tiles[k].shot /\ Shot(r) = tiles[k].shot
      BY <1>3, <1>5, <1>6, <2>4 DEF Shot
    <2>6. UploadHolds(r)'
      BY <1>1, <1>3, <1>5, <2>1, <2>3, <2>5 DEF UploadHolds, Calls, Open, numberingVars
    <2>7. CallHolds(r)'
      BY <1>1, <1>2, <1>3, <1>5, <1>8, <2>4, <2>5, <2>6
      DEF CallHolds, Calls, InApp, numberingVars
    <2>8. QED
      BY <1>1, <1>5, <1>7, <2>1, <2>2, <2>3, <2>7, UploadEnds
  <1>9. CASE call[r].op = "rerun"
    <2>1. UNCHANGED <<tiles, mixedUp>> /\ given' = given /\ Indices' = Indices
      BY <1>1, <1>9 DEF Complete, Indices
    <2>2. CallHolds(r)'
      BY <1>1, <1>2, <1>3, <1>5, <1>9, <2>1
      DEF CallHolds, Calls, InApp, Uploading, numberingVars
    <2>3. QED
      BY <1>1, <1>5, <1>7, <2>1, <2>2, TilesRest
  <1>10. QED
    BY <1>2, <1>8, <1>9

\* A call that did not get out leaves its photograph as it was.
LEMMA FailToSendStep ==
  ASSUME CaptureInv, NEW r \in Uploads, FailToSend(r) PROVE CaptureInv'
  <1> DEFINE k == call[r].tile
  <1>1. /\ Calls(r, "sending") /\ InApp(r) /\ Complete(r, Failure)
        /\ call' = [call EXCEPT ![r] = NoCall]
        /\ UNCHANGED numberingVars /\ given' = given
    BY DEF FailToSend, Calls, InApp
  <1>2. /\ CaptureTypeOK /\ CallHolds(r) /\ given \subseteq Photos /\ call[r].waits
        /\ call[r].op \in {"upload", "rerun"}
    BY <1>1, CallFields DEF CaptureInv, CaptureTypeOK, CallHolds
  <1>3. /\ call' \in [Uploads -> {NoCall, ForeignCall} \cup CallOfTheApp]
        /\ call'[r] = NoCall
        /\ \A s \in Uploads : s # r => call'[s] = call[s]
    BY <1>1, <1>2, CallChanges
  <1>4. ~Uploading(r)' /\ CallHolds(r)'
    BY <1>3 DEF NoCall, Uploading, InApp, Calls, CallHolds
  <1>5. CASE call[r].op = "upload"
    <2>1. Uploading(r) /\ Open(tiles[k].shot)
      BY <1>1, <1>2, <1>5 DEF Uploading, CallHolds, UploadHolds, Shot
    <2>2. UploadFails(k) /\ mixedUp' = mixedUp
      BY <1>1, <1>5 DEF Complete, UploadFails
    <2>3. QED
      BY <1>1, <1>2, <1>3, <1>4, <2>1, <2>2, UploadEnds
  <1>6. CASE call[r].op = "rerun"
    <2>1. UNCHANGED <<tiles, mixedUp>>
      BY <1>1, <1>6 DEF Complete
    <2>2. QED
      BY <1>1, <1>3, <1>4, <2>1, TilesRest
  <1>7. QED
    BY <1>2, <1>5, <1>6

\* A call on its way to the server or back to the interceptor.
LEMMA CarryStep ==
  ASSUME CaptureInv, NEW r \in Uploads, Transmit(r) \/ Unauthorized(r) PROVE CaptureInv'
  <1>1. /\ InApp(r) /\ UNCHANGED numberingVars /\ UNCHANGED appVars
        /\ Calls(r, "sending") \/ Calls(r, "sent")
    BY DEF Transmit, Unauthorized, Calls, InApp
  <1>2. CaptureTypeOK /\ CallHolds(r) /\ call[r] \in CallOfTheApp
    BY <1>1, CallFields DEF CaptureInv
  <1>3. PICK c \in CallOfTheApp :
          /\ call' = [call EXCEPT ![r] = c]
          /\ c.at \in {"sending", "sent"} /\ (c.at = "sending" => c.waits)
          /\ c.op = call[r].op /\ c.tile = call[r].tile /\ c.waits = call[r].waits
    <2>1. CASE Transmit(r)
      <3> DEFINE c == [call[r] EXCEPT !.at = "sent"]
      <3>1. /\ c \in CallOfTheApp /\ c.at = "sent"
            /\ c.op = call[r].op /\ c.tile = call[r].tile /\ c.waits = call[r].waits
        BY <1>2, CallMoves DEF CallOfTheApp
      <3>2. call' = [call EXCEPT ![r] = c]
        BY <1>2, <2>1 DEF CaptureTypeOK, Transmit
      <3> HIDE DEF c
      <3>3. QED
        BY <3>1, <3>2
    <2>2. CASE Unauthorized(r)
      <3> DEFINE c == [[call[r] EXCEPT !.at = "sending"] EXCEPT !.replayed = TRUE]
      <3>1. /\ c \in CallOfTheApp /\ c.at = "sending"
            /\ c.op = call[r].op /\ c.tile = call[r].tile /\ c.waits = call[r].waits
        BY <1>2, CallMoves DEF CallOfTheApp
      <3>2. call' = [call EXCEPT ![r] = c] /\ call[r].waits
        BY <1>2, <2>2 DEF CaptureTypeOK, Unauthorized
      <3> HIDE DEF c
      <3>3. QED
        BY <3>1, <3>2
    <2>3. QED
      BY <2>1, <2>2
  <1>4. /\ call' \in [Uploads -> {NoCall, ForeignCall} \cup CallOfTheApp]
        /\ call'[r] = c
        /\ \A s \in Uploads : s # r => call'[s] = call[s]
    BY <1>2, <1>3, CallChanges
  <1>5. tiles' = tiles /\ mixedUp' = mixedUp /\ given' = given /\ Indices' = Indices
    BY <1>1 DEF appVars, Indices
  <1>6. /\ Shot(r)' = Shot(r) /\ InApp(r)' /\ Uploading(r)' = Uploading(r)
        /\ ~Calls(r, "stored")' /\ ~Calls(r, "answered")'
    BY <1>1, <1>3, <1>4, <1>5 DEF Shot, Uploading, InApp, Calls
  <1>7. ASSUME Uploading(r) PROVE UploadHolds(r)'
    <2>1. UploadHolds(r) /\ Open(Shot(r))
      BY <1>1, <1>2, <1>7 DEF CallHolds, UploadHolds
    <2>2. Open(Shot(r))'
      BY <1>1, <1>5, <1>6, <2>1 DEF Open, NotStored, Blocked, numberingVars
    <2>3. QED
      BY <1>3, <1>4, <1>5, <1>6, <2>1, <2>2 DEF UploadHolds
  <1>8. CallHolds(r)'
    BY <1>1, <1>2, <1>3, <1>4, <1>5, <1>6, <1>7 DEF CallHolds, Calls
  <1>9. (Uploading(r) /\ call[r].waits)' =>
          Uploading(r) /\ call[r].waits /\ call'[r].tile = call[r].tile
    BY <1>3, <1>4, <1>6
  <1>10. QED
    BY <1>1, <1>4, <1>8, <1>9, NothingStored

-----------------------------------------------------------------------------
\* An empty screen of an empty document.
LEMMA InitInv == CaptureInit => CaptureInv
  <1> SUFFICES ASSUME CaptureInit PROVE CaptureInv
    OBVIOUS
  <1>1. /\ DOMAIN pages = {} /\ counted = 0 /\ owner = Nobody
        /\ tiles = << >> /\ Indices = {} /\ mixedUp = {} /\ given = {}
        /\ call = [r \in Uploads |-> NoCall]
    BY DEF CaptureInit, StartEmpty, Indices
  <1>2. CaptureTypeOK
    BY <1>1 DEF CaptureTypeOK
  <1>3. \A r \in Uploads : ~InApp(r) /\ ~Calls(r, "stored") /\ ~Calls(r, "sending") /\ ~Uploading(r)
    BY <1>1 DEF NoCall, InApp, Calls, Uploading
  <1>4. NumberingOK
    BY <1>1 DEF NumberingOK
  <1>5. QED
    BY <1>1, <1>2, <1>3, <1>4
    DEF CaptureInv, PagesAreOfTiles, TilesDiffer, FailedTilesAreOpen, CallHolds,
        OneCallPerTile, DoneTilesAreStored, RetriesStoreOnce

\* Every step keeps the invariant.
LEMMA StepInv == CaptureInv /\ [CaptureNext]_captureVars => CaptureInv'
  <1> SUFFICES ASSUME CaptureInv, [CaptureNext]_captureVars PROVE CaptureInv'
    OBVIOUS
  <1>1. ASSUME NEW r \in Uploads, Press(r) PROVE CaptureInv'
    BY <1>1, CapturePageStep, RetryStep, RerunOcrStep DEF Press
  <1>2. ASSUME NEW r \in Uploads, Settle(r) PROVE CaptureInv'
    BY <1>2, TakeAnswerStep, GiveUpStep DEF Settle
  <1>3. ASSUME NEW r \in Uploads, Carry(r) PROVE CaptureInv'
    BY <1>3, CarryStep, FailToSendStep, CallOver DEF Carry, Forget
  <1>4. ASSUME NEW r \in Uploads, Store(r) \/ AnswerUpload(r) \/ AnswerRerun(r) \/ AnswerError(r)
        PROVE  CaptureInv'
    BY <1>4, StoreStep, AnswerUploadStep, AnswerRerunStep, AnswerErrorStep
  <1>5. ASSUME NEW r \in Uploads, StoreForeign(r) \/ EndForeign(r) PROVE CaptureInv'
    BY <1>5, StoreForeignStep, CallOver DEF EndForeign
  <1>6. CASE UNCHANGED captureVars
    <2>1. /\ pages' = pages /\ counted' = counted /\ owner' = owner
          /\ tiles' = tiles /\ mixedUp' = mixedUp /\ given' = given /\ call' = call
      BY <1>6 DEF captureVars, numberingVars, appVars
    <2>2. Indices' = Indices
      BY <2>1 DEF Indices
    <2>3. CaptureTypeOK' /\ NumberingOK' /\ PagesAreOfTiles' /\ TilesDiffer'
      BY <2>1, <2>2 DEF CaptureInv, CaptureTypeOK, NumberingOK, PagesAreOfTiles, TilesDiffer
    <2>4. FailedTilesAreOpen' /\ DoneTilesAreStored' /\ RetriesStoreOnce' /\ OneCallPerTile'
      BY <2>1, <2>2 DEF CaptureInv, FailedTilesAreOpen, DoneTilesAreStored, RetriesStoreOnce,
         OneCallPerTile, Uploading, InApp, Open, NotStored, Blocked
    <2>5. \A r \in Uploads : CallHolds(r)'
      BY <2>1, <2>2 DEF CaptureInv, CallHolds, UploadHolds, Uploading, InApp, Calls, Shot,
         Open, NotStored, Blocked
    <2>6. QED
      BY <2>3, <2>4, <2>5 DEF CaptureInv
  <1>7. QED
    BY <1>1, <1>2, <1>3, <1>4, <1>5, <1>6 DEF CaptureNext

\* The inductive invariant of the screen and the server.
THEOREM CaptureInvariant == CaptureSpec => []CaptureInv
  BY InitInv, StepInv, PTL DEF CaptureSpec

\* Every state of the tiles, the calls and what became of them has its type
\* (capture_controller.dart:11-44).
THEOREM CaptureTypes == CaptureSpec => []CaptureTypeOK
  <1>1. CaptureInv => CaptureTypeOK
    BY DEF CaptureInv
  <1>2. QED
    BY <1>1, CaptureInvariant, PTL

\* A tile that is done is a page of the document, with the number it shows and
\* for its photograph, for any number of calls that overlap, time out and are
\* answered in any order (capture_controller.dart:73-83).
THEOREM DoneTilesArePages == CaptureSpec => []DoneTilesAreStored
  <1>1. CaptureInv => DoneTilesAreStored
    BY DEF CaptureInv
  <1>2. QED
    BY <1>1, CaptureInvariant, PTL

\* A retry stores a second page only of a photograph the app gave up on
\* (capture_controller.dart:89-95).
THEOREM RetriesAreSafe == CaptureSpec => []RetriesStoreOnce
  <1>1. CaptureInv => RetriesStoreOnce
    BY DEF CaptureInv
  <1>2. QED
    BY <1>1, CaptureInvariant, PTL
=============================================================================
