------------------------------- MODULE Capture -------------------------------
(***************************************************************************)
(* Capturing a document: CaptureController of the app over the uploads of  *)
(* PageNumbers, which DocumentPages implements.  Each tile on the screen   *)
(* is a photograph; its upload and the reruns of its page are calls that   *)
(* overlap.  A call may be under way to the server for as long as it likes *)
(* and never arrive, its answer may be lost, and the app gives up a minute *)
(* after it was sent while the server, whose transcription takes longer,   *)
(* goes on.                                                                *)
(***************************************************************************)
EXTENDS PageNumbers, Sequences

CONSTANTS
  TileLimit,  \* bound on the photographs taken
  Foreign     \* the photograph of every page that was not taken on this screen

ASSUME CaptureAssumption ==
  /\ TileLimit \in Nat /\ Last \in Nat
  /\ Nobody \notin Uploads /\ Foreign \notin Photos

VARIABLES
  tiles,    \* state.pages: a sequence of CapturedPage
  call,     \* [Uploads -> the call of the app this request serves]
  mixedUp,  \* tiles that were ever given the answer to another's rerun: history
  given     \* photographs whose upload was once sent and given up on: history

appVars == <<tiles, mixedUp, given>>
captureVars == <<numberingVars, appVars, call>>

NoCall == [at |-> "none", waits |-> FALSE]
ForeignCall == [at |-> "foreign", waits |-> FALSE]
Failure == 0
Indices == 1 .. Len(tiles)

Calls(r, stage) == call[r].at = stage

-----------------------------------------------------------------------------
(* CaptureController.  Tiles are only appended, so an index stays right; a  *)
(* tile's page number is a guess until the server has said it.              *)

\* Mutant: tiles are numbered from zero.
CapturedPageFromZero(k, i) == [number |-> k - 1, status |-> "uploading", shot |-> i]

CapturedPage(k, i) == [number |-> k, status |-> "uploading", shot |-> i]

SetStatus(k, status) == tiles' = [tiles EXCEPT ![k].status = status]

Send(r, op, k) ==
  /\ Calls(r, "none")
  /\ call' = [call EXCEPT ![r] = [at |-> "sending", op |-> op, tile |-> k, waits |-> TRUE,
                                  replayed |-> FALSE, number |-> tiles'[k].number,
                                  result |-> Failure]]
  /\ UNCHANGED <<numberingVars, mixedUp, given>>

\* The photograph is compressed before the index is taken: no await in between.
CapturePage(r, i) ==
  /\ Len(tiles) < TileLimit
  /\ \A k \in Indices : tiles[k].shot # i
  /\ tiles' = Append(tiles, CapturedPage(Len(tiles) + 1, i))
  /\ Send(r, "upload", Len(tiles) + 1)

\* Mutant: a tile that is still uploading has the button, too.
RetryAny(r, k) ==
  /\ tiles[k].status \in {"uploading", "failed"}
  /\ SetStatus(k, "uploading")
  /\ Send(r, "upload", k)

\* The button of a failed tile.
Retry(r, k) ==
  /\ tiles[k].status = "failed"
  /\ SetStatus(k, "uploading")
  /\ Send(r, "upload", k)

\* The button of a tile that is done; the tile stays as it is meanwhile.
RerunOcr(r, k) ==
  /\ tiles[k].status = "done"
  /\ UNCHANGED tiles
  /\ Send(r, "rerun", k)

\* Mutant: the tile keeps the number it was given on the screen.
UploadedAsNumbered(k, n) == SetStatus(k, "done") /\ UNCHANGED mixedUp

\* _upload replaces the tile it was called for.
Uploaded(k, n) ==
  /\ tiles' = [tiles EXCEPT ![k] = [@ EXCEPT !.number = n, !.status = "done"]]
  /\ UNCHANGED mixedUp

\* Mutant: the exception is not caught.
UploadFailsSilently(k) == UNCHANGED <<tiles, mixedUp>>

UploadFails(k) == SetStatus(k, "failed") /\ UNCHANGED mixedUp

\* rerunOcr gives the text to the first tile that bears the page number.
Reran(r, n) ==
  \/ /\ \A k \in Indices : tiles[k].number # n
     /\ UNCHANGED <<tiles, mixedUp>>
  \/ \E k \in Indices :
       /\ tiles[k].number = n
       /\ \A j \in 1 .. k - 1 : tiles[j].number # n
       /\ SetStatus(k, "done")
       /\ mixedUp' = IF k = call[r].tile THEN mixedUp ELSE mixedUp \cup {k}

\* A rerun that fails throws where nobody catches it.
Complete(r, result) ==
  CASE call[r].op = "upload" /\ result = Failure -> UploadFails(call[r].tile)
    [] call[r].op = "upload" /\ result # Failure -> Uploaded(call[r].tile, result)
    [] call[r].op = "rerun" /\ result = Failure -> UNCHANGED <<tiles, mixedUp>>
    [] call[r].op = "rerun" /\ result # Failure -> Reran(r, call[r].number)

-----------------------------------------------------------------------------
(* The network between the app and the server *)

\* The interceptor has read the key store and the whole body is on the server.
\* Nothing bounds the time this takes: there is no sendTimeout, and a key store
\* that throws leaves the interceptor's handler without a call.
Transmit(r) ==
  /\ Calls(r, "sending")
  /\ call' = [call EXCEPT ![r].at = "sent"]
  /\ UNCHANGED <<numberingVars, appVars>>

\* No connection, or it breaks before the body is complete, or the refresh that
\* a replay waits for fails: the server has not seen the call.
FailToSend(r) ==
  /\ Calls(r, "sending")
  /\ Complete(r, Failure)
  /\ call' = [call EXCEPT ![r] = NoCall]
  /\ UNCHANGED <<numberingVars, given>>

\* A first 401 goes to the interceptor, which refreshes and sends once more.
Unauthorized(r) ==
  /\ Calls(r, "sent") /\ call[r].waits /\ ~call[r].replayed
  /\ call' = [call EXCEPT ![r].at = "sending", ![r].replayed = TRUE]
  /\ UNCHANGED <<numberingVars, appVars>>

\* The answer arrives, an error or not, while the app still waits for it.
TakeAnswer(r) ==
  /\ Calls(r, "answered") /\ call[r].waits
  /\ Complete(r, call[r].result)
  /\ call' = [call EXCEPT ![r] = NoCall]
  /\ UNCHANGED <<numberingVars, given>>

\* The connection breaks or receiveTimeout passes.  What was sent may still be
\* served, or even arrive only now.
GiveUp(r) ==
  /\ call[r].waits /\ ~Calls(r, "sending")
  /\ Complete(r, Failure)
  /\ call' = [call EXCEPT ![r].waits = FALSE]
  /\ given' = IF call[r].op = "upload" THEN given \cup {tiles[call[r].tile].shot} ELSE given
  /\ UNCHANGED numberingVars

\* An answer nobody waits for, and a call that never arrives.
Forget(r) ==
  /\ Calls(r, "answered") \/ Calls(r, "sent")
  /\ ~call[r].waits
  /\ call' = [call EXCEPT ![r] = NoCall]
  /\ UNCHANGED <<numberingVars, appVars>>

-----------------------------------------------------------------------------
(* The server *)

Answer(r, result) ==
  /\ call' = [call EXCEPT ![r].at = "answered", ![r].result = result]
  /\ UNCHANGED appVars

\* Everything of an upload up to its page row.
Store(r) ==
  /\ Calls(r, "sent") /\ call[r].op = "upload"
  /\ Insert(r, tiles[call[r].tile].shot)
  /\ call' = [call EXCEPT ![r].at = "stored"]
  /\ UNCHANGED appVars

\* And from there on: the answer is the number of the page counted last.
AnswerUpload(r) ==
  /\ Calls(r, "stored")
  /\ Count(r)
  /\ Answer(r, counted + 1)

AnswerRerun(r) ==
  /\ Calls(r, "sent") /\ call[r].op = "rerun"
  /\ call[r].number \in DOMAIN pages
  /\ Answer(r, call[r].number)
  /\ UNCHANGED numberingVars

\* An error before a row is there, one after it, and a refusal.
AnswerError(r) ==
  /\ \/ Calls(r, "sent") /\ UNCHANGED numberingVars
     \/ Calls(r, "stored") /\ Lose(r)
  /\ Answer(r, Failure)

\* The same for a page that the owner adds on another device, or added before
\* the screen of a document was opened again.
StoreForeign(r) ==
  /\ Calls(r, "none")
  /\ Insert(r, Foreign)
  /\ call' = [call EXCEPT ![r] = ForeignCall]
  /\ UNCHANGED appVars

EndForeign(r) ==
  /\ Calls(r, "foreign")
  /\ Count(r) \/ Lose(r)
  /\ call' = [call EXCEPT ![r] = NoCall]
  /\ UNCHANGED appVars

-----------------------------------------------------------------------------
CaptureInit ==
  /\ StartEmpty
  /\ tiles = << >>
  /\ call = [r \in Uploads |-> NoCall]
  /\ mixedUp = {}
  /\ given = {}

Press(r) ==
  \/ \E i \in Photos : CapturePage(r, i)
  \/ \E k \in Indices : Retry(r, k) \/ RerunOcr(r, k)

Carry(r) == Transmit(r) \/ FailToSend(r) \/ Unauthorized(r) \/ Forget(r)

Settle(r) == TakeAnswer(r) \/ GiveUp(r)

CaptureNext ==
  \E r \in Uploads :
    \/ Press(r) \/ Carry(r) \/ Settle(r)
    \/ Store(r) \/ AnswerUpload(r) \/ AnswerRerun(r) \/ AnswerError(r)
    \/ StoreForeign(r) \/ EndForeign(r)

\* Once a call is sent, receiveTimeout ends it whatever the server does.  Nothing
\* ends one that is still being sent.
CaptureSpec ==
  /\ CaptureInit /\ [][CaptureNext]_captureVars
  /\ \A r \in Uploads : WF_captureVars(Settle(r))

-----------------------------------------------------------------------------
(* Properties *)

Tile == [number : 1 .. TileLimit \cup 1 .. Last,
         status : {"uploading", "done", "failed"}, shot : Photos]

CallOfTheApp ==
  [at : {"sending", "sent", "stored", "answered"}, op : {"upload", "rerun"},
   tile : 1 .. TileLimit, waits : BOOLEAN, replayed : BOOLEAN,
   number : 1 .. TileLimit \cup 1 .. Last, result : 0 .. Last]

CaptureTypeOK ==
  /\ tiles \in Seq(Tile) /\ Len(tiles) <= TileLimit
  /\ call \in [Uploads -> {NoCall, ForeignCall} \cup CallOfTheApp]
  /\ mixedUp \subseteq Indices
  /\ given \subseteq Photos

\* A tile that is done is a page of the document: the number it shows is counted
\* and was stored for its photograph, unless the answer to another tile's rerun
\* made it so (capture_controller.dart:73-83).
DoneTilesAreStored ==
  \A k \in Indices :
    tiles[k].status = "done" /\ k \notin mixedUp =>
      /\ tiles[k].number \in 1 .. counted
      /\ pages[tiles[k].number] = tiles[k].shot

\* However often an upload is retried, its photograph becomes one page, unless
\* the app once gave up on it when it was sent and not answered: an upload that
\* was answered with an error, or that did not get out, is safe to retry, even
\* where the server failed after it had stored the row.
RetriesStoreOnce ==
  \A n, m \in DOMAIN pages :
    pages[n] = pages[m] /\ pages[n] \notin given \cup {Foreign} => n = m

BeingSent(k) ==
  \E r \in Uploads : Calls(r, "sending") /\ call[r].op = "upload" /\ call[r].tile = k

\* A tile is left uploading for ever only if its call is being sent for ever:
\* the one part of a call that the app does not bound (dio_factory.dart:8-13).
\* A server that is silent, slow or refuses leaves no tile spinning.
EveryTileSettles ==
  \A k \in 1 .. TileLimit :
    (k \in Indices /\ tiles[k].status = "uploading")
      ~> ((k \in Indices /\ tiles[k].status # "uploading") \/ []BeingSent(k))

\* A rerun updates the tile whose button was pressed
\* (capture_controller_test.dart:73).
RerunUpdatesItsPage == mixedUp = {}
=============================================================================
