# Verification of pustaka

pustaka turns photographs of pages into text: a Flutter app captures pages, a Go
server stores them, has them transcribed and transformed by a local Ollama, and
lets their owner share them. This directory holds TLA+ models of the parts of it
that are hard to test, TLC configurations that check them on small instances, and
TLAPS proofs of what holds for instances of any size. Paths are relative to the
repository's root.

## 1. The system

| Component | Code | State | Operations |
|---|---|---|---|
| Auth service | `backend/internal/app/auth/service.go` | `web_user`, `session`, `email_verification` | Register, VerifyEmail, ResendVerification, Login, Refresh, Logout, Me |
| Documents | `backend/internal/app/document/{service,addpage,edit}.go` | `document`, `page` | Create, AddPage, Rename, SetThumbnail, Delete, List, Get |
| Access and sharing | `backend/internal/app/document/{authorize,share_service}.go` | `document_share` | authorizeDoc, ShareDocument, ListShares, RevokeShare |
| OCR | `backend/internal/app/ocr/service.go` | `ocr_result` | Run, Rerun |
| Transform | `backend/internal/app/transform/service.go` | `output` | Run, GetOutput |
| Blob store | `backend/internal/adapter/blob/blob.go` | files | Put, Thumbnail, Get, Delete |
| Store | `backend/internal/adapter/store` | Postgres | one method per query, ExecTx |
| HTTP | `backend/internal/adapter/httpapi` | rate-limit windows, served version | parsing, envelopes, links, findPage, serveBlob, RequireAuth, RateLimit |
| App: auth | `mobile/lib/core/auth` | two stored tokens, auth status | bootstrap, login, logout, refreshTokens, the interceptor's single-flight refresh |
| App: capture | `mobile/lib/features/capture` | the tiles on the screen | capturePage, retry, rerunOcr |
| App: library, reader, sharing, transform | `mobile/lib/features` | fetched lists | fetch, updates after an answer |

**How they interact.** The app calls the API; a handler calls one method of one
service; a service makes a series of round trips to Postgres, and the document, OCR and
transform services also to the file system and to Ollama. Only Register, VerifyEmail and
Refresh use a transaction, and each reads what it decides on *before* it. There
are no locks, no row versions and no conditions in the UPDATEs: each statement is
atomic, nothing between two statements is. Handlers run concurrently, so every
pair of statements is a place where another request can act, where the server can
die, and where a statement can fail.

**What is hard.** Reads that are stale when they are acted on (refresh, verify,
authorize, page numbers, details, transforms); sequences of statements cut short (resend,
upload); the order of file writes and the unique constraint; client retries and timeouts
against a server that went on; answers that arrive when the screen has changed; two
tokens in storage written one after the other. `PROJECT.json` lists each of these at its
line.

**What correctness means, per component.**
- *Sessions:* a token is exchanged for one successor; nothing that descends from a
  token presented after its revocation stays alive; nobody is logged out without cause.
- *Verification:* a code opens one session, guesses are counted, a user who keeps
  trying gets in.
- *Pages:* numbers have no gap, the count counts finished pages, rows have their files,
  a page shows its own photograph and text, a failed page can be retried.
- *Reading and transforms:* a detail made of many queries is consistent, links that were
  shown lead to files, an output leaves out no page that had a text.
- *Capture:* what the screen shows as done is stored, a retry does not duplicate a page,
  no tile waits for ever.
- *Access:* nobody is served without access, nobody with access is turned away,
  strangers learn nothing, deletion is final.
- *App auth:* the app never presents a token it has itself exchanged, every waiting call
  goes on.

## 2. Modules

| Module | Models | Builds on |
|---|---|---|
| `AuthStore` | tables and queries of the auth schema, requests in flight, the clock | |
| `Sessions` | Login, Refresh, Logout | `AuthStore` |
| `RefreshTokens` | abstract: what a refresh token promises | |
| `EmailVerification` | Register, VerifyEmail, ResendVerification | `AuthStore` |
| `AuthService` | all of the auth service over one set of tables | `Sessions`, `EmailVerification` |
| `PageNumbers` | abstract: how the pages of a document are numbered | |
| `DocumentPages` | AddPage, Run, Rerun, the files of one document | `PageNumbers` (implemented) |
| `PageImages` | which photograph the files of a page hold, beside overlapping uploads | `DocumentPages` |
| `Reading` | Get, the links, SetThumbnail, `transform.Run` between the writes of the pages | `DocumentPages` |
| `Capture` | the app's capture screen, the network, the server's answers | `PageNumbers` (as the server) |
| `DocumentAccess` | authorizeDoc and what is behind it: read, edit, share, revoke, delete | |
| `AccessPolicy` | abstract: who may read a document | |
| `MobileAuth` | the app's tokens: controller, interceptor, storage | `RefreshTokens` (as the server) |
| `*Proofs` | theorems: `Sessions` (with its refinement), `AuthService`, `Verification` (the codes, in the whole auth service), `DocumentPages` (with `PageImages`), `Reading`, `Capture`, `DocumentAccess`, `MobileAuth` | |
| `MC*` | the small instances | |

Three abstract specifications tie the parts together. `RefreshTokens` is implemented by
the auth service (as long as no refresh commits over a session that was ended after it
was read) and is the server that `MobileAuth` talks to. `PageNumbers` is implemented by
`DocumentPages` without any condition and is the server that `Capture` talks to, so that
the screen is not checked against more of the upload than it can see. `AccessPolicy` is
implemented by `DocumentAccess`.

### State and actions

*A request* is an entry of `req`: the stage it has reached and what its goroutine
holds from earlier round trips. Each action is one round trip: one statement, one
transaction, or one call to the file system, the mailer or Ollama, with all the code
from the previous one to the next. An action named after a method ends in what that
round trip does (`RefreshReadLive`, `RefreshRotate`). A request may end at any stage
(`Abort`, `Fail`, `Leave`): the statement failed, the client left, or the server died.
A crash of the server is all requests ending at once; nothing else is lost, since the
services keep no state of their own.

*Sessions.* An id of `SessionIds` stands for a row, its token and its hash, which are
in one-to-one correspondence. `revoked_at` and `expires_at` are kept as what they are
compared with: NULL or not, and the age in ticks up to one past `RefreshTTL`. `parent`,
`condemned`, `loggedOut` and `late` are history: no action reads them.

*Verification.* A code stands for its row and its six digits. The digits of two codes
are taken to be different; a wrong guess is any other code or `Null`. The table is a
function from codes to rows, `NoVerification` where there is none; the rows of a user are
ordered by `created_at`, which is kept as `nth`, the row's place among them (they are
deleted all at once, so a place is taken once). `attempts` saturates at `MaxAttempts`,
which is all the code compares it with. `uses`, `invalid` and `lastCode` are history.

*The whole auth service.* `AuthService` runs the requests of both modules over the same
tables and the same requests in flight: a code redeemed by VerifyEmail opens a session
which is then refreshed, replayed and logged out like one of Login. It starts from a
database without users, so nobody is verified who did not prove the address.

*Pages.* One document of a fixed owner. `status[n]`, `latest[n]` and `pageCount` are
columns of the page, of its latest transcription and of the document; `image` and
`thumb` are the files, `Empty` between the truncation and the write that
`os.WriteFile` is made of. `PageNumbers` keeps of this the photograph of every row,
the count, and who is in charge of the row that is not counted yet (`owner`); a row
whose upload ended before the count stays for good with nobody in charge of it.
`PageImages` adds an observer, `contested`: the numbers at whose files a second upload has
worked, which read the same `page_count` as the one that has the row or is about to.

*Reading.* A reader is an entry of `reader`, like a request: which query it has come to
and what it has read. `Get` is the document row, the pages, the latest result of each page
one by one, the outputs. A link is followed by a request of its own, later, and `findPage`
fetches the whole detail again before it opens the file. `want` is the page asked for,
`got` what was served, with `Null` for a 404. A transform lists the pages, reads their
results one by one, skips those it cannot read, asks the model once or once a page, and
stores which pages the output is made of. `kept` is history: the pages a transform
listed with a text, that had one, the same or another, at every moment since.

*Capture.* An element of `tiles` is a `CapturedPage`; `shot` stands for its bytes, which
a retry sends again. `call` is a call of the app from the press of a button until both
sides are done with it: `sending`, from the interceptor's read of the key store to the last
byte of the body, `sent`, `stored` once its row is there, `answered`; `waits` is FALSE once
the app gave up. While it is sent the connection may break, and it need never be sent in
full. From then on the app gives up at any moment (a broken connection, or the receive
timeout of a minute), and what was sent may be served afterwards. A first 401 sends the
call once more (`Unauthorized`); the refresh in between is `MobileAuth`'s. Pages may also
be added elsewhere, on another device or before the screen was opened again by "resume"
(`StoreForeign`). `mixedUp` and `given` are history: the tiles that took the answer to
another tile's rerun, and the photographs whose upload once ended without an answer.

*Access.* Pairs of `shares` are the rows of `document_share` with their unique
constraint. What a read returns and an edit writes is left out, so that the module is
about who gets that far. `held` and `kept` are history: whether the user of a request
had access at some moment, and at every moment, since it began. `late` are shares
inserted when their document was already deleted.

*App auth.* Dart runs one piece of code at a time, so an action of `MobileAuth` is the
code between two awaits, with the continuations it completes: when the shared refresh
ends, every waiting handler runs in the same step (`WakeWith`, `WakeLoggedOut`). `task`
holds the methods of the controller and the calls of the features that are under way,
`rotation` the one `refreshTokens()` they share, `clears` the keys that some `clear()`
of `markLoggedOut` is still about to delete, since nobody awaits it; how many are under
way is left open, so that a key may be deleted again and again. `access` and `refresh`
are the two keys; a value names the pair its token belongs to. `refreshTokens` needs
only the refresh token of the pair it reads, so reading is one step there; it writes in
two. The server's `Replay` is what the app must not set off. `adrift` are refresh calls
the app gave up on, which may reach the server later; `lost` is history, the tokens the
server may have ended without the app's knowledge. The status `unverified` is left out:
whoever holds a session is verified (`OnlyVerifiedHoldSessions`). A refresh ends with
new tokens (`RotationAnswered`), a 401 (`RotationRefused`), any other error, of the rate
limiter or the server, with the token as good as before (`RotationFails`), or without an
answer (`RotationTimesOut`), which is also what a token that ran out at the server looks
like. New tokens are those of no pair used before; which of the unused pairs they are
makes no difference, so one is picked. The key store takes its time and answers in any
order with the network. A key store that throws, which is a `PlatformException` and no
`Failure`, so that no `catch` of the code expects it, is not modelled.

Definitions marked "Mutant" next to an operator are the mistakes one could make there;
no specification uses them. Each property has one that breaks it.

## 3. Runs

| Run | Shows | Bounds |
|---|---|---|
| `auth_serial` | all of the auth service without overlap: a replay ends all descendants, the tables implement `RefreshTokens`; a code opens one session, one good code per user, the cooldown holds across half-done resends; whoever keeps trying is verified | 1 user, 2 sessions, 2 codes, 1 request; `RefreshTTL` 1, `CodeTTL` 3, cooldown 2, cap 2 |
| `auth_service` | the same service with requests that overlap: only proof of the address opens a session, rotation is atomic, no stray revocation, the answer to a replay is final, whatever outlives a replay or a logout raced it, no guess escapes the count | 1 user, 3 sessions, 1 code, 2 requests; `RefreshTTL` 0, `CodeTTL` 1, cap 2 |
| `sessions_theft_response` | *violated*: with overlap a successor outlives the answer to a replay | 1 user, 3 sessions, 2 requests |
| `verification_single_use` | *violated*: two submissions of one code that overlap both succeed | 1 user, 2 sessions, 2 codes, 2 requests |
| `verification_cap` | *violated*: the right code is accepted after the cap | 1 user, 2 sessions, 2 codes, 1 request |
| `pages` | gapless numbers, a count of done pages, rows with their files, each its own photograph and text unless two uploads worked at it, under failures anywhere; the tables implement `PageNumbers` | 2 photographs, 2 pages, 2 requests, both modes |
| `pages_retry` | *violated*: after a failed transcription no upload succeeds again | 1 image, 2 pages, 1 request |
| `reading` | details are consistent, links lead to files, outputs are complete | 1 image, 2 pages, 1 upload or rerun beside 1 reader, both modes, all scopes, 1 output |
| `capture` | done tiles are stored under their number, retries store a photograph once unless the app gave up on it, no tile waits for ever unless its upload is being sent for ever | 2 photographs, 2 tiles, 2 calls, 3 pages |
| `capture_rerun` | *violated*: a rerun's text is given to another tile | as `capture` |
| `document_access` | the four access properties, and the tables implement `AccessPolicy` | 2 users, 1 document, 3 requests |
| `mobile_auth` | the app presents no dead token by its own doing, and every call ends, in every order of key store, network and un-awaited deletions | 1 user, 2 pairs, 2 calls |

**Why the bounds are enough to be interesting.** Every race in the auth service is
between one request that has read and one that writes, so two requests suffice, and
three sessions hold a predecessor, its successor and a stranger to both. A cap of two
attempts has a guess below it and one at it. Two requests with different photographs
make a winner and a loser of one number, an upload beside a rerun, and, one after
another, every longer sequence; that three at a time change nothing is what the proofs
show. A reader acts on what it read before one upload or rerun moved on, and one writer
after another is every order of writes a reader can meet between two of its queries,
since a step of a reader changes no page. Two photographs and three numbers let one tile
bear the number another was stored under, and leave room for a page from elsewhere
between them. A read served over a deleted document needs a reader, a share and a
deletion at the same time: three requests. Two calls of the app are one that starts the
shared refresh and one that joins it, or a login beside either, and two pairs are the
one in use and its successor, or those of two logins. Ages run one tick past the last
comparison, so time is not bounded. Ids, codes, pages, outputs, tiles and requests are
bounded; the proofs lift that bound where there is one.

**Symmetry** is used for users, ids, codes, images and requests in runs whose properties
are invariants or step properties; never where a liveness property is checked.

**Fairness.**
- `AuthService!FairSpec` (`auth_serial`): the user keeps asking and keeps submitting a
  code that has arrived (strong fairness of the reads), a request that keeps being
  started finishes now and then instead of failing for ever, and a mail now and then
  arrives before its code expires. A single lost mail or dead request is never excluded,
  and nothing is assumed of logins, refreshes and logouts.
- `DocumentPages!FairSpec` (`pages_retry`): the owner keeps uploading and rerunning, and no
  step of an upload fails for ever. Even so no retry succeeds.
- `CaptureSpec` (`capture`): a call that has been sent comes to an end in the app, because
  dio has a receive timeout (`dio_factory.dart:8-13`). Nothing is assumed of a call that is
  being sent: there is no `sendTimeout`, and an interceptor whose read of the key store
  throws never passes the call on (`auth_interceptor.dart:25-27`). `EveryTileSettles` says
  what is left: a tile spins for ever only if its upload is being sent for ever. The server
  owes nothing.
- `MobileAuth!FairSpec`: each task, and the refresh they share, takes its next step when it
  stays possible (weak fairness): the key store answers and does not throw, and a request,
  which here has no body to speak of, is answered or times out (`connectTimeout`,
  `receiveTimeout`). Image uploads are `Capture`'s calls, not these. Nothing is assumed of
  the `clear()` that nobody awaits.

**Deadlock** is checked except in the page, reading and capture runs, where uploading
stops at the page limit.

## 4. Proofs

Assumptions are those of the modules: the TTLs are naturals, `Null` is not an id,
(codes) the codes are finitely many, so that a newest one exists, the attempt cap is
positive and `ResendCooldown` is at most `CodeTTL`, (pages) `Empty` is not an image and
there is a limit, (reading) scopes are of the three kinds, (capture) `Nobody` is not a
request and `Foreign` not a photograph. Users, sessions, codes, documents, requests,
readers and calls are any sets. No assumption makes requests take turns; a theorem that
is about fewer behaviours than all names them in its statement.

*Sessions* (`SessionsProofs`). The safety properties are not inductive. The invariant
adds that a row that does not exist is named by nothing, that condemned sessions are
revoked, and that what a request has read of a row's owner still holds when it writes
(`ReadsHold`), which is all that survives the gap between read and write. The proof is
one lemma per kind of query, and one step per action under it. Proved for any
number of overlapping requests: `TypeOK`, `OnlyVerifiedHoldSessions`,
`RotationKillsParent`, `NoStrayRevocation`, `CondemnedStayRevoked`,
`SurvivorsRacedTheEnd`.

*The whole auth service* (`AuthServiceProofs`). The invariant of `Sessions` is kept by the
steps of the verification, too: they leave the sessions alone or open one for a user who
has just become verified (`SessionsOpen`), and whatever stage they take a request to is
none of those the invariant speaks of (`VerificationRequests`). The same five properties
hold of `AuthSpec`. In the behaviours in which `late` stays empty, the whole service
implements `RefreshTokens` (`OnlyLateRotationsBreakTheService`) and a replay leaves no
descendant alive (`OnlyLateRotationsOutliveAReplay`), however the requests overlap otherwise.

*Codes* (`VerificationProofs`), in two layers over the invariant of the sessions.
`CodesInv` holds however requests overlap: the rows have their types and the places of one
user's rows are different, so that the newest is a row of that user (`NewestIsActive`); and
every answer "invalid code" was given with an increment that was still below the cap
(`AnswersAreCounted`), because the UPDATE returns the count of its own. This proves
`AuthTypeOK` and `InvalidAnswersBelowCap`. The other properties of codes are false when two
redemptions of one user overlap, as the run `verification_single_use` shows. They are proved
of the behaviours in which at most one request of a user is between its read of a code and
the writes that redeem or replace it (`OneAtATime`); wrong guesses, logins, refreshes, mails
and all requests of other users still run beside it. `SerialInv` says what then survives
until the write (`ReadsAreFresh`: the code read is still the good one, the user still
unverified, the cooldown still over) and that a user has at most one good code, none once
verified, and none that is older than the last creation (`UserCodes`). From it:
`CodeIsSingleUse`, `OneActiveCode`, `CooldownSpacesCodes`.

*Refinement of the promise* (`SessionsProofs`). Every step that commits no
rotation over a dead parent is a step of `RefreshTokens` or a stutter. Hence
`OnlyLateRotationsBreakThePromise`: behaviours in which `late` stays empty implement it.
`late` grows in one step only, the commit of a refresh whose session was live when it was
read and is revoked when it commits; the race that the run `sessions_theft_response`
exhibits is thereby the only one.

*Pages* (`DocumentPagesProofs`). `NumbersHaveNoGap` and `CountedPagesAreDone` need what
each request knows at its stage: the row it inserted is the one past the count, and only
one request at a time is in charge of that row. Proved: `TypeOK`, `NumbersHaveNoGap`,
`CountedPagesAreDone`, `RowsHaveFiles`, and from the same invariant that every step is one
of `PageNumbers` or a stutter (`UploadsKeepNumbering`): `Insert` is the row that gets past
the unique constraint, `Count` the increment, `Lose` any other end of the upload in charge.
`PagesKeepTheirPhotograph` adds what the files hold (`PhotoInv`): an upload whose number is
not contested is alone with it and finds no row there (`Alone`), so what it has written is
still in the files when it inserts the row, and from then on nobody writes them.

*Reading* (`ReadingProofs`). Monotony: rows are never removed, a counted page stays done
with a result, a file that is there is only replaced. So what was read first bounds what
is read later from below, and the properties hold because of the order of the queries;
the mutants that swap them break them. Proved for any number of readers, uploads and
reruns: `DetailShowsCountedPages`, `LinksLeadToFiles`, `OutputsHoldTheText`, and
`ReadingTypeOK` (every page a request holds is one of the document's, and outputs are only
added, which `TypedInv` says beside that invariant).

*Capture* (`CaptureProofs`). A retry rests on this: the tile of an upload that failed, and
whose failure was answered, has no page, or the page it left behind blocks the document for
good, so that no second row of it can get in (`Open`). And the upload a tile waits for is
the only one, since a tile has a button only when it is failed or done (`OneCallPerTile`,
`UploadHolds`). Proved for any number of photographs, of overlapping calls and of pages
from elsewhere: `CaptureTypeOK`, `DoneTilesAreStored`, `RetriesStoreOnce`.

*Access* (`DocumentAccessProofs`). What a request found in its first round trip need not
hold in its second. What does (`Seen`): a user who is not the owner never becomes it,
and a share row there for the second round trip either gave access at some moment since
the first, or was inserted after the deletion. From it: `ServedReadsHadAccess`,
`StrangersLearnNothing`, `AccessIsHonoured`, `SharesAreOfVerifiedOthers`, and that
`DocumentAccess` implements `AccessPolicy` (a share inserted too late maps to a stutter).

*App auth* (`MobileAuthProofs`). `RefreshTokenIsUsable` needs two facts more: the token a
call is about to store is known to no other call, nor to the refresh, nor stored yet
(`TaskHolds`, `TasksHoldDifferentPairs`), and the server issues no token twice. Most steps
move no token; one lemma (`RestingStep`) covers them all, and six steps are proved
one by one. Proved for any number of calls and of deletions under way: `TypeOK`,
`RefreshTokenIsUsable`.

**Model-checked only.** Liveness (`EventuallyVerified`, `EveryCallEnds`,
`EveryTileSettles`): the prover has neither fairness nor ENABLED. The five properties that
the code violates, which are refuted by a behaviour each.

## 5. Where code and documents disagree

- `sessions_theft_response`: a refresh that has read its token before another request
  answers a replay commits a live session after it (`service.go:347`;
  `README.md:248-249` says the whole session is revoked). By the same gap two refreshes of
  one token both succeed, and so does a refresh beside a logout.
- `verification_single_use`: two overlapping submissions of one code open two sessions
  (`service.go:183`; `README.md:250`, "single-use").
- `verification_cap`: the attempt cap chooses between two error answers and stops no
  guess (`service.go:170-180`; `README.md:250`, "an attempt cap").
- `pages_retry`: the row of a failed page keeps its number and the count stays behind,
  so the number of every later upload is taken (`addpage.go:57`;
  `capture_controller_test.dart:47`, "retry succeeds").
- `capture_rerun`: a tile bears a guessed number until the server has answered, and the
  text of a rerun goes to the first tile that bears the number
  (`capture_controller.dart:100`; `capture_controller_test.dart:73`, "rerunOcr updates the
  page OCR text").

Also seen, without a statement of the repository to hold it against:

- an upload that loses the race for a page number has already replaced the image of the
  page that won it (`addpage.go:38`), and so has every retry of an upload that failed
  after its row was in; `contested` is the exception for them in `PagesShowTheirPhotograph`;
- a retry after a timeout stores the photograph a second time, as a page of its own
  (`given` is the exception in `RetriesStoreOnce`), since an upload carries no key by which
  the server could know it;
- a transform leaves out, without a word, a page whose result could not be read
  (`transform/service.go:55`), and a failed rerun hides the text the page had before,
  from details and transforms alike;
- a share inserted while its document is being deleted lets a reader be served who never
  had access to a document that was not deleted (`share_service.go:54`; this is the
  exception in `Entitled`);
- the answers to a rename and to a change of the cover have no `thumbUrl`, and the answer to
  a share has no user name; the app fetches again after the latter two, but not after a
  rename, which therefore hides the cover until the next fetch;
- the app's library applies a fetch that began before a deletion or creation and was
  answered after it, which shows a deleted document, or hides a new one, until the next
  fetch (`library_controller.dart:12-43`);
- a refresh that is answered with a 429 or a 500 logs the user out, though the token is good
  (`auth_controller.dart:123-125`), as does one that is not answered;
- `markLoggedOut` does not await its `clear()`, and where the key store is slower than the
  next login, the new tokens are deleted (`auth_controller.dart:131`);
- each key is written by an await of its own, so that a login beside a refresh
  that a logout overtook, or the end of the process between the two, may leave the access
  token of one pair beside the refresh token of another (`token_storage.dart:25-29`);
- an upload whose connection stalls while the photograph is sent spins for ever, as there is
  no `sendTimeout` (`dio_factory.dart:8-13`), and so does any call whose read of the key
  store throws (`auth_interceptor.dart:25-27`);
- a `bootstrap` whose `me()` fails for want of a network deletes the tokens
  (`auth_controller.dart:42`); and no screen calls `logout()`.

## 6. Not modelled

- `Me`, `List`, `ListShares`, `ListDocumentsWithShared`: single reads without effect.
- `Rename`: it is admitted in `DocumentAccess`; the title it writes is read by nothing else.
- Password and code hashing, JWT signing, mail transport, image scaling, prompts:
  computations on data none of the properties looks at.
- Handlers, apart from the links, `findPage` and `serveBlob`: parsing and status codes
  around one service call.
- The rate limiter: a counter behind a mutex. The 429 it gives is an answer like another
  error in `Capture` and `MobileAuth`.
- `version_handler.go`: one field, unprotected; a case for the race detector.
- The app's library, reader, sharing and transform controllers: they fetch, show what was
  answered, and drop or add the one entry an answer was about. The stale fetch above is
  their one hazard; nothing in the repository says which of two answers should win.
- What an edit writes to a document that is deleted between its admission and its
  statement: out of everybody's reach (`KeepsPolicy`).
- UI, routing, themes.

## 7. Plan

1. *Auth*, done: `AuthStore`, `Sessions`, `RefreshTokens`, `EmailVerification`,
   `AuthService`; proofs of sessions, of their refinement, of the composition and of codes.
2. *Pages*, done: `DocumentPages` over `PageNumbers`, `PageImages`, and their proofs.
3. *Reading and transforms*, done: `Reading` and its proofs. Left: titles and deletion
   beside a reader.
4. *Capture*, done: `Capture` over `PageNumbers`, and its proofs.
5. *Access*, done: `DocumentAccess`, `AccessPolicy` and their proofs.
6. *App auth*, done: `MobileAuth` over `RefreshTokens`, and the proof that it never
   replays a token. Left: a key store that throws.
7. `Library`: the app's list of documents against `AccessPolicy`, with fetches that
   overlap edits: what it shows once nothing is under way.
8. Pure functions: `compareSemver` against an order on version triples.
