----------------------------- MODULE PageNumbers -----------------------------
(***************************************************************************)
(* What uploading promises to the owner of a document, whatever happens    *)
(* between the writes of an upload: pages are appended one at a time and   *)
(* numbered without a gap, a page is counted by the upload that appended   *)
(* it, and nobody appends another one before that.                         *)
(***************************************************************************)
EXTENDS Naturals

CONSTANTS
  Uploads,  \* requests of the server
  Photos,   \* photographs uploaded
  Last,     \* bound on the page numbers
  Nobody

VARIABLES
  pages,    \* the photograph of every page, by page number
  counted,  \* the pages that are finished
  owner     \* the upload that appended the page after those, while it goes on

numberingVars == <<pages, counted, owner>>

StartEmpty ==
  /\ pages = [n \in {} |-> Nobody]
  /\ counted = 0
  /\ owner = Nobody

Insert(r, i) ==
  /\ counted < Last
  /\ DOMAIN pages = 1 .. counted
  /\ pages' = [n \in 1 .. (counted + 1) |-> IF n \in 1 .. counted THEN pages[n] ELSE i]
  /\ owner' = r
  /\ UNCHANGED counted

Count(r) ==
  /\ owner = r
  /\ counted' = counted + 1
  /\ owner' = Nobody
  /\ UNCHANGED pages

\* The upload fails or dies: its page stays, and nothing counts it any more.
Lose(r) ==
  /\ owner = r
  /\ owner' = Nobody
  /\ UNCHANGED <<pages, counted>>

Step(r) == (\E i \in Photos : Insert(r, i)) \/ Count(r) \/ Lose(r)

Numbering == StartEmpty /\ [][\E r \in Uploads : Step(r)]_numberingVars
=============================================================================
