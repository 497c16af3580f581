--------------------------- MODULE MCDocumentPages ---------------------------
(* DocumentPages with one request on a photo document, for the liveness run:  *)
(* one uploader who retries is enough to meet the row of a failed page.       *)
EXTENDS DocumentPages

CONSTANTS i1, r1

OneImage == {i1}
OneRequest == {r1}
PhotoMode == {"photo"}
=============================================================================
