------------------------------ MODULE PageImages ------------------------------
(***************************************************************************)
(* Whose photograph the files of a page hold.  AddPage names the files by  *)
(* the page number it has read and writes them before the table decides    *)
(* who gets that number (addpage.go:28-53), so that two uploads may write  *)
(* the same files.  Beside DocumentPages runs an observer that notes where *)
(* that happened.                                                          *)
(***************************************************************************)
EXTENDS DocumentPages

VARIABLE contested  \* pages at whose files another upload has worked: history

imageVars == <<pageVars, contested>>

\* An upload that has a number and no row yet.
Storing(r, n) ==
  /\ req[r].at \in {"truncate", "put", "truncateThumb", "thumb", "insert"}
  /\ req[r].page = n

Contended ==
  {n \in Numbers : \E r \in Requests :
     Storing(r, n) /\ (n \in Rows \/ \E q \in Requests \ {r} : Storing(q, n))}

ImageInit == Init /\ contested = {}

ImageNext == Next /\ contested' = contested \cup Contended'

ImageSpec == ImageInit /\ [][ImageNext]_imageVars

-----------------------------------------------------------------------------
(* Properties *)

\* A page shows the photograph that was uploaded as it, in full and as its thumbnail,
\* and has the text of no other, whoever dies between truncating a file and writing it
\* and whatever is transcribed again meanwhile: that takes a second upload which read
\* the same number, beside the first or after it failed (addpage.go:28-53, blob.go:40).
PagesShowTheirPhotograph ==
  \A n \in Rows \ contested :
    /\ mode = "photo" => image[n] = shot[n] /\ thumb[n] = shot[n]
    /\ latest[n].status = "done" => latest[n].of = shot[n]
=============================================================================
