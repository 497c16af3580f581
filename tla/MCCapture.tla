------------------------------ MODULE MCCapture ------------------------------
(* Capture on small sets; liveness is checked, so there is no symmetry.       *)
EXTENDS Capture, TLC

CONSTANTS i1, i2, r1, r2, nobody, foreign

TwoPhotos == {i1, i2}
TwoUploads == {r1, r2}
=============================================================================
