----------------------------- MODULE MCPageImages -----------------------------
(* DocumentPages with the observer of PageImages on small sets; photographs   *)
(* and requests are interchangeable.                                          *)
EXTENDS PageImages, TLC

CONSTANTS i1, i2, r1, r2

TwoImages == {i1, i2}
TwoRequests == {r1, r2}
BothModes == {"photo", "text"}

Symmetry == Permutations(Images) \cup Permutations(Requests)
=============================================================================
