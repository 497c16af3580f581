--------------------------- MODULE MCDocumentAccess ---------------------------
(* DocumentAccess on small sets: an owner, and a user who is sharee or none.  *)
EXTENDS DocumentAccess, TLC

CONSTANTS u1, u2, d1, r1, r2, r3

TwoUsers == {u1, u2}
OneDocument == {d1}
ThreeRequests == {r1, r2, r3}

Symmetry == Permutations(Users) \cup Permutations(Documents)
              \cup Permutations(Requests)
=============================================================================
