------------------------------ MODULE MCSessions ------------------------------
(* Sessions on small sets.  Session ids and requests are interchangeable:    *)
(* no action and no property of Sessions tells them apart.                  *)
EXTENDS Sessions, TLC

CONSTANTS u1, s1, s2, s3, r1, r2

OneUser == {u1}
ThreeSessions == {s1, s2, s3}
TwoRequests == {r1, r2}
NoCodes == {}

Symmetry == Permutations(SessionIds) \cup Permutations(Requests)
=============================================================================
