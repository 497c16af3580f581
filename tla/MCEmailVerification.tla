------------------------- MODULE MCEmailVerification -------------------------
(* EmailVerification on small sets.  Requests, session ids and codes are      *)
(* interchangeable: no liveness is checked here.                              *)
EXTENDS EmailVerification, TLC

CONSTANTS u1, s1, s2, c1, c2, r1, r2

OneUser == {u1}
TwoSessions == {s1, s2}
TwoCodes == {c1, c2}
OneRequest == {r1}
TwoRequests == {r1, r2}

Symmetry == Permutations(SessionIds) \cup Permutations(Codes) \cup Permutations(Requests)
=============================================================================
