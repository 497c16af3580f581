---------------------------- MODULE MCAuthService ----------------------------
(* AuthService for one user: one request after the other over more codes, and *)
(* two requests at a time over more sessions.  Ids are interchangeable where  *)
(* no liveness is checked.                                                    *)
EXTENDS AuthService, TLC

CONSTANTS u1, s1, s2, s3, c1, c2, r1, r2

OneUser == {u1}
TwoSessions == {s1, s2}
ThreeSessions == {s1, s2, s3}
OneCode == {c1}
TwoCodes == {c1, c2}
OneRequest == {r1}
TwoRequests == {r1, r2}

Symmetry == Permutations(SessionIds) \cup Permutations(Codes) \cup Permutations(Requests)
=============================================================================
