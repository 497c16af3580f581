----------------------------- MODULE MCMobileAuth -----------------------------
(* MobileAuth for one user, two pairs of tokens and two calls at a time.    *)
EXTENDS MobileAuth

CONSTANTS u1, p1, p2, t1, t2

OneUser == {u1}
TwoPairs == {p1, p2}
TwoTasks == {t1, t2}
=============================================================================
