---------------------------- MODULE RefreshTokens ----------------------------
(***************************************************************************)
(* What the auth service promises of refresh tokens (README, "Security     *)
(* model"), with no table, no request and no clock: a token is live until  *)
(* it is exchanged for a new one or ended, and presenting one that is no   *)
(* longer live ends every token of its owner.                              *)
(***************************************************************************)
CONSTANTS Tokens, Owners, NoOwner

VARIABLES
  owner,  \* [Tokens -> Owners, or NoOwner while the token is not issued]
  live    \* tokens that can be exchanged

tokenVars == <<owner, live>>

Issued == {t \in Tokens : owner[t] # NoOwner}

Init == owner = [t \in Tokens |-> NoOwner] /\ live = {}

Issue(t, u) == /\ t \notin Issued
               /\ owner' = [owner EXCEPT ![t] = u]
               /\ live' = live \cup {t}

Exchange(t, new) == /\ t \in live
                    /\ new \notin Issued
                    /\ owner' = [owner EXCEPT ![new] = owner[t]]
                    /\ live' = (live \ {t}) \cup {new}

End(t) == /\ live' = live \ {t}
          /\ UNCHANGED owner

Replay(t) == /\ t \in Issued \ live
             /\ live' = {x \in live : owner[x] # owner[t]}
             /\ UNCHANGED owner

Next == \E t \in Tokens : \/ \E u \in Owners : Issue(t, u)
                          \/ \E new \in Tokens : Exchange(t, new)
                          \/ End(t)
                          \/ Replay(t)

Spec == Init /\ [][Next]_tokenVars
=============================================================================
