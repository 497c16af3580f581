----------------------------- MODULE AccessPolicy -----------------------------
(***************************************************************************)
(* What sharing promises its users: a document is readable by its owner    *)
(* and by the users it is shared with, changes hands one reader at a time, *)
(* and is readable by nobody for ever once it is deleted.                  *)
(***************************************************************************)
EXTENDS FiniteSets

CONSTANTS Docs, People, Nobody

VARIABLES
  owner,    \* [Docs -> People \cup {Nobody}]; Nobody: not created yet
  readers   \* [Docs -> SUBSET People]; {}: not created yet, or deleted

policyVars == <<owner, readers>>

Init == /\ owner = [d \in Docs |-> Nobody]
        /\ readers = [d \in Docs |-> {}]

Publish(d, u) == /\ owner[d] = Nobody
                 /\ owner' = [owner EXCEPT ![d] = u]
                 /\ readers' = [readers EXCEPT ![d] = {u}]

Grant(d, u) == /\ owner[d] \in readers[d]
               /\ readers' = [readers EXCEPT ![d] = @ \cup {u}]
               /\ UNCHANGED owner

Cut(d, u) == /\ u # owner[d]
             /\ readers' = [readers EXCEPT ![d] = @ \ {u}]
             /\ UNCHANGED owner

Withdraw(d) == /\ readers' = [readers EXCEPT ![d] = {}]
               /\ UNCHANGED owner

Next == \E d \in Docs : \/ \E u \in People : Publish(d, u) \/ Grant(d, u) \/ Cut(d, u)
                        \/ Withdraw(d)

Spec == Init /\ [][Next]_policyVars
=============================================================================
