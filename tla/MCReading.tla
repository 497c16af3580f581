------------------------------ MODULE MCReading ------------------------------
(* Reading on small sets: one upload or rerun at a time beside a reader.      *)
EXTENDS Reading, TLC

CONSTANTS i1, r1, q1

OneImage == {i1}
OneRequest == {r1}
OneReader == {q1}
BothModes == {"photo", "text"}
EveryScope == {"page", "document", "unknown"}
NoText == {Empty}

Symmetry == Permutations(Images) \cup Permutations(Requests) \cup Permutations(Readers)
=============================================================================
