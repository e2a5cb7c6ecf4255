--------------------------- MODULE MCReplicaSync ---------------------------
(***************************************************************************)
(* Instances of ReplicaSync for TLC. v1 is a row the user sees, h1 one she *)
(* does not see, b1 a visible row that is also updated in bulk.            *)
(***************************************************************************)
EXTENDS ReplicaSync, TLC

CONSTANTS v1, h1, b1, w1, w2, e1, e2

AllThree == {v1, h1, b1}
VisibleOfThree == {v1, b1}
OnlyBulk == {b1}
SeenAndHidden == {v1, h1}
OnlySeen == {v1}
NoRows == {}
OnlyHidden == {h1}
TwoWriters == {w1, w2}
OneEngine == {e1}
TwoEngines == {e1, e2}

\* The sessions are alike; sound where no liveness property is checked.
WriterSymmetry == Permutations(TwoWriters)
=============================================================================
