------------------------- MODULE MCReplicaReadGate -------------------------
(***************************************************************************)
(* Instances of ReplicaReadGate for TLC: two threads of one desktop.       *)
(***************************************************************************)
EXTENDS ReplicaReadGate

CONSTANTS t1, t2

TwoThreads == {t1, t2}
=============================================================================
