------------------------- MODULE MCVersionedUpdate -------------------------
(* Instances of VersionedUpdate. *)
EXTENDS VersionedUpdate
=============================================================================
