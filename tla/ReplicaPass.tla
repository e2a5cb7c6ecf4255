---------------------------- MODULE ReplicaPass ----------------------------
(***************************************************************************)
(* What the rest of the desktop may rely on in one engine on its file: the *)
(* cursor moves forward within the log, and a synchronisation that returns *)
(* has taken it to what was committed when the synchronisation began. How  *)
(* rows and pages get there is left to ReplicaSync, which implements this. *)
(***************************************************************************)
EXTENDS Integers

VARIABLES
  head,    \* sequence number of the last commit
  cursor,  \* how far the replica has got
  pass,    \* what sync_once last did: still running, returned, or neither
  goal     \* head when the pass began

vars == <<head, cursor, pass, goal>>

NoCursor == -1
Passes == {"none", "running", "done"}

Commit ==
  /\ head' \in Nat /\ head' > head
  /\ UNCHANGED <<cursor, pass, goal>>

\* Also a running pass begins anew, when it is asked for another initial load.
Begin ==
  /\ pass' = "running" /\ goal' = head
  /\ UNCHANGED <<head, cursor>>

Forward == cursor' \in Nat /\ cursor <= cursor' /\ cursor' <= head

Advance ==
  /\ pass = "running" /\ Forward
  /\ UNCHANGED <<head, pass, goal>>

Finish ==
  /\ pass = "running" /\ Forward
  /\ goal <= cursor'
  /\ pass' = "done"
  /\ UNCHANGED <<head, goal>>

\* sync_once raises, or the application ends.
Fail ==
  /\ pass = "running"
  /\ pass' = "none" /\ goal' = 0
  /\ UNCHANGED <<head, cursor>>

Init == head = 0 /\ cursor = NoCursor /\ pass = "none" /\ goal = 0
Next == Commit \/ Begin \/ Advance \/ Finish \/ Fail
Spec == Init /\ [][Next]_vars
=============================================================================
