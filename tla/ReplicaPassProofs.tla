------------------------- MODULE ReplicaPassProofs -------------------------
(***************************************************************************)
(* One engine on the replica file implements ReplicaPass, for every set of *)
(* rows and sessions, every page size and every bound.                     *)
(***************************************************************************)
EXTENDS ReplicaSyncProofs

\* A snapshot is stored at or after the cursor; the last page of a pass ends at
\* or after the head the pass began with.
SnapshotIsAhead ==
  \A e \in Engines : engine[e].pc = "snapshot" => cursor <= engine[e].head
LastPageReachesGoal ==
  \A e \in Engines : engine[e].pc = "page" /\ ~engine[e].more => engine[e].head <= engine[e].next
ReachInv == SnapshotIsAhead /\ LastPageReachesGoal

Inv == TypeInv /\ SequenceInv /\ FollowInv /\ ReachInv

\* What the engine knows of the log is at most its head.
LEMMA KnownIsBelowHead ==
  ASSUME TypeOK, LogHasHead, NEW n, Known(n)
  PROVE  n <= Head
BY HeadIsHead DEF Known, IsHead

LEMMA HeadGrows ==
  ASSUME TypeInv, TypeInv', log \subseteq log'
  PROVE  Head \in Nat /\ Head' \in Nat /\ Head <= Head'
<1>1. Head \in Nat /\ Known(Head)
  BY HeadIsHead DEF TypeInv
<1>2. PICK h \in {0} \cup {x.seq : x \in log'} : IsHead(h)'
  BY DEF TypeInv, LogHasHead
<1>3. Head' \in {0} \cup {x.seq : x \in log'} /\ (IsHead(Head))'
  BY <1>2 DEF Head
<1>4. \A x \in log' : x.seq \in Nat
  BY DEF TypeInv, TypeOK, Event
<1> QED
  BY <1>1, <1>3, <1>4 DEF Known, IsHead

LEMMA HeadStays == ASSUME UNCHANGED log PROVE Head' = Head
BY DEF Head, IsHead

LEMMA ReachInit == Init => ReachInv
BY DEF Init, ReachInv, SnapshotIsAhead, LastPageReachesGoal, Idle

LEMMA ReachSyncStep ==
  ASSUME SoleEngine, Inv, NEW e \in Engines, SyncStep(e) \/ Abort(e)
  PROVE  ReachInv'
<1>0. /\ TypeOK /\ LogHasHead /\ engine[e] \in Engine /\ Engines = {e}
  BY DEF Inv, TypeInv, TypeOK, SoleEngine
<1>1. Head \in Nat /\ IsHead(Head) /\ Known(Head)
  BY <1>0, HeadIsHead
<1>2. engine[e].head \in Nat /\ engine[e].head <= Head /\ cursor <= Head
  <2>1. Known(engine[e].head) /\ (cursor # NoCursor => Known(cursor))
    BY DEF Inv, FollowInv, NumbersAreKnown
  <2> QED
    BY <1>0, <1>1, <2>1, KnownIsBelowHead DEF NoCursor, Engine
<1>3. CASE ReadHead(e)
  BY <1>0, <1>1, <1>2, <1>3 DEF ReadHead, Goes, file, Idle, TypeOK, ReachInv, SnapshotIsAhead,
                              LastPageReachesGoal
<1>4. CASE ReadRow(e)
  <2>1. PICK r \in engine[e].todo :
          engine' = [engine EXCEPT ![e] = [engine[e] EXCEPT !.todo = @ \ {r}, !.table[r] = db[r]]]
    BY <1>4 DEF ReadRow, Goes
  <2>2. /\ cursor' = cursor
        /\ engine'[e].pc = engine[e].pc /\ engine'[e].head = engine[e].head
        /\ engine'[e].next = engine[e].next /\ engine'[e].more = engine[e].more
    BY <1>0, <1>4, <2>1 DEF ReadRow, file, TypeOK, Engine
  <2> QED
    BY <1>0, <2>2 DEF Inv, ReachInv, SnapshotIsAhead, LastPageReachesGoal
<1>5. CASE ReplaceAll(e) \/ Resync(e) \/ ApplyChanges(e) \/ Abort(e)
  <2>1. engine'[e].pc \notin {"snapshot", "page"}
    BY <1>0, <1>5 DEF ReplaceAll, Resync, ApplyChanges, Abort, Goes, TypeOK, Engine, Idle
  <2> QED
    BY <1>0, <2>1 DEF ReachInv, SnapshotIsAhead, LastPageReachesGoal
<1>6. CASE FetchPage(e)
  <2> DEFINE todo(n) == {r \in Rows : /\ Written({x \in Unseen(Since) : x.seq <= n}, r)
                                      /\ ~LastIsDelete({x \in Unseen(Since) : x.seq <= n}, r)}
             table(n) == [r \in Rows |-> IF LastIsDelete({x \in Unseen(Since) : x.seq <= n}, r)
                                         THEN Absent ELSE Unread]
             more == ~Fits(Unseen(Since))
  <2>1. PICK n \in {x.seq : x \in Unseen(Since)} \cup {Head} :
          /\ PageEnds(Unseen(Since), n)
          /\ engine' = [engine EXCEPT ![e] =
               [engine[e] EXCEPT !.pc = "page", !.todo = todo(n), !.table = table(n),
                                 !.next = n, !.more = more]]
    BY <1>6 DEF FetchPage, Goes
  <2> HIDE DEF todo, table
  <2>2. /\ engine'[e].pc = "page" /\ engine'[e].head = engine[e].head
        /\ engine'[e].next = n /\ engine'[e].more = more
    BY <1>0, <2>1 DEF TypeOK, Engine
  <2>3. CASE more
    BY <1>0, <2>2, <2>3 DEF ReachInv, SnapshotIsAhead, LastPageReachesGoal
  <2>4. CASE n = Head
    BY <1>0, <1>2, <2>2, <2>4 DEF ReachInv, SnapshotIsAhead, LastPageReachesGoal
  <2>5. more \/ n = Head
    BY <2>1 DEF PageEnds
  <2> QED
    BY <2>3, <2>4, <2>5
<1> QED
  BY <1>3, <1>4, <1>5, <1>6 DEF SyncStep

LEMMA InvInit == Init => Inv
BY TypeInit, SequenceInit, FollowInit, ReachInit DEF Inv

LEMMA InvStep ==
  ASSUME SoleEngine
  PROVE  Inv /\ [Next]_vars => Inv'
<1> SUFFICES ASSUME Inv, [Next]_vars PROVE Inv'
  OBVIOUS
<1>1. TypeInv' /\ SequenceInv' /\ FollowInv'
  BY TypeStep, SequenceStep, FollowStep DEF Inv
<1>2. ReachInv'
  <2>1. CASE UNCHANGED <<cursor, engine>>
    BY <2>1 DEF Inv, ReachInv, SnapshotIsAhead, LastPageReachesGoal
  <2>2. CASE ServerStep
    BY <2>1, <2>2 DEF ServerStep, WriteChangeLog, CommitTransaction, Rollback, BulkUpdate
  <2> QED
    BY <2>1, <2>2, ReachSyncStep DEF Next, vars
<1> QED
  BY <1>1, <1>2 DEF Inv

(***************************************************************************)
(* The refinement                                                          *)
(***************************************************************************)
\* The mapping, for the engine e that is the only one.
LEMMA ImplementsInit ==
  ASSUME Engines # {}, Init
  PROVE  Pass!Init
<1>1. TheEngine = Idle
  BY DEF Init, TheEngine
<1>2. IsHead(0)
  BY DEF Init, IsHead
<1>3. Head = 0
  BY <1>2 DEF Init, Head
<1> QED
  BY <1>1, <1>3 DEF Init, Pass!Init, Pass!NoCursor, NoCursor, PassOf, Idle

LEMMA ImplementsStep ==
  ASSUME SoleEngine, Engines # {}, Inv, Inv', [Next]_vars
  PROVE  [Pass!Next]_(Pass!vars)
<1> DEFINE e == CHOOSE f \in Engines : TRUE
<1>0. /\ e \in Engines /\ Engines = {e}
      /\ TheEngine = engine[e] /\ TheEngine' = engine'[e]
      /\ TypeOK /\ TypeOK' /\ LogHasHead
      /\ engine[e] \in Engine /\ engine'[e] \in Engine
  BY DEF SoleEngine, Inv, TypeInv, TypeOK, TheEngine
<1> HIDE DEF e
<1>1. /\ Head \in Nat /\ Known(engine[e].head) /\ engine[e].head <= Head
      /\ cursor # NoCursor => cursor <= Head
      /\ cursor \in Int
  BY <1>0, HeadIsHead, KnownIsBelowHead DEF Inv, FollowInv, NumbersAreKnown, TypeOK, NoCursor
<1>2. CASE UNCHANGED vars
  <2>1. Head' = Head /\ TheEngine' = TheEngine /\ cursor' = cursor
    BY <1>0, <1>2, HeadStays DEF vars
  <2> QED
    BY <2>1 DEF Pass!vars
<1>3. CASE ServerStep
  <2>1. TheEngine' = TheEngine /\ cursor' = cursor /\ log \subseteq log'
    BY <1>0, <1>3 DEF ServerStep, WriteChangeLog, CommitTransaction, Rollback, BulkUpdate
  <2>2. Head' \in Nat /\ Head <= Head'
    BY <2>1, HeadGrows DEF Inv
  <2> QED
    BY <1>1, <2>1, <2>2 DEF Pass!Next, Pass!Commit, Pass!vars
<1>4. CASE SyncStep(e) \/ Abort(e)
  <2>0. Head' = Head
    BY <1>0, <1>4, SyncLeavesServer, HeadStays DEF server
  <2>1. CASE ReadHead(e)
    <3>1. engine'[e].pc \in {"snapshot", "ready"} /\ engine'[e].head = Head /\ cursor' = cursor
      BY <1>0, <2>1 DEF ReadHead, Goes, file, Idle, TypeOK
    <3> QED
      BY <1>0, <2>0, <3>1 DEF Pass!Next, Pass!Begin, PassOf
  <2>2. CASE ReadRow(e)
    <3>1. PICK r \in engine[e].todo :
            engine' = [engine EXCEPT ![e] = [engine[e] EXCEPT !.todo = @ \ {r}, !.table[r] = db[r]]]
      BY <2>2 DEF ReadRow, Goes
    <3>2. engine'[e].pc = engine[e].pc /\ engine'[e].head = engine[e].head /\ cursor' = cursor
      BY <1>0, <2>2, <3>1 DEF ReadRow, file, TypeOK, Engine
    <3> QED
      BY <1>0, <2>0, <3>2 DEF Pass!vars, PassOf
  <2>3. CASE ReplaceAll(e)
    <3>1. /\ engine[e].pc = "snapshot" /\ engine'[e].pc = "ready"
          /\ engine'[e].head = engine[e].head /\ cursor' = engine[e].head
      BY <1>0, <2>3 DEF ReplaceAll, Goes, TypeOK, Engine
    <3>2. cursor <= cursor' /\ cursor' \in Nat
      BY <1>0, <3>1 DEF Inv, ReachInv, SnapshotIsAhead, Engine
    <3> QED
      BY <1>0, <1>1, <2>0, <3>1, <3>2 DEF Pass!Next, Pass!Advance, Pass!Forward, PassOf
  <2>4. CASE Resync(e)
    <3>1. /\ engine[e].pc = "ready" /\ engine'[e].pc \in {"idle", "resync"}
          /\ engine'[e].head = engine[e].head /\ cursor' = cursor
      BY <1>0, <2>4 DEF Resync, Goes, file, TypeOK, Engine
    <3> QED
      BY <1>0, <2>0, <3>1 DEF Pass!Next, Pass!Fail, Pass!vars, PassOf
  <2>5. CASE FetchPage(e)
    <3> DEFINE page(n) == {x \in Unseen(Since) : x.seq <= n}
               todo(n) == {r \in Rows : Written(page(n), r) /\ ~LastIsDelete(page(n), r)}
               table(n) == [r \in Rows |-> IF LastIsDelete(page(n), r) THEN Absent ELSE Unread]
               more == ~Fits(Unseen(Since))
    <3>0. PICK n \in {x.seq : x \in Unseen(Since)} \cup {Head} :
            engine' = [engine EXCEPT ![e] =
              [engine[e] EXCEPT !.pc = "page", !.todo = todo(n), !.table = table(n),
                                !.next = n, !.more = more]]
      BY <2>5 DEF FetchPage, Goes
    <3> HIDE DEF page, todo, table, more
    <3>1. /\ engine[e].pc = "ready" /\ engine'[e].pc = "page"
          /\ engine'[e].head = engine[e].head /\ cursor' = cursor
      BY <1>0, <2>5, <3>0 DEF FetchPage, file, TypeOK, Engine
    <3> QED
      BY <1>0, <2>0, <3>1 DEF Pass!vars, PassOf
  <2>6. CASE ApplyChanges(e)
    <3>1. /\ engine[e].pc = "page"
          /\ engine'[e].pc = IF engine[e].more THEN "ready" ELSE "done"
          /\ engine'[e].head = engine[e].head
      BY <1>0, <2>6 DEF ApplyChanges, Goes, TypeOK, Engine
    <3>2. /\ cursor \in Nat /\ cursor <= engine[e].next /\ engine[e].next \in Nat
          /\ engine[e].next <= Head
      BY <1>0, <3>1, KnownIsBelowHead
         DEF Inv, FollowInv, PageIsAccounted, CursorIsSet, NumbersAreKnown, TypeOK, Engine
    <3>3. cursor' = engine[e].next
      BY <2>6, <3>2 DEF ApplyChanges, Since, NoCursor
    <3>4. engine[e].more \/ engine[e].head <= cursor'
      BY <1>0, <3>1, <3>3 DEF Inv, ReachInv, LastPageReachesGoal
    <3>5. CASE engine[e].more
      BY <1>0, <2>0, <3>1, <3>2, <3>3, <3>5 DEF Pass!Next, Pass!Advance, Pass!Forward, PassOf
    <3>6. CASE ~engine[e].more
      BY <1>0, <2>0, <3>1, <3>2, <3>3, <3>4, <3>6 DEF Pass!Next, Pass!Finish, Pass!Forward, PassOf
    <3> QED
      BY <3>5, <3>6
  <2>7. CASE Abort(e)
    <3>1. engine[e].pc \notin {"idle", "done"} /\ engine'[e] = Idle /\ cursor' = cursor
      BY <1>0, <2>7 DEF Abort, file, TypeOK
    <3> QED
      BY <1>0, <2>0, <3>1 DEF Pass!Next, Pass!Fail, PassOf, Idle
  <2> QED
    BY <1>4, <2>1, <2>2, <2>3, <2>4, <2>5, <2>6, <2>7 DEF SyncStep
<1> QED
  BY <1>0, <1>2, <1>3, <1>4 DEF Next

\* With one engine on the replica file every synchronisation that returns has
\* reached what was committed when it began, and the cursor only moves forward
\* within the log: the detailed engine implements the abstract pass.
THEOREM EngineImplementsPass ==
  ASSUME SoleEngine, Engines # {}
  PROVE  Spec => PassesAreComplete
<1>1. Inv /\ Inv' /\ [Next]_vars => [Pass!Next]_(Pass!vars)
  BY ImplementsStep
<1>2. Init => Pass!Init
  BY ImplementsInit
<1> QED
  BY <1>1, <1>2, InvInit, InvStep, PTL DEF Spec, PassesAreComplete, Pass!Spec
=============================================================================
