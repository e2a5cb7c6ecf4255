------------------------- MODULE ReplicaSyncProofs -------------------------
(***************************************************************************)
(* Theorems about ReplicaSync for every set of rows and sessions, every    *)
(* page size and every bound, with one engine on the replica file. The     *)
(* hypothesis is needed: the shared run of MCReplicaSync shows that two    *)
(* engines on one file do miss changes.                                    *)
(***************************************************************************)
EXTENDS ReplicaSync, TLAPS

SoleEngine == \A e, f \in Engines : e = f

(***************************************************************************)
(* The inductive invariant                                                 *)
(***************************************************************************)
\* Sequence numbers: those of an open transaction are above the whole log.
LogIsDrawn == \A x \in log : x.seq <= counter
TxnIsAhead == \A w \in Writers : \A x \in txn[w] : x.seq <= counter /\ \A y \in log : y.seq < x.seq
TxnIsAlone == \A v, w \in Writers : v = w \/ txn[v] = {} \/ txn[w] = {}
TxnHasLast == \A w \in Writers : txn[w] # {} => \E x \in txn[w] : \A y \in txn[w] : y.seq <= x.seq
TxnRowsOnce == \A w \in Writers : \A x, y \in txn[w] : x.row = y.row => x = y
LogHasHead == \E h \in {0} \cup {x.seq : x \in log} : IsHead(h)

\* What is deleted stays away, and no open transaction touches it.
DeletedIsAbsent == \A x \in log : x.op = "delete" => db[x.row] = Absent
TxnSparesDeleted == \A w \in Writers : \A x \in txn[w] : ~Deleted(x.row)

SequenceInv == /\ LogIsDrawn /\ TxnIsAhead /\ TxnIsAlone /\ TxnRowsOnce
               /\ DeletedIsAbsent /\ TxnSparesDeleted

\* The numbers the engine and the file hold are zero or in the log, so the
\* numbers of later commits are above them.
Known(n) == n = 0 \/ \E x \in log : x.seq = n
NumbersAreKnown ==
  /\ cursor # NoCursor => Known(cursor)
  /\ \A e \in Engines : Known(engine[e].head) /\ Known(engine[e].next)

\* A copy v of row r is current, or an event above n will bring it up to date.
Accounted(v, r, n) == v # db[r] => \E x \in log : x.row = r /\ x.seq > n

Followed == Visible \ BulkRows

SnapshotIsRead ==
  \A e \in Engines : engine[e].pc = "snapshot" =>
    \A r \in Visible \ engine[e].todo : engine[e].table[r] # Unread

SnapshotIsAccounted ==
  \A e \in Engines : engine[e].pc = "snapshot" =>
    \A r \in Followed \ engine[e].todo : Accounted(engine[e].table[r], r, engine[e].head)

CursorIsSet ==
  \A e \in Engines : engine[e].pc \in {"ready", "page"} => cursor # NoCursor

\* What the replica will hold of row r once the page is applied.
Patched(e, r) == IF engine[e].table[r] = Unread THEN replica[r] ELSE engine[e].table[r]

PageIsAccounted ==
  \A e \in Engines : engine[e].pc = "page" =>
    /\ cursor <= engine[e].next
    /\ \A r \in Followed \ engine[e].todo : Accounted(Patched(e, r), r, engine[e].next)

FileIsAccounted ==
  cursor # NoCursor => \A r \in Followed : Accounted(replica[r], r, cursor)

TypeInv == TypeOK /\ SnapshotIsRead /\ LogHasHead /\ TxnHasLast

(***************************************************************************)
(* Types                                                                   *)
(***************************************************************************)
\* Head is a number, and what _bounds promises of it holds.
LEMMA HeadIsHead ==
  ASSUME TypeOK, LogHasHead
  PROVE  Head \in Nat /\ IsHead(Head) /\ Known(Head)
<1>1. PICK h \in {0} \cup {x.seq : x \in log} : IsHead(h)
  BY DEF LogHasHead
<1>2. Head \in {0} \cup {x.seq : x \in log} /\ IsHead(Head)
  BY <1>1 DEF Head
<1>3. \A x \in log : x.seq \in Nat
  BY DEF TypeOK, Event
<1> QED
  BY <1>2, <1>3 DEF Known

LEMMA TypeInit == Init => TypeInv
<1> SUFFICES ASSUME Init PROVE TypeInv
  OBVIOUS
<1>1. Idle \in Engine
  BY DEF Idle, Engine, Unread
<1>2. TypeOK
  BY <1>1 DEF Init, TypeOK, Absent, NoCursor
<1>3. SnapshotIsRead
  BY DEF Init, SnapshotIsRead, Idle
<1>4. LogHasHead
  BY DEF Init, LogHasHead, IsHead
<1>5. TxnHasLast
  BY DEF Init, TxnHasLast
<1> QED
  BY <1>2, <1>3, <1>4, <1>5 DEF TypeInv

LEMMA TypeServerStep == ASSUME TypeInv, ServerStep PROVE TypeInv'
<1> USE DEF TypeInv
<1>1. ASSUME NEW w \in Writers, WriteChangeLog(w) PROVE TypeInv'
  <2>1. PICK rows \in (SUBSET Rows) \ {{}} :
          \E op \in [rows -> {"upsert", "delete"}], last \in counter + 1 .. MaxSeq :
            \E order \in Bijection(rows, counter + 1 .. last) :
              /\ txn' = [txn EXCEPT ![w] = EventsOf(rows, op, order)]
              /\ counter' = last
    BY <1>1 DEF WriteChangeLog
  <2>2. PICK op \in [rows -> {"upsert", "delete"}], last \in counter + 1 .. MaxSeq :
            \E order \in Bijection(rows, counter + 1 .. last) :
              /\ txn' = [txn EXCEPT ![w] = EventsOf(rows, op, order)]
              /\ counter' = last
    BY <2>1
  <2>3. PICK order \in Bijection(rows, counter + 1 .. last) :
              /\ txn' = [txn EXCEPT ![w] = EventsOf(rows, op, order)]
              /\ counter' = last
    BY <2>2
  <2>4. /\ order \in [rows -> counter + 1 .. last]
        /\ \A n \in counter + 1 .. last : \E r \in rows : order[r] = n
    BY <2>3 DEF Bijection, Injection, Surjection
  <2>5. counter \in Nat /\ last \in Nat /\ counter + 1 .. last \subseteq Nat \ {0}
    BY <2>2, BoundsAssumption DEF TypeOK
  <2>6. EventsOf(rows, op, order) \subseteq Event
    BY <2>2, <2>4, <2>5 DEF EventsOf, Event
  <2>7. TypeOK'
    BY <1>1, <2>3, <2>5, <2>6 DEF TypeOK, WriteChangeLog
  <2>8. TxnHasLast'
    <3>1. last \in counter + 1 .. last
      BY <2>2, <2>5
    <3>2. PICK r \in rows : order[r] = last
      BY <2>4, <3>1
    <3>3. \A q \in rows : order[q] <= last
      BY <2>4, <2>5
    <3>4. \E x \in txn'[w] : \A y \in txn'[w] : y.seq <= x.seq
      <4>1. txn'[w] = {[seq |-> order[q], row |-> q, op |-> op[q]] : q \in rows}
        BY <2>3 DEF TypeOK, EventsOf
      <4>2. [seq |-> order[r], row |-> r, op |-> op[r]] \in txn'[w]
        BY <4>1
      <4>3. \A y \in txn'[w] : y.seq <= last
        BY <3>3, <4>1
      <4> QED
        BY <3>2, <4>2, <4>3
    <3> QED
      BY <2>3, <3>4 DEF TxnHasLast, TypeOK
  <2>9. SnapshotIsRead' /\ LogHasHead'
    BY <1>1 DEF WriteChangeLog, SnapshotIsRead, LogHasHead, IsHead
  <2> QED
    BY <2>7, <2>8, <2>9
<1>2. ASSUME NEW w \in Writers, CommitTransaction(w) PROVE TypeInv'
  <2>1. TypeOK'
    BY <1>2 DEF CommitTransaction, TypeOK, Absent
  <2>2. LogHasHead'
    <3>1. PICK h \in {0} \cup {x.seq : x \in log} : IsHead(h)
      BY DEF LogHasHead
    <3>2. PICK x \in txn[w] : \A y \in txn[w] : y.seq <= x.seq
      BY <1>2 DEF TxnHasLast, CommitTransaction
    <3>3. /\ h \in Nat /\ x \in Event /\ log \subseteq Event /\ txn[w] \subseteq Event
          /\ \A y \in Event : y.seq \in Nat
      BY <3>1, <3>2 DEF TypeOK, Event
    <3>4. log' = log \cup txn[w]
      BY <1>2 DEF CommitTransaction
    <3>5. \A y \in log : y.seq <= h
      BY <3>1 DEF IsHead
    <3>6. CASE h <= x.seq
      BY <3>2, <3>3, <3>4, <3>5, <3>6 DEF LogHasHead, IsHead
    <3>7. CASE x.seq < h
      BY <3>1, <3>2, <3>3, <3>4, <3>5, <3>7 DEF LogHasHead, IsHead
    <3> QED
      BY <3>3, <3>6, <3>7
  <2>3. SnapshotIsRead' /\ TxnHasLast'
    BY <1>2 DEF CommitTransaction, SnapshotIsRead, TxnHasLast, TypeOK
  <2> QED
    BY <2>1, <2>2, <2>3
<1>3. ASSUME NEW w \in Writers, Rollback(w) PROVE TypeInv'
  BY <1>3 DEF Rollback, TypeOK, SnapshotIsRead, TxnHasLast, LogHasHead, IsHead
<1>4. ASSUME NEW r \in BulkRows, BulkUpdate(r) PROVE TypeInv'
  BY <1>4, BulkAssumption DEF BulkUpdate, TypeOK, SnapshotIsRead, TxnHasLast, LogHasHead, IsHead
<1> QED
  BY <1>1, <1>2, <1>3, <1>4 DEF ServerStep

LEMMA TypeSyncStep == ASSUME TypeInv, NEW e \in Engines, SyncStep(e) \/ Abort(e) PROVE TypeInv'
<1> USE DEF TypeInv
<1>1. Head \in Nat
  BY HeadIsHead
<1>2. /\ engine[e] \in Engine /\ Idle \in Engine
      /\ \A f \in Engines : engine[f] \in Engine
  BY DEF TypeOK, Idle, Engine, Unread
<1>3. CASE ReadHead(e)
  <2>1. engine' \in [Engines -> Engine]
    BY <1>1, <1>2, <1>3, VisibleAssumption DEF ReadHead, Goes, TypeOK, Idle, Engine, Unread
  <2>2. UNCHANGED <<server, file, aborts>>
    BY <1>3 DEF ReadHead, Goes
  <2>3. SnapshotIsRead'
    BY <1>2, <1>3, VisibleAssumption DEF ReadHead, Goes, SnapshotIsRead, Idle, TypeOK
  <2> QED
    BY <2>1, <2>2, <2>3 DEF TypeOK, server, file, LogHasHead, IsHead, TxnHasLast
<1>4. CASE ReadRow(e)
  <2>1. UNCHANGED <<server, file, aborts>>
    BY <1>4 DEF ReadRow, Goes
  <2>2. PICK r \in engine[e].todo :
          engine' = [engine EXCEPT ![e] = [engine[e] EXCEPT !.todo = @ \ {r}, !.table[r] = db[r]]]
    BY <1>4 DEF ReadRow, Goes
  <2>3. r \in Rows /\ db[r] \in Nat
    BY <1>2, <2>2 DEF TypeOK, Engine
  <2>4. engine' \in [Engines -> Engine]
    BY <1>2, <2>2, <2>3 DEF TypeOK, Engine
  <2>5. SnapshotIsRead'
    BY <1>2, <2>2, <2>3, VisibleAssumption DEF SnapshotIsRead, TypeOK, Engine, Unread
  <2> QED
    BY <2>1, <2>4, <2>5 DEF TypeOK, server, file, LogHasHead, IsHead, TxnHasLast
<1>5. CASE ReplaceAll(e)
  <2>1. UNCHANGED <<server, aborts>>
    BY <1>5 DEF ReplaceAll, Goes
  <2>2. replica' \in [Rows -> Nat] /\ cursor' \in Nat
    BY <1>2, <1>5, VisibleAssumption DEF ReplaceAll, SnapshotIsRead, Engine, Absent
  <2>3. engine' \in [Engines -> Engine] /\ SnapshotIsRead'
    BY <1>2, <1>5 DEF ReplaceAll, Goes, SnapshotIsRead, TypeOK, Engine
  <2> QED
    BY <2>1, <2>2, <2>3 DEF TypeOK, server, LogHasHead, IsHead, TxnHasLast
<1>6. CASE Resync(e)
  <2>1. UNCHANGED <<server, file, aborts>>
    BY <1>6 DEF Resync, Goes
  <2>2. engine' \in [Engines -> Engine] /\ SnapshotIsRead'
    BY <1>2, <1>6 DEF Resync, Goes, SnapshotIsRead, TypeOK, Engine
  <2> QED
    BY <2>1, <2>2 DEF TypeOK, server, file, LogHasHead, IsHead, TxnHasLast
<1>7. CASE FetchPage(e)
  <2>1. UNCHANGED <<server, file, aborts>>
    BY <1>7 DEF FetchPage, Goes
  <2> DEFINE page(n) == {x \in Unseen(Since) : x.seq <= n}
             todo(n) == {r \in Rows : Written(page(n), r) /\ ~LastIsDelete(page(n), r)}
             table(n) == [r \in Rows |-> IF LastIsDelete(page(n), r) THEN Absent ELSE Unread]
             more == ~Fits(Unseen(Since))
  <2>2. PICK n \in {x.seq : x \in Unseen(Since)} \cup {Head} :
          engine' = [engine EXCEPT ![e] =
            [engine[e] EXCEPT !.pc = "page", !.todo = todo(n), !.table = table(n),
                              !.next = n, !.more = more]]
    BY <1>7 DEF FetchPage, Goes
  <2>6. todo(n) \in SUBSET Rows /\ table(n) \in [Rows -> Nat \cup {Unread}] /\ more \in BOOLEAN
    BY DEF Absent
  <2> HIDE DEF page, todo, table, more
  <2>3. n \in Nat
    BY <1>1, <2>2 DEF Unseen, TypeOK, Event
  <2>4. engine' \in [Engines -> Engine]
    BY <1>2, <2>2, <2>3, <2>6 DEF TypeOK, Engine
  <2>5. SnapshotIsRead'
    BY <1>2, <2>2 DEF SnapshotIsRead, TypeOK, Engine
  <2> QED
    BY <2>1, <2>4, <2>5 DEF TypeOK, server, file, LogHasHead, IsHead, TxnHasLast
<1>8. CASE ApplyChanges(e)
  <2>1. UNCHANGED <<server, aborts>>
    BY <1>8 DEF ApplyChanges, Goes
  <2>2. replica' \in [Rows -> Nat] /\ cursor' \in Nat
    BY <1>2, <1>8 DEF ApplyChanges, Since, TypeOK, Engine, Unread
  <2>3. engine' \in [Engines -> Engine] /\ SnapshotIsRead'
    BY <1>2, <1>8 DEF ApplyChanges, Goes, SnapshotIsRead, TypeOK, Engine
  <2> QED
    BY <2>1, <2>2, <2>3 DEF TypeOK, server, LogHasHead, IsHead, TxnHasLast
<1>9. CASE Abort(e)
  <2>1. UNCHANGED <<server, file>> /\ aborts' \in Nat
    BY <1>9 DEF Abort, TypeOK
  <2>2. engine' \in [Engines -> Engine] /\ SnapshotIsRead'
    BY <1>2, <1>9 DEF Abort, SnapshotIsRead, TypeOK, Idle
  <2> QED
    BY <2>1, <2>2 DEF TypeOK, server, file, LogHasHead, IsHead, TxnHasLast
<1> QED
  BY <1>3, <1>4, <1>5, <1>6, <1>7, <1>8, <1>9 DEF SyncStep

LEMMA TypeStep == TypeInv /\ [Next]_vars => TypeInv'
<1> SUFFICES ASSUME TypeInv, [Next]_vars PROVE TypeInv'
  OBVIOUS
<1>1. CASE UNCHANGED vars
  BY <1>1 DEF vars, TypeInv, TypeOK, SnapshotIsRead, TxnHasLast, LogHasHead, IsHead
<1> QED
  BY <1>1, TypeServerStep, TypeSyncStep DEF Next

\* Every reachable state has its types; in particular no row that was still to
\* be read is ever stored in the replica, by however many engines.
THEOREM TypeCorrect == Spec => []TypeOK
<1>1. TypeInv => TypeOK
  BY DEF TypeInv
<1> QED
  BY <1>1, TypeInit, TypeStep, PTL DEF Spec

(***************************************************************************)
(* The log: commits follow the sequence                                    *)
(***************************************************************************)
LEMMA SequenceInit == Init => SequenceInv
BY DEF Init, SequenceInv, LogIsDrawn, TxnIsAhead, TxnIsAlone, TxnRowsOnce,
       DeletedIsAbsent, TxnSparesDeleted

\* While a transaction holds the lock it is the only one with events, so what
\* it adds to the log is above all that is there.
LEMMA SequenceServerStep ==
  ASSUME TypeInv, SequenceInv, ServerStep
  PROVE  SequenceInv'
<1> USE DEF SequenceInv
<1>0. TypeOK
  BY DEF TypeInv
<1>1. ASSUME NEW w \in Writers, WriteChangeLog(w) PROVE SequenceInv'
  <2>1. /\ \A v \in Writers : txn[v] = {}
        /\ UNCHANGED <<db, log>>
    BY <1>1 DEF WriteChangeLog, LockFree
  <2>2. PICK rows \in (SUBSET Rows) \ {{}} :
          \E op \in [rows -> {"upsert", "delete"}], last \in counter + 1 .. MaxSeq :
            \E order \in Bijection(rows, counter + 1 .. last) :
              /\ \A r \in rows : IF op[r] = "delete" THEN db[r] # Absent ELSE ~Deleted(r)
              /\ txn' = [txn EXCEPT ![w] = EventsOf(rows, op, order)]
              /\ counter' = last
    BY <1>1 DEF WriteChangeLog
  <2>3. PICK op \in [rows -> {"upsert", "delete"}], last \in counter + 1 .. MaxSeq :
            \E order \in Bijection(rows, counter + 1 .. last) :
              /\ \A r \in rows : IF op[r] = "delete" THEN db[r] # Absent ELSE ~Deleted(r)
              /\ txn' = [txn EXCEPT ![w] = EventsOf(rows, op, order)]
              /\ counter' = last
    BY <2>2
  <2>4. PICK order \in Bijection(rows, counter + 1 .. last) :
              /\ \A r \in rows : IF op[r] = "delete" THEN db[r] # Absent ELSE ~Deleted(r)
              /\ txn' = [txn EXCEPT ![w] = EventsOf(rows, op, order)]
              /\ counter' = last
    BY <2>3
  <2>5. /\ counter \in Nat /\ last \in Nat /\ counter < last
        /\ \A r \in rows : order[r] \in Nat /\ counter < order[r] /\ order[r] <= last
    BY <1>0, <2>3, <2>4, BoundsAssumption DEF TypeOK, Bijection, Injection
  <2>6. /\ txn'[w] = EventsOf(rows, op, order)
        /\ \A v \in Writers \ {w} : txn'[v] = {}
    BY <1>0, <2>1, <2>4 DEF TypeOK
  <2>7. \A x \in txn'[w] : x.row \in rows /\ x.seq = order[x.row] /\ x.op = op[x.row]
    BY <2>6 DEF EventsOf
  <2>8. \A y \in log : y.seq \in Nat
    BY <1>0 DEF TypeOK, Event
  <2>9. LogIsDrawn'
    BY <2>1, <2>4, <2>5, <2>8 DEF LogIsDrawn
  <2>10. TxnIsAhead'
    BY <2>1, <2>4, <2>5, <2>6, <2>7, <2>8 DEF TxnIsAhead, LogIsDrawn
  <2>11. TxnIsAlone'
    BY <2>6 DEF TxnIsAlone
  <2>12. TxnRowsOnce'
    BY <2>6 DEF TxnRowsOnce, EventsOf
  <2>13. DeletedIsAbsent'
    BY <2>1 DEF DeletedIsAbsent
  <2>14. TxnSparesDeleted'
    <3>1. \A r \in rows : ~Deleted(r)
      BY <2>4 DEF Deleted, DeletedIsAbsent
    <3>2. \A r \in rows : ~Deleted(r)'
      BY <2>1, <3>1 DEF Deleted
    <3> QED
      BY <2>6, <2>7, <3>2 DEF TxnSparesDeleted
  <2> QED
    BY <2>9, <2>10, <2>11, <2>12, <2>13, <2>14
<1>2. ASSUME NEW w \in Writers, CommitTransaction(w) PROVE SequenceInv'
  <2>1. /\ txn[w] # {}
        /\ log' = log \cup txn[w]
        /\ counter' = counter
        /\ db' = [r \in Rows |-> IF LastIsDelete(txn[w], r) THEN Absent
                                 ELSE IF Written(txn[w], r) THEN db[r] + 1 ELSE db[r]]
    BY <1>2 DEF CommitTransaction
  <2>2. \A v \in Writers : txn'[v] = {}
    BY <1>0, <1>2, <2>1 DEF CommitTransaction, TxnIsAlone, TypeOK
  <2>3. LogIsDrawn'
    BY <2>1 DEF LogIsDrawn, TxnIsAhead
  <2>4. TxnIsAhead' /\ TxnIsAlone' /\ TxnRowsOnce' /\ TxnSparesDeleted'
    BY <2>2 DEF TxnIsAhead, TxnIsAlone, TxnRowsOnce, TxnSparesDeleted
  <2>5. ASSUME NEW x \in log', x.op = "delete" PROVE db'[x.row] = Absent
    <3>1. CASE x \in log
      <4>1. Deleted(x.row) /\ x.row \in Rows /\ db[x.row] = Absent
        BY <1>0, <2>5, <3>1 DEF Deleted, DeletedIsAbsent, TypeOK, Event
      <4>2. ~Written(txn[w], x.row)
        BY <4>1 DEF Written, TxnSparesDeleted
      <4>3. ~LastIsDelete(txn[w], x.row)
        BY <4>2 DEF Written, LastIsDelete
      <4> QED
        BY <2>1, <4>1, <4>2, <4>3
    <3>2. CASE x \in txn[w]
      <4>1. x.row \in Rows /\ x.seq \in Nat
        BY <1>0, <3>2 DEF TypeOK, Event
      <4>2. LastIsDelete(txn[w], x.row)
        BY <2>5, <3>2, <4>1 DEF LastIsDelete, TxnRowsOnce
      <4> QED
        BY <2>1, <4>1, <4>2
    <3> QED
      BY <2>1, <3>1, <3>2
  <2> QED
    BY <2>3, <2>4, <2>5 DEF DeletedIsAbsent
<1>3. ASSUME NEW w \in Writers, Rollback(w) PROVE SequenceInv'
  BY <1>0, <1>3 DEF Rollback, TypeOK, LogIsDrawn, TxnIsAhead, TxnIsAlone, TxnRowsOnce,
                    DeletedIsAbsent, TxnSparesDeleted, Deleted
<1>4. ASSUME NEW r \in BulkRows, BulkUpdate(r) PROVE SequenceInv'
  <2>1. UNCHANGED <<log, txn, counter>>
    BY <1>4 DEF BulkUpdate
  <2>2. \A q \in Rows : db[q] = Absent => db'[q] = Absent
    BY <1>0, <1>4, BoundsAssumption DEF BulkUpdate, Absent, TypeOK
  <2>3. DeletedIsAbsent'
    BY <1>0, <2>1, <2>2 DEF DeletedIsAbsent, TypeOK, Event
  <2> QED
    BY <2>1, <2>3 DEF LogIsDrawn, TxnIsAhead, TxnIsAlone, TxnRowsOnce, TxnSparesDeleted, Deleted
<1> QED
  BY <1>1, <1>2, <1>3, <1>4 DEF ServerStep

\* The engines only read the server.
LEMMA SyncLeavesServer ==
  ASSUME NEW e \in Engines, SyncStep(e) \/ Abort(e)
  PROVE  UNCHANGED server
BY DEF SyncStep, ReadHead, ReadRow, ReplaceAll, Resync, FetchPage, ApplyChanges, Abort, Goes

LEMMA SequenceStep == TypeInv /\ SequenceInv /\ [Next]_vars => SequenceInv'
<1> SUFFICES ASSUME TypeInv, SequenceInv, [Next]_vars PROVE SequenceInv'
  OBVIOUS
<1>1. CASE UNCHANGED server
  BY <1>1 DEF server, SequenceInv, LogIsDrawn, TxnIsAhead, TxnIsAlone, TxnRowsOnce,
              DeletedIsAbsent, TxnSparesDeleted, Deleted
<1>2. CASE ServerStep
  BY <1>2, SequenceServerStep
<1> QED
  BY <1>1, <1>2, SyncLeavesServer DEF Next, vars, server

\* The order of the sequence is the order of the commits (capture.py:12-15),
\* for any number of sessions and engines.
THEOREM CommitsFollowSequence == Spec => CommitsInSeqOrder
<1>1. TypeInv /\ SequenceInv /\ [Next]_vars
        => [\A x \in log' \ log, y \in log : y.seq < x.seq]_vars
  <2> SUFFICES ASSUME TypeInv, SequenceInv, [Next]_vars,
                      NEW x \in log' \ log, NEW y \in log
               PROVE  y.seq < x.seq
    OBVIOUS
  <2>1. PICK w \in Writers : CommitTransaction(w)
    BY SyncLeavesServer DEF Next, ServerStep, WriteChangeLog, Rollback, BulkUpdate, vars, server
  <2> QED
    BY <2>1 DEF CommitTransaction, SequenceInv, TxnIsAhead
<1> QED
  BY <1>1, TypeInit, TypeStep, SequenceInit, SequenceStep, PTL DEF Spec, CommitsInSeqOrder

(***************************************************************************)
(* The replica: nothing is missed                                          *)
(***************************************************************************)
FollowInv == NumbersAreKnown /\ SnapshotIsAccounted /\ CursorIsSet /\ PageIsAccounted /\ FileIsAccounted

LEMMA FollowInit == Init => FollowInv
BY DEF Init, FollowInv, NumbersAreKnown, SnapshotIsAccounted, CursorIsSet, PageIsAccounted,
       FileIsAccounted, Idle, Known, NoCursor

\* A row no bulk update touches changes only with an event above the whole log.
LEMMA ChangeIsLogged ==
  ASSUME TypeInv, SequenceInv, ServerStep
  PROVE  /\ log \subseteq log'
         /\ \A r \in Rows \ BulkRows : db'[r] # db[r] =>
              \E x \in log' : x.row = r /\ x.seq > 0 /\ \A y \in log : y.seq < x.seq
<1>0. TypeOK
  BY DEF TypeInv
<1>1. ASSUME NEW w \in Writers, CommitTransaction(w), NEW r \in Rows \ BulkRows, db'[r] # db[r]
      PROVE  \E x \in log' : x.row = r /\ x.seq > 0 /\ \A y \in log : y.seq < x.seq
  <2>1. Written(txn[w], r)
    BY <1>1 DEF CommitTransaction, LastIsDelete, Written
  <2>2. PICK x \in txn[w] : x.row = r
    BY <2>1 DEF Written
  <2>3. x \in log' /\ x.seq \in Nat \ {0}
    BY <1>0, <1>1, <2>2 DEF CommitTransaction, TypeOK, Event
  <2> QED
    BY <2>2, <2>3 DEF SequenceInv, TxnIsAhead
<1>2. ASSUME NEW q \in BulkRows, BulkUpdate(q), NEW r \in Rows \ BulkRows
      PROVE  db'[r] = db[r]
  BY <1>0, <1>2, BulkAssumption DEF BulkUpdate, TypeOK
<1> QED
  BY <1>1, <1>2 DEF ServerStep, WriteChangeLog, CommitTransaction, Rollback, BulkUpdate

LEMMA AccountedServerStep ==
  ASSUME TypeInv, SequenceInv, ServerStep,
         NEW r \in Followed, NEW n \in Int, Known(n), NEW v, Accounted(v, r, n)
  PROVE  v # db'[r] => \E x \in log' : x.row = r /\ x.seq > n
<1>1. r \in Rows \ BulkRows
  BY VisibleAssumption DEF Followed
<1>2. CASE db'[r] = db[r]
  BY <1>2, ChangeIsLogged DEF Accounted
<1>3. CASE db'[r] # db[r]
  <2>1. PICK x \in log' : x.row = r /\ x.seq > 0 /\ \A y \in log : y.seq < x.seq
    BY <1>1, <1>3, ChangeIsLogged
  <2>2. x.seq > n
    BY <2>1 DEF Known
  <2> QED
    BY <2>1, <2>2
<1> QED
  BY <1>2, <1>3

LEMMA FollowServerStep ==
  ASSUME TypeInv, SequenceInv, FollowInv, ServerStep
  PROVE  FollowInv'
<1> USE DEF FollowInv
<1>1. UNCHANGED <<replica, cursor, engine>>
  BY DEF ServerStep, WriteChangeLog, CommitTransaction, Rollback, BulkUpdate
<1>2. \A n : Known(n) => Known(n)'
  BY ChangeIsLogged DEF Known
<1>3. /\ cursor # NoCursor => cursor \in Int
      /\ \A e \in Engines : engine[e].head \in Int /\ engine[e].next \in Int
  BY DEF TypeInv, TypeOK, Engine
<1>4. NumbersAreKnown' /\ CursorIsSet'
  BY <1>1, <1>2 DEF NumbersAreKnown, CursorIsSet
<1>5. SnapshotIsAccounted'
  <2> SUFFICES ASSUME NEW e \in Engines, engine[e].pc = "snapshot", NEW r \in Followed \ engine[e].todo
               PROVE  Accounted(engine[e].table[r], r, engine[e].head)'
    BY <1>1 DEF SnapshotIsAccounted
  <2>1. Accounted(engine[e].table[r], r, engine[e].head) /\ Known(engine[e].head)
    BY DEF SnapshotIsAccounted, NumbersAreKnown
  <2> QED
    BY <1>1, <1>3, <2>1, AccountedServerStep DEF Accounted
<1>6. PageIsAccounted'
  <2> SUFFICES ASSUME NEW e \in Engines, engine[e].pc = "page", NEW r \in Followed \ engine[e].todo
               PROVE  Accounted(Patched(e, r), r, engine[e].next)'
    BY <1>1 DEF PageIsAccounted
  <2>1. Accounted(Patched(e, r), r, engine[e].next) /\ Known(engine[e].next)
    BY DEF PageIsAccounted, NumbersAreKnown
  <2>2. Patched(e, r)' = Patched(e, r)
    BY <1>1 DEF Patched
  <2> QED
    BY <1>1, <1>3, <2>1, <2>2, AccountedServerStep DEF Accounted
<1>7. FileIsAccounted'
  <2> SUFFICES ASSUME cursor # NoCursor, NEW r \in Followed
               PROVE  Accounted(replica[r], r, cursor)'
    BY <1>1 DEF FileIsAccounted
  <2>1. Accounted(replica[r], r, cursor) /\ Known(cursor)
    BY DEF FileIsAccounted, NumbersAreKnown
  <2> QED
    BY <1>1, <1>3, <2>1, AccountedServerStep DEF Accounted
<1> QED
  BY <1>4, <1>5, <1>6, <1>7

LEMMA FollowSyncStep ==
  ASSUME TypeInv, SequenceInv, FollowInv, SoleEngine, NEW e \in Engines, SyncStep(e) \/ Abort(e)
  PROVE  FollowInv'
<1> USE DEF FollowInv
<1>0. /\ TypeOK /\ engine[e] \in Engine
      /\ Engines = {e}
      /\ Followed \subseteq Visible /\ Visible \subseteq Rows
      /\ UNCHANGED <<db, log>>
  BY SyncLeavesServer, VisibleAssumption DEF TypeInv, TypeOK, SoleEngine, Followed, server
<1>1. Head \in Nat /\ IsHead(Head) /\ Known(Head)
  BY HeadIsHead DEF TypeInv
<1>2. \A n : Known(n)' <=> Known(n)
  BY <1>0 DEF Known
<1>3. \A v, r, n : Accounted(v, r, n)' <=> Accounted(v, r, n)
  BY <1>0 DEF Accounted
<1>4. CASE ReadHead(e)
  <2>1. /\ UNCHANGED <<replica, cursor>>
        /\ engine'[e].pc = "snapshot" \/ (engine'[e].pc = "ready" /\ cursor # NoCursor)
        /\ engine'[e].pc = "snapshot" => engine'[e].todo = Visible
        /\ engine'[e].head = Head /\ engine'[e].next = 0
    BY <1>0, <1>4 DEF ReadHead, Goes, file, TypeOK, Idle
  <2>2. NumbersAreKnown' /\ CursorIsSet'
    BY <1>0, <1>1, <1>2, <2>1 DEF NumbersAreKnown, CursorIsSet, Known
  <2>3. SnapshotIsAccounted' /\ PageIsAccounted' /\ FileIsAccounted'
    BY <1>0, <2>1 DEF SnapshotIsAccounted, PageIsAccounted, FileIsAccounted, Accounted
  <2> QED
    BY <2>2, <2>3
<1>5. CASE ReadRow(e)
  <2>1. PICK r \in engine[e].todo :
          engine' = [engine EXCEPT ![e] = [engine[e] EXCEPT !.todo = @ \ {r}, !.table[r] = db[r]]]
    BY <1>5 DEF ReadRow, Goes
  <2>2. /\ UNCHANGED <<replica, cursor>>
        /\ engine'[e].pc = engine[e].pc
        /\ engine'[e].head = engine[e].head /\ engine'[e].next = engine[e].next
        /\ engine'[e].todo = engine[e].todo \ {r}
        /\ engine'[e].table[r] = db[r] /\ db[r] # Unread
        /\ \A q \in Rows \ {r} : engine'[e].table[q] = engine[e].table[q]
    BY <1>0, <1>5, <2>1 DEF ReadRow, file, TypeOK, Engine, Unread
  <2>3. NumbersAreKnown' /\ CursorIsSet' /\ FileIsAccounted'
    BY <1>0, <1>2, <2>2 DEF NumbersAreKnown, CursorIsSet, FileIsAccounted, Accounted
  <2>4. SnapshotIsAccounted'
    BY <1>0, <2>2 DEF SnapshotIsAccounted, Accounted
  <2>5. PageIsAccounted'
    BY <1>0, <2>2 DEF PageIsAccounted, Accounted, Patched
  <2> QED
    BY <2>3, <2>4, <2>5
<1>6. CASE ReplaceAll(e)
  <2>1. /\ engine[e].pc = "snapshot" /\ engine[e].todo = {}
        /\ cursor' = engine[e].head
        /\ \A r \in Visible : replica'[r] = engine[e].table[r]
        /\ engine'[e] = [engine[e] EXCEPT !.pc = "ready"]
    BY <1>0, <1>6 DEF ReplaceAll, Goes, TypeOK
  <2>2. /\ engine'[e].pc = "ready"
        /\ engine'[e].head = engine[e].head /\ engine'[e].next = engine[e].next
        /\ engine[e].head # NoCursor
    BY <1>0, <2>1 DEF Engine, NoCursor
  <2>3. NumbersAreKnown' /\ CursorIsSet'
    BY <1>0, <1>2, <2>1, <2>2 DEF NumbersAreKnown, CursorIsSet
  <2>4. SnapshotIsAccounted' /\ PageIsAccounted'
    BY <1>0, <2>2 DEF SnapshotIsAccounted, PageIsAccounted
  <2>5. FileIsAccounted'
    BY <1>0, <2>1 DEF FileIsAccounted, SnapshotIsAccounted, Accounted
  <2> QED
    BY <2>3, <2>4, <2>5
<1>7. CASE Resync(e)
  <2>1. /\ UNCHANGED <<replica, cursor>>
        /\ engine'[e].pc \in {"idle", "resync"}
        /\ engine'[e].head = engine[e].head /\ engine'[e].next = engine[e].next
    BY <1>0, <1>7 DEF Resync, Goes, file, TypeOK, Engine
  <2> QED
    BY <1>0, <1>2, <2>1 DEF NumbersAreKnown, CursorIsSet, SnapshotIsAccounted, PageIsAccounted,
                            FileIsAccounted, Accounted
<1>8. CASE FetchPage(e)
  <2> DEFINE page(n) == {x \in Unseen(Since) : x.seq <= n}
             todo(n) == {r \in Rows : Written(page(n), r) /\ ~LastIsDelete(page(n), r)}
             table(n) == [r \in Rows |-> IF LastIsDelete(page(n), r) THEN Absent ELSE Unread]
             more == ~Fits(Unseen(Since))
  <2>1. PICK n \in {x.seq : x \in Unseen(Since)} \cup {Head} :
          engine' = [engine EXCEPT ![e] =
            [engine[e] EXCEPT !.pc = "page", !.todo = todo(n), !.table = table(n),
                              !.next = n, !.more = more]]
    BY <1>8 DEF FetchPage, Goes
  <2>2. /\ UNCHANGED <<replica, cursor>>
        /\ engine'[e].pc = "page" /\ engine'[e].todo = todo(n) /\ engine'[e].table = table(n)
        /\ engine'[e].head = engine[e].head /\ engine'[e].next = n
    BY <1>0, <1>8, <2>1 DEF FetchPage, file, TypeOK, Engine
  <2>3. cursor \in Nat /\ Since = cursor
    BY <1>0, <1>8 DEF FetchPage, CursorIsSet, TypeOK, Since
  <2>4. /\ n \in Nat /\ cursor <= n /\ n <= Head /\ Known(n)
    <3>1. cursor <= Head
      BY <1>1, <1>8, <2>3 DEF FetchPage, ResyncRequired
    <3> QED
      BY <1>0, <1>1, <2>1, <2>3, <3>1 DEF Unseen, Known, TypeOK, Event
  <2>5. NumbersAreKnown' /\ CursorIsSet' /\ FileIsAccounted' /\ SnapshotIsAccounted'
    BY <1>0, <1>2, <2>2, <2>3, <2>4 DEF NumbersAreKnown, CursorIsSet, FileIsAccounted,
         SnapshotIsAccounted, Accounted, NoCursor
  <2>6. ASSUME NEW r \in Followed \ todo(n)
        PROVE  Accounted(IF table(n)[r] = Unread THEN replica[r] ELSE table(n)[r], r, n)
    <3>1. r \in Rows /\ r \in Visible
      BY <1>0, <2>6
    <3>2. CASE LastIsDelete(page(n), r)
      <4>1. \E x \in log : x.row = r /\ x.op = "delete"
        BY <3>2 DEF LastIsDelete, Unseen
      <4>2. db[r] = Absent
        BY <4>1 DEF SequenceInv, DeletedIsAbsent
      <4> QED
        BY <3>1, <3>2, <4>2 DEF Accounted, Absent, Unread
    <3>3. CASE ~LastIsDelete(page(n), r)
      <4>1. ~Written(page(n), r)
        BY <2>6, <3>1, <3>3
      <4>2. table(n)[r] = Unread
        BY <3>1, <3>3
      <4>3. Accounted(replica[r], r, cursor)
        BY <2>3 DEF FileIsAccounted, NoCursor
      <4>4. \A x \in log : x.row = r /\ x.seq > cursor => x.seq > n
        <5> SUFFICES ASSUME NEW x \in log, x.row = r, x.seq > cursor, ~(x.seq > n) PROVE FALSE
          OBVIOUS
        <5>1. x.seq \in Nat /\ x.seq <= n
          BY <1>0, <2>4 DEF TypeOK, Event
        <5>2. x \in page(n)
          BY <1>1, <2>3, <2>4, <3>1, <5>1 DEF Unseen
        <5> QED
          BY <4>1, <5>2 DEF Written
      <4> QED
        BY <4>2, <4>3, <4>4 DEF Accounted
    <3> QED
      BY <3>2, <3>3
  <2>7. PageIsAccounted'
    <3> HIDE DEF todo, table
    <3> QED
      BY <1>0, <2>2, <2>4, <2>6 DEF PageIsAccounted, Patched, Accounted
  <2> QED
    BY <2>5, <2>7
<1>9. CASE ApplyChanges(e)
  <2>1. /\ engine[e].pc = "page" /\ engine[e].todo = {}
        /\ \A r \in Rows : replica'[r] = Patched(e, r)
        /\ engine'[e].pc \in {"ready", "done"}
        /\ engine'[e].head = engine[e].head /\ engine'[e].next = engine[e].next
    BY <1>0, <1>9 DEF ApplyChanges, Goes, TypeOK, Engine, Patched
  <2>2. cursor \in Nat /\ cursor <= engine[e].next /\ engine[e].next \in Nat
    BY <1>0, <2>1 DEF PageIsAccounted, CursorIsSet, TypeOK, Engine
  <2>3. cursor' = engine[e].next
    BY <1>9, <2>2 DEF ApplyChanges, Since, NoCursor
  <2>4. NumbersAreKnown' /\ CursorIsSet'
    BY <1>0, <1>2, <2>1, <2>2, <2>3 DEF NumbersAreKnown, CursorIsSet, NoCursor
  <2>5. SnapshotIsAccounted' /\ PageIsAccounted'
    BY <1>0, <2>1 DEF SnapshotIsAccounted, PageIsAccounted
  <2>6. FileIsAccounted'
    BY <1>0, <2>1, <2>3 DEF FileIsAccounted, PageIsAccounted, Accounted
  <2> QED
    BY <2>4, <2>5, <2>6
<1>10. CASE Abort(e)
  <2>1. UNCHANGED <<replica, cursor>> /\ engine'[e] = Idle
    BY <1>0, <1>10 DEF Abort, file, TypeOK
  <2> QED
    BY <1>0, <1>2, <2>1 DEF NumbersAreKnown, CursorIsSet, SnapshotIsAccounted, PageIsAccounted,
                            FileIsAccounted, Accounted, Idle, Known
<1> QED
  BY <1>4, <1>5, <1>6, <1>7, <1>8, <1>9, <1>10 DEF SyncStep

LEMMA FollowStep ==
  ASSUME SoleEngine
  PROVE  TypeInv /\ SequenceInv /\ FollowInv /\ [Next]_vars => FollowInv'
<1> SUFFICES ASSUME TypeInv, SequenceInv, FollowInv, [Next]_vars PROVE FollowInv'
  OBVIOUS
<1>1. CASE UNCHANGED vars
  BY <1>1 DEF vars, FollowInv, NumbersAreKnown, SnapshotIsAccounted, CursorIsSet,
              PageIsAccounted, FileIsAccounted, Accounted, Known, Patched
<1> QED
  BY <1>1, FollowServerStep, FollowSyncStep DEF Next

\* With one engine on the replica file the cursor never passes a change the
\* replica has not got, whatever the page size, the number of sessions and
\* the commits, rollbacks and failed synchronisations in between.
THEOREM ReplicaMissesNothing ==
  ASSUME SoleEngine
  PROVE  Spec => []NothingIsMissed
<1>1. FollowInv => NothingIsMissed
  BY DEF FollowInv, FileIsAccounted, NothingIsMissed, Missed, Accounted, Followed
<1> QED
  BY <1>1, TypeInit, TypeStep, SequenceInit, SequenceStep, FollowInit, FollowStep, PTL DEF Spec

(***************************************************************************)
(* The replica: rows move forward                                          *)
(***************************************************************************)
\* Rows the user does not see never enter the engine or the file.
HiddenStaysOut ==
  \A r \in Rows \ Visible :
    /\ replica[r] = Absent
    /\ \A e \in Engines : engine[e].table[r] = Unread /\ r \notin engine[e].todo

\* Unless deleted, the file is not ahead of the engine, nor it of the database.
FileIsBehind == \A r \in Rows : replica[r] <= db[r] \/ Deleted(r)
TableIsBetween ==
  \A e \in Engines : engine[e].pc \in {"snapshot", "page"} =>
    \A r \in Rows : \/ engine[e].table[r] = Unread
                    \/ replica[r] <= engine[e].table[r] /\ engine[e].table[r] <= db[r]
                    \/ Deleted(r)

OrderInv == HiddenStaysOut /\ FileIsBehind /\ TableIsBetween

LEMMA OrderInit == Init => OrderInv
BY VisibleAssumption DEF Init, OrderInv, HiddenStaysOut, FileIsBehind, TableIsBetween, Idle, Absent

LEMMA OrderServerStep ==
  ASSUME TypeInv, OrderInv, ServerStep
  PROVE  OrderInv'
<1>0. /\ TypeOK
      /\ UNCHANGED <<replica, engine>>
  BY DEF TypeInv, ServerStep, WriteChangeLog, CommitTransaction, Rollback, BulkUpdate
<1>1. \A r \in Rows : Deleted(r) => Deleted(r)'
  BY DEF Deleted, ServerStep, WriteChangeLog, CommitTransaction, Rollback, BulkUpdate
<1>2. \A r \in Rows : db[r] <= db'[r] \/ Deleted(r)'
  <2>1. ASSUME NEW w \in Writers, CommitTransaction(w), NEW r \in Rows
        PROVE  db[r] <= db'[r] \/ Deleted(r)'
    <3>1. CASE LastIsDelete(txn[w], r)
      BY <2>1, <3>1 DEF CommitTransaction, LastIsDelete, Deleted
    <3>2. CASE ~LastIsDelete(txn[w], r)
      BY <1>0, <2>1, <3>2 DEF CommitTransaction, TypeOK
    <3> QED
      BY <3>1, <3>2
  <2>2. ASSUME NEW q \in BulkRows, BulkUpdate(q), NEW r \in Rows
        PROVE  db[r] <= db'[r]
    BY <1>0, <2>2 DEF BulkUpdate, TypeOK
  <2>3. CASE UNCHANGED db
    BY <1>0, <2>3 DEF TypeOK
  <2> QED
    BY <2>1, <2>2, <2>3 DEF ServerStep, WriteChangeLog, Rollback
<1>3. HiddenStaysOut'
  BY <1>0 DEF OrderInv, HiddenStaysOut
<1>7. \A r \in Rows : replica[r] \in Nat /\ db[r] \in Nat /\ db'[r] \in Nat
  BY <1>0, TypeServerStep DEF TypeInv, TypeOK
<1>4. FileIsBehind'
  BY <1>0, <1>1, <1>2, <1>7 DEF OrderInv, FileIsBehind
<1>5. TableIsBetween'
  <2> SUFFICES ASSUME NEW e \in Engines, engine[e].pc \in {"snapshot", "page"}, NEW r \in Rows,
                      engine[e].table[r] # Unread, ~Deleted(r)'
               PROVE  replica[r] <= engine[e].table[r] /\ engine[e].table[r] <= db'[r]
    BY <1>0 DEF TableIsBetween
  <2>1. engine[e].table[r] \in Nat
    BY <1>0 DEF TypeOK, Engine
  <2> QED
    BY <1>1, <1>2, <1>7, <2>1 DEF OrderInv, TableIsBetween
<1> QED
  BY <1>3, <1>4, <1>5 DEF OrderInv

LEMMA OrderSyncStep ==
  ASSUME TypeInv, OrderInv, SoleEngine, NEW e \in Engines, SyncStep(e) \/ Abort(e)
  PROVE  OrderInv' /\ \A r \in Rows : replica'[r] >= replica[r] \/ Deleted(r)
<1> USE DEF OrderInv
<1>0. /\ TypeOK /\ SnapshotIsRead /\ engine[e] \in Engine
      /\ Engines = {e}
      /\ Visible \subseteq Rows
      /\ UNCHANGED <<db, log>>
      /\ \A r \in Rows : replica[r] \in Nat /\ db[r] \in Nat
  BY SyncLeavesServer, VisibleAssumption DEF TypeInv, TypeOK, SoleEngine, server
<1>1. \A r : Deleted(r)' <=> Deleted(r)
  BY <1>0 DEF Deleted
<1>2. CASE ReadHead(e)
  <2>1. /\ UNCHANGED <<replica, cursor>>
        /\ engine'[e].todo \subseteq Visible
        /\ \A r \in Rows : engine'[e].table[r] = Unread
    BY <1>0, <1>2 DEF ReadHead, Goes, file, TypeOK, Idle
  <2> QED
    BY <1>0, <1>1, <2>1 DEF HiddenStaysOut, FileIsBehind, TableIsBetween
<1>3. CASE ReadRow(e)
  <2>1. PICK r \in engine[e].todo :
          engine' = [engine EXCEPT ![e] = [engine[e] EXCEPT !.todo = @ \ {r}, !.table[r] = db[r]]]
    BY <1>3 DEF ReadRow, Goes
  <2>2. /\ UNCHANGED <<replica, cursor>>
        /\ engine'[e].pc = engine[e].pc
        /\ engine'[e].todo = engine[e].todo \ {r}
        /\ r \in Rows /\ engine'[e].table[r] = db[r]
        /\ \A q \in Rows \ {r} : engine'[e].table[q] = engine[e].table[q]
    BY <1>0, <1>3, <2>1 DEF ReadRow, file, TypeOK, Engine
  <2>3. HiddenStaysOut' /\ FileIsBehind'
    BY <1>0, <1>1, <2>1, <2>2 DEF HiddenStaysOut, FileIsBehind
  <2>4. TableIsBetween'
    BY <1>0, <1>1, <2>2 DEF FileIsBehind, TableIsBetween
  <2> QED
    BY <1>0, <2>2, <2>3, <2>4
<1>4. CASE ReplaceAll(e)
  <2>1. /\ engine[e].pc = "snapshot" /\ engine[e].todo = {}
        /\ \A r \in Rows : replica'[r] = IF r \in Visible THEN engine[e].table[r] ELSE Absent
        /\ engine'[e] = [engine[e] EXCEPT !.pc = "ready"]
    BY <1>0, <1>4 DEF ReplaceAll, Goes, TypeOK
  <2>2. /\ engine'[e].pc = "ready" /\ engine'[e].todo = {}
        /\ engine'[e].table = engine[e].table
        /\ engine[e].table \in [Rows -> Nat \cup {Unread}]
    BY <1>0, <2>1 DEF Engine
  <2>3. ASSUME NEW r \in Visible
        PROVE  (replica[r] <= replica'[r] /\ replica'[r] <= db[r]) \/ Deleted(r)
    BY <1>0, <2>1, <2>3 DEF SnapshotIsRead, TableIsBetween
  <2>4. HiddenStaysOut' /\ TableIsBetween'
    BY <1>0, <2>1, <2>2 DEF HiddenStaysOut, TableIsBetween
  <2>5. FileIsBehind'
    BY <1>0, <1>1, <2>1, <2>3 DEF FileIsBehind, Absent
  <2>6. \A r \in Rows : replica'[r] >= replica[r] \/ Deleted(r)
    <3>1. \A r \in Rows : replica'[r] \in Nat
      BY TypeSyncStep DEF TypeInv, TypeOK
    <3> QED
      BY <1>0, <2>1, <2>3, <3>1 DEF HiddenStaysOut, Absent
  <2> QED
    BY <2>4, <2>5, <2>6
<1>5. CASE Resync(e)
  <2>1. /\ UNCHANGED <<replica, cursor>>
        /\ engine'[e].pc \in {"idle", "resync"}
        /\ engine'[e].todo = engine[e].todo /\ engine'[e].table = engine[e].table
    BY <1>0, <1>5 DEF Resync, Goes, file, TypeOK, Engine
  <2> QED
    BY <1>0, <1>1, <2>1 DEF HiddenStaysOut, FileIsBehind, TableIsBetween
<1>6. CASE FetchPage(e)
  <2> DEFINE page(n) == {x \in Unseen(Since) : x.seq <= n}
             todo(n) == {r \in Rows : Written(page(n), r) /\ ~LastIsDelete(page(n), r)}
             table(n) == [r \in Rows |-> IF LastIsDelete(page(n), r) THEN Absent ELSE Unread]
             more == ~Fits(Unseen(Since))
  <2>1. PICK n \in {x.seq : x \in Unseen(Since)} \cup {Head} :
          engine' = [engine EXCEPT ![e] =
            [engine[e] EXCEPT !.pc = "page", !.todo = todo(n), !.table = table(n),
                              !.next = n, !.more = more]]
    BY <1>6 DEF FetchPage, Goes
  <2>2. /\ UNCHANGED <<replica, cursor>>
        /\ engine'[e].todo = todo(n) /\ engine'[e].table = table(n)
    BY <1>0, <1>6, <2>1 DEF FetchPage, file, TypeOK, Engine
  <2>3. /\ \A r \in todo(n) : r \in Visible
        /\ \A r \in Rows : table(n)[r] = Unread \/ (r \in Visible /\ Deleted(r))
    BY DEF Written, LastIsDelete, Unseen, Deleted
  <2> HIDE DEF todo, table
  <2> QED
    BY <1>0, <1>1, <2>2, <2>3 DEF HiddenStaysOut, FileIsBehind, TableIsBetween
<1>7. CASE ApplyChanges(e)
  <2>1. /\ engine[e].pc = "page" /\ engine[e].todo = {}
        /\ \A r \in Rows : replica'[r] = Patched(e, r)
        /\ engine'[e].pc \in {"ready", "done"}
        /\ engine'[e].todo = engine[e].todo /\ engine'[e].table = engine[e].table
        /\ engine[e].table \in [Rows -> Nat \cup {Unread}]
    BY <1>0, <1>7 DEF ApplyChanges, Goes, TypeOK, Engine, Patched
  <2>2. ASSUME NEW r \in Rows
        PROVE  (replica[r] <= replica'[r] /\ replica'[r] <= db[r]) \/ Deleted(r)
    BY <1>0, <2>1, <2>2 DEF Patched, TableIsBetween, FileIsBehind
  <2>3. HiddenStaysOut' /\ TableIsBetween'
    BY <1>0, <2>1 DEF HiddenStaysOut, TableIsBetween, Patched
  <2>4. FileIsBehind'
    BY <1>0, <1>1, <2>2 DEF FileIsBehind
  <2>5. \A r \in Rows : replica'[r] >= replica[r] \/ Deleted(r)
    <3>1. \A r \in Rows : replica'[r] \in Nat
      BY TypeSyncStep DEF TypeInv, TypeOK
    <3> QED
      BY <1>0, <2>2, <3>1
  <2> QED
    BY <2>3, <2>4, <2>5
<1>8. CASE Abort(e)
  <2>1. UNCHANGED <<replica, cursor>> /\ engine'[e] = Idle
    BY <1>0, <1>8 DEF Abort, file, TypeOK
  <2> QED
    BY <1>0, <1>1, <2>1 DEF HiddenStaysOut, FileIsBehind, TableIsBetween, Idle
<1> QED
  BY <1>2, <1>3, <1>4, <1>5, <1>6, <1>7, <1>8 DEF SyncStep

LEMMA OrderStep ==
  ASSUME SoleEngine
  PROVE  TypeInv /\ OrderInv /\ [Next]_vars
           => OrderInv' /\ \A r \in Rows : replica'[r] >= replica[r] \/ Deleted(r)
<1> SUFFICES ASSUME TypeInv, OrderInv, [Next]_vars
             PROVE  OrderInv' /\ \A r \in Rows : replica'[r] >= replica[r] \/ Deleted(r)
  OBVIOUS
<1>1. \A r \in Rows : replica[r] \in Nat
  BY DEF TypeInv, TypeOK
<1>2. CASE UNCHANGED vars
  BY <1>1, <1>2 DEF vars, OrderInv, HiddenStaysOut, FileIsBehind, TableIsBetween, Deleted
<1>3. CASE ServerStep
  <2>1. UNCHANGED replica
    BY <1>3 DEF ServerStep, WriteChangeLog, CommitTransaction, Rollback, BulkUpdate
  <2> QED
    BY <1>1, <1>3, <2>1, OrderServerStep
<1> QED
  BY <1>2, <1>3, OrderSyncStep DEF Next

\* With one engine on the replica file no row the user sees goes back to an
\* older version, rows updated in bulk and repeated initial loads included.
THEOREM ReplicaMovesForward ==
  ASSUME SoleEngine
  PROVE  Spec => RowsMoveForward
<1>1. TypeInv /\ OrderInv /\ [Next]_vars
        => [\A r \in Rows : replica'[r] >= replica[r] \/ Deleted(r)]_vars
  BY OrderStep
<1> QED
  BY <1>1, TypeInit, TypeStep, OrderInit, OrderStep, PTL DEF Spec, RowsMoveForward
=============================================================================
