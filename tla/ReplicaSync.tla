---------------------------- MODULE ReplicaSync ----------------------------
(***************************************************************************)
(* The local SQLite replica of the desktop application. Every transaction  *)
(* of the API writes the rows it changed to change_log as it commits; a    *)
(* synchronisation engine in the desktop loads a snapshot once and then    *)
(* applies pages of change_log, keeping its cursor in the replica file.    *)
(*                                                                         *)
(* A row's content is a version number, zero for a row that is not there.  *)
(* Tables are abstracted to rows, each read by a statement of its own. The *)
(* entities a user may see are fixed, and so are identity and schema; the  *)
(* log is never purged and the database never restored.                    *)
(***************************************************************************)
EXTENDS Integers, FiniteSets, Functions

CONSTANTS
  Rows,        \* rows of the replicated entities
  Visible,     \* those of entities the user may see
  BulkRows,    \* those also updated by statements that bypass the ORM
  Writers,     \* sessions of the API
  Engines,     \* engines, in as many app instances, that share the replica file
  PageSize,    \* events per page of /sync/changes
  MaxSeq,      \* bound on the sequence numbers drawn
  MaxVersion,  \* bound on the version a bulk update may reach
  MaxAborts    \* bound on the synchronisations that fail

ASSUME VisibleAssumption == Visible \subseteq Rows
ASSUME BulkAssumption == BulkRows \subseteq Rows
ASSUME PageSizeAssumption == PageSize \in Nat \ {0}
ASSUME BoundsAssumption == MaxSeq \in Nat /\ MaxVersion \in Nat /\ MaxAborts \in Nat

VARIABLES
  db,       \* PostgreSQL: the committed version of each row
  log,      \* PostgreSQL: the committed rows of change_log
  counter,  \* PostgreSQL: last value drawn from the sequence of change_log
  txn,      \* txn[w]: events session w has inserted and not committed
  replica,  \* SQLite: the version of each row
  cursor,   \* SQLite: sequence number the replica has caught up with
  engine,   \* engine[e]: what engine e holds in memory
  aborts    \* synchronisations that have failed

vars == <<db, log, counter, txn, replica, cursor, engine, aborts>>
server == <<db, log, counter, txn>>
file == <<replica, cursor>>

Absent == 0
NoCursor == -1
Unread == -1

Event == [seq : Nat \ {0}, row : Rows, op : {"upsert", "delete"}]

\* A synchronisation has not begun, or it raised, when pc is idle; it returned
\* its result when pc is done.
Engine == [pc : {"idle", "done", "resync", "snapshot", "ready", "page"},
           fresh : BOOLEAN,   \* this synchronisation has loaded a snapshot
           head : Nat,        \* head when the snapshot was begun
           todo : SUBSET Rows,
           table : [Rows -> Nat \cup {Unread}],
           next : Nat,        \* next_seq of the page
           more : BOOLEAN]    \* has_more of the page

Idle == [pc |-> "idle", fresh |-> FALSE, head |-> 0, todo |-> {},
         table |-> [r \in Rows |-> Unread], next |-> 0, more |-> FALSE]

(***************************************************************************)
(* The server                                                              *)
(***************************************************************************)
IsHead(h) ==
  \/ log = {} /\ h = 0
  \/ (\E e \in log : e.seq = h) /\ \A e \in log : e.seq <= h

\* _bounds: the greatest sequence number visible.
Head == CHOOSE h \in {0} \cup {e.seq : e \in log} : IsHead(h)

Deleted(r) == \E e \in log : e.row = r /\ e.op = "delete"

\* Mutant: the sequence is drawn without the advisory lock.
NoLock == TRUE

\* pg_advisory_xact_lock: held from the INSERT until the end of the transaction.
LockFree == \A w \in Writers : txn[w] = {}

EventsOf(rows, op, order) == {[seq |-> order[r], row |-> r, op |-> op[r]] : r \in rows}

\* The before_commit listener inserts one event per row the session touched.
\* Rows are identified by a serial key, so what was deleted never returns.
WriteChangeLog(w) ==
  /\ LockFree
  /\ txn[w] = {}
  /\ \E rows \in (SUBSET Rows) \ {{}} :
       \E op \in [rows -> {"upsert", "delete"}], last \in counter + 1 .. MaxSeq :
         \E order \in Bijection(rows, counter + 1 .. last) :
           /\ \A r \in rows : IF op[r] = "delete" THEN db[r] # Absent ELSE ~Deleted(r)
           /\ txn' = [txn EXCEPT ![w] = EventsOf(rows, op, order)]
           /\ counter' = last
  /\ UNCHANGED <<db, log, replica, cursor, engine, aborts>>

Written(E, r) == \E e \in E : e.row = r
LastIsDelete(E, r) == \E e \in E : /\ e.row = r /\ e.op = "delete"
                                   /\ \A f \in E : f.row = r => f.seq <= e.seq

CommitTransaction(w) ==
  /\ txn[w] # {}
  /\ db' = [r \in Rows |-> IF LastIsDelete(txn[w], r) THEN Absent
                           ELSE IF Written(txn[w], r) THEN db[r] + 1 ELSE db[r]]
  /\ log' = log \cup txn[w]
  /\ txn' = [txn EXCEPT ![w] = {}]
  /\ UNCHANGED <<counter, replica, cursor, engine, aborts>>

\* The numbers drawn are not given back.
Rollback(w) ==
  /\ txn[w] # {}
  /\ txn' = [txn EXCEPT ![w] = {}]
  /\ UNCHANGED <<db, log, counter, replica, cursor, engine, aborts>>

\* rejoin_rows moves fiscal rows with an UPDATE the listeners do not see.
BulkUpdate(r) ==
  /\ db[r] \in 1 .. MaxVersion - 1
  /\ db' = [db EXCEPT ![r] = @ + 1]
  /\ UNCHANGED <<log, counter, txn, replica, cursor, engine, aborts>>

(***************************************************************************)
(* The engine: sync_once, one request or one SQLite transaction per step   *)
(***************************************************************************)
Goes(e, change) == engine' = [engine EXCEPT ![e] = change] /\ UNCHANGED <<server, aborts>>

\* The start of sync_once, and of the new load when the log asks for one.
ReadHead(e) ==
  /\ engine[e].pc \in {"idle", "done", "resync"}
  /\ LET load == engine[e].pc = "resync" \/ cursor = NoCursor IN
     Goes(e, [Idle EXCEPT !.pc = IF load THEN "snapshot" ELSE "ready",
                          !.fresh = load,
                          !.head = Head,
                          !.todo = IF load THEN Visible ELSE {}])
  /\ UNCHANGED file

\* Mutant: a page carries the rows as they were at its events.
ReadRowAsOfEvent(e) ==
  /\ engine[e].pc \in {"snapshot", "page"}
  /\ \E r \in engine[e].todo :
       LET later == {x \in log : x.row = r /\ engine[e].pc = "page" /\ x.seq > engine[e].next} IN
       Goes(e, [engine[e] EXCEPT !.todo = @ \ {r}, !.table[r] = db[r] - Cardinality(later)])
  /\ UNCHANGED file

\* A page of /sync/snapshot, or the rows of a page of /sync/changes.
ReadRow(e) ==
  /\ engine[e].pc \in {"snapshot", "page"}
  /\ \E r \in engine[e].todo :
       Goes(e, [engine[e] EXCEPT !.todo = @ \ {r}, !.table[r] = db[r]])
  /\ UNCHANGED file

\* Mutant: the snapshot is stored although it is not complete.
ReplaceAllEarly(e) ==
  /\ engine[e].pc = "snapshot"
  /\ replica' = [r \in Rows |-> IF r \in Visible THEN engine[e].table[r] ELSE Absent]
  /\ cursor' = engine[e].head
  /\ Goes(e, [engine[e] EXCEPT !.pc = "ready", !.todo = {}])

\* Mutant: the cursor is the head after the snapshot, not before it.
ReplaceAllAtHead(e) ==
  /\ engine[e].pc = "snapshot" /\ engine[e].todo = {}
  /\ replica' = [r \in Rows |-> IF r \in Visible THEN engine[e].table[r] ELSE Absent]
  /\ cursor' = Head
  /\ Goes(e, [engine[e] EXCEPT !.pc = "ready"])

ReplaceAll(e) ==
  /\ engine[e].pc = "snapshot" /\ engine[e].todo = {}
  /\ replica' = [r \in Rows |-> IF r \in Visible THEN engine[e].table[r] ELSE Absent]
  /\ cursor' = engine[e].head
  /\ Goes(e, [engine[e] EXCEPT !.pc = "ready"])

Since == IF cursor = NoCursor THEN 0 ELSE cursor

\* get_changes: the event after the cursor is no longer in the log, or the
\* cursor is ahead of it. A number lost to a rollback looks like a purge.
ResyncRequired(since) ==
  \/ log # {} /\ \A x \in log : x.seq > since + 1
  \/ since > Head

\* Mutant: the answer is taken for an empty page.
ResyncIgnored(e) ==
  /\ engine[e].pc = "ready" /\ ResyncRequired(Since)
  /\ Goes(e, [engine[e] EXCEPT !.pc = "idle"])
  /\ UNCHANGED file

\* Asked for right after a load the synchronisation fails, to be tried again.
Resync(e) ==
  /\ engine[e].pc = "ready" /\ ResyncRequired(Since)
  /\ Goes(e, [engine[e] EXCEPT !.pc = IF engine[e].fresh THEN "idle" ELSE "resync"])
  /\ UNCHANGED file

\* Events a page may hold, and where it ends: n is its last event, or the head.
Unseen(since) == {x \in log : x.seq > since /\ x.row \in Visible /\ x.seq <= Head}
Fits(E) == Cardinality(E) <= PageSize
PageEnds(E, n) ==
  IF Fits(E) THEN n = Head
  ELSE (\E x \in E : x.seq = n) /\ Cardinality({x \in E : x.seq <= n}) = PageSize

\* Mutant: a page ends the synchronisation whatever has_more says.
ApplyLastPage(e) ==
  /\ engine[e].pc = "page" /\ engine[e].todo = {}
  /\ replica' = [r \in Rows |-> IF engine[e].table[r] = Unread THEN replica[r] ELSE engine[e].table[r]]
  /\ cursor' = IF Since < engine[e].next THEN engine[e].next ELSE Since
  /\ Goes(e, [engine[e] EXCEPT !.pc = "done"])

\* The rows of a page are read after its events; a deletion needs no reading.
FetchPage(e) ==
  /\ engine[e].pc = "ready" /\ ~ResyncRequired(Since)
  /\ \E n \in {x.seq : x \in Unseen(Since)} \cup {Head} :
       LET page == {x \in Unseen(Since) : x.seq <= n} IN
       /\ PageEnds(Unseen(Since), n)
       /\ Goes(e, [engine[e] EXCEPT
            !.pc = "page",
            !.todo = {r \in Rows : Written(page, r) /\ ~LastIsDelete(page, r)},
            !.table = [r \in Rows |-> IF LastIsDelete(page, r) THEN Absent ELSE Unread],
            !.next = n,
            !.more = ~Fits(Unseen(Since))])
  /\ UNCHANGED file

ApplyChanges(e) ==
  /\ engine[e].pc = "page" /\ engine[e].todo = {}
  /\ replica' = [r \in Rows |-> IF engine[e].table[r] = Unread THEN replica[r] ELSE engine[e].table[r]]
  /\ cursor' = IF Since < engine[e].next THEN engine[e].next ELSE Since
  /\ Goes(e, [engine[e] EXCEPT !.pc = IF engine[e].more THEN "ready" ELSE "done"])

\* A request fails or the application ends; SQLite keeps what was committed.
Abort(e) ==
  /\ engine[e].pc \notin {"idle", "done"} /\ aborts < MaxAborts
  /\ engine' = [engine EXCEPT ![e] = Idle]
  /\ aborts' = aborts + 1
  /\ UNCHANGED <<server, file>>

(***************************************************************************)
(* The system. The engines run from a timer; nothing obliges a session to  *)
(* write, or even to end its transaction.                                  *)
(***************************************************************************)
Init ==
  /\ db \in [Rows -> {0, 1}]
  /\ log = {} /\ counter = 0
  /\ txn = [w \in Writers |-> {}]
  /\ replica = [r \in Rows |-> Absent] /\ cursor = NoCursor
  /\ engine = [e \in Engines |-> Idle]
  /\ aborts = 0

ServerStep ==
  \/ \E w \in Writers : WriteChangeLog(w) \/ CommitTransaction(w) \/ Rollback(w)
  \/ \E r \in BulkRows : BulkUpdate(r)

SyncStep(e) ==
  ReadHead(e) \/ ReadRow(e) \/ ReplaceAll(e) \/ Resync(e) \/ FetchPage(e) \/ ApplyChanges(e)

Next == ServerStep \/ \E e \in Engines : SyncStep(e) \/ Abort(e)

Spec == Init /\ [][Next]_vars
FairSpec == Spec /\ \A e \in Engines : WF_vars(SyncStep(e))

(***************************************************************************)
(* Properties                                                              *)
(***************************************************************************)
\* Rows hold versions, never the mark of a row that is still to be read.
TypeOK ==
  /\ db \in [Rows -> Nat]
  /\ log \subseteq Event
  /\ counter \in Nat
  /\ txn \in [Writers -> SUBSET Event]
  /\ replica \in [Rows -> Nat]
  /\ cursor \in Nat \cup {NoCursor}
  /\ engine \in [Engines -> Engine]
  /\ aborts \in Nat

Missed(r) ==
  /\ cursor # NoCursor
  /\ replica[r] # db[r]
  /\ ~\E x \in log : x.row = r /\ x.seq > cursor

\* The cursor never passes a change the replica has not got: a visible row
\* that differs from the database has an event the cursor has still to reach,
\* whatever commits, rollbacks and failures fell between the requests.
NothingIsMissed == \A r \in Visible \ BulkRows : ~Missed(r)

\* The order of the sequence is the order of the commits: what becomes visible
\* in change_log is above everything that already was (capture.py:12-15).
CommitsInSeqOrder ==
  [][\A x \in log' \ log, y \in log : y.seq < x.seq]_vars

\* The user never sees a row go back to an older version.
RowsMoveForward ==
  [][\A r \in Rows : replica'[r] >= replica[r] \/ Deleted(r)]_vars

\* What is committed reaches the replica: a change is shown, or a later one,
\* and a deleted row disappears. Failures are assumed to end (MaxAborts).
ChangesArrive ==
  \A r \in Visible \ BulkRows :
    /\ \A v \in 1 .. MaxSeq + 1 : db[r] = v ~> replica[r] >= v \/ Deleted(r)
    /\ Deleted(r) ~> replica[r] = Absent

(***************************************************************************)
(* One engine on the file is a ReplicaPass                                 *)
(***************************************************************************)
TheEngine == engine[CHOOSE e \in Engines : TRUE]
PassOf(m) == CASE m.pc = "idle" -> "none" [] m.pc = "done" -> "done" [] OTHER -> "running"

Pass == INSTANCE ReplicaPass WITH
          head <- Head,
          pass <- PassOf(TheEngine),
          goal <- IF TheEngine.pc = "idle" THEN 0 ELSE TheEngine.head

\* A synchronisation that returns has reached what was committed when it began,
\* through any resync and any failure before it; the cursor never goes back and
\* never passes the last commit.
PassesAreComplete == Pass!Spec
=============================================================================
