# Formal model of the Industel production-control system

The program is a FastAPI service over PostgreSQL (`src/api`), a PySide desktop
application that talks to it and keeps a local SQLite replica of the data it
shows (`src/app`), a web client, and the tools that install and update them.
These modules model its core in TLA+, check it with TLC and prove part of it
with TLAPS. Everything is translated from the source; `PROJECT.json` maps each
definition to the lines it stands for. In the tables below `proposals/service.py`
means `src/api/app/modules/proposals/service.py`.

## 1. The system

### Components

| component | state | operations | depends on |
|---|---|---|---|
| Production (`proposals/service.py` 4588-5359, 6364-6839; `domain.py`) | area, status, production and shipping status, pending flag of each proposal; flow and flags of each item | create, release, start, pause, resume, define flow, complete (splits) | derived rows, families |
| Proposal families (3492-3685, 5189-5357) | `parent_proposal_id`, `active`, owner of each item | split into children, merge equivalent children, rebirth of the mother | called inside completion, return, separation, delivery |
| Galvanization loads (724-898, 5777-6279) | load status, sent and returned pieces per load and item | create, edit, release, return, close | moves proposals and items, calls the family |
| Expedition (1261-1360, 3688-4026) | available, separated, delivered and remanaged pieces per item | start, separate, deliver, return to production | reads production and loads, calls the family |
| Derived rows (`derived_sync.py`) | none of its own: marks in the session | flush listener, pre-commit hook, reconciliation at start-up | writes Expedition rows for every handler |
| Stage ledger (`stage_ledger.py`) | none: a calculation | stages of an item, anomalies | read by reports and by the consistency check |
| Remanagement, compensation, lots (`remanagement.py`, `item_lots.py`, service 1360-2735) | transfers between proposals, batches, splits of items | plan, confirm, cancel, compensate, separate lot | reads and writes quantities of several proposals |
| Fiscal (service 2736-3469) | invoices, billed quantity per item, status per record | register in batch, cancel an item, withdraw, move items with their proposal | one record per proposal; written by the pre-commit hook too |
| Warehouse, administrative correction, legacy synchronisation batches (service) | status columns | transition tables, free correction, one-way import | write proposals |
| Change capture and sync API (`modules/sync`) | `change_log` and its sequence | record at flush, write at commit under a lock, head, snapshot, changes | called by every commit |
| Replica engine and file (`src/app/replica/sync_engine.py`, `replica_db.py`) | tables, cursor, entities and identity in SQLite | initial load, pages, atomic storage | sync API over HTTP |
| Sync agent, realtime channel, read gate (`src/app/replica/`) | timers, generations of writes and synchronisations | poll, wake on notification, decide whether a screen may read the replica | the engine; the HTTP client |
| Updater and launcher (`src/app/updater`, `src/app/launcher`) | folders of versions, `current.json`, `updater.lock`, handshake marker | stage, activate, confirm, roll back, clean up, open | file system, processes |
| Auth, users, roles, provisioning, security events | sessions, refresh tokens, permissions | log in, refresh, revoke | every request |
| Notifications, chat, attachments, Nomus, catalogue, PDF import | records and files | plain CRUD, fan-out, imports | proposals |
| Channels, deployment, updates, maintenance, backup, audit, health | releases, maintenance windows, backups | operation of the server | the database |
| UI, web client, tools, installer | no state of their own that outlives the screen | | the API |

### How they interact

Every API handler is one transaction: it loads rows, checks, changes them and
commits. A flush listener marks the proposals and items written to; before the
commit `derived_sync` recomputes the Expedition rows of the marked proposals,
and `sync/capture.py` inserts the touched rows into `change_log`. Desktop
engines read that log over HTTP and store what they got in one SQLite
transaction per page. Production, Galvanization and Expedition share no
messages: they meet in the rows of a proposal and its items, and the family
operations run inside the handlers of all three.

### Hard behaviours, and what makes each component correct

* **Flow.** The three sectors work on parts of one order at the same time; a
  proposal is split, its children move apart, are merged, are split again and
  go back into the mother. Correct: no item is lost or left under a closed
  proposal; nothing is delivered that was not separated, separated that is not
  available, available that was not made; a filed proposal is delivered; a
  cancelled one stays put; what was delivered or returned is never undone.
* **Loads.** One item in several loads, drafts recomposed, partial returns.
  Correct: no piece is in two loads, none comes back unsent, the galvanized
  flag means that all pieces are home.
* **Derived rows.** Correct: always equal to what the sources say, whichever
  handler ran, so that no nightly repair is needed.
* **Replication.** Transactions commit in any order and may roll back after
  drawing a number; rows change between the requests of one synchronisation;
  requests fail; several application windows share one file. Correct: the
  cursor never passes a change the replica has not got, rows never go back,
  and changes arrive.
* **Read gate.** A screen must not read the replica before its user's own write
  is in it, while writes, notices, timers and one worker thread interleave; and
  the gate must open again.
* **Remanagement.** An exchange is looked up, planned, written, verified and
  derived anew at the commit, while others retry it. Correct: it is applied
  once, every piece keeps its stage, none is delivered twice, and no honest
  exchange is refused.
* **Fiscal.** Batches lock their records, cancellations and withdrawals do not,
  and items change records meanwhile. Correct: balances are what the invoices
  leave, a document is registered once however often it is confirmed, statuses
  follow the items, and requests that wait for each other end.
* **Updater.** Two windows ask at once, old processes linger, a version does not
  start, an updater crashes. Correct: the pointer names whole versions, success
  is confirmed by the version itself, a failure returns to a working version,
  and the application comes back.
* **Expedition, concurrently.** Its handlers lock nothing.

`PROJECT.json` lists each hazard at its line, with the properties that would
catch it or the reason why none does yet.

## 2. Plan

Done, in this order:

1. `ProposalState` -> `ProposalFamily` -> `Production`, `Galvanization`,
   `Expedition`, `StageLedger` -> `ProposalFlow`, the core of the system.
2. `ReplicaSync` and its proofs; the abstract `ReplicaPass`, which it implements.
3. `ReplicaReadGate`, composed with `ReplicaPass` in the place of the engine.
4. `Remanagement` of pieces, with the handlers around it and concurrent retries.
5. `VersionedUpdate`: the updater, the launcher and their crashes.
6. `FiscalSessions`: concurrent fiscal requests, with their locks.

Left, in the order of what each would add:

7. `ExpeditionConcurrency`: two sessions in the unlocked handlers, and two
   returns of the same item, in the manner of `FiscalSessions`; which of the
   flow's properties survive.
8. Permissions that change during a synchronisation, and restoration of the
   database, as actions of `ReplicaSync`.
9. Deployment and maintenance windows, refresh tokens, notifications.
10. Pure algorithms against reference definitions: collapsing of events, version
    comparison.
11. Proofs of what is listed at the end of section 5.

## 3. Modules

### The flow

`ProposalState` holds the rows. One record `db` is the database as of the last
commit; a handler is a chain of operators from database to database that ends
in `Commit`, the pre-commit hook. So an action is a whole transaction: what the
handler recomputes, merges or derives is inside it.

| module | code | correspondence |
|---|---|---|
| `ProposalState` | `models.py`, `derived_sync.py`, 3688-3820 | `db.proposal`, `db.item`, `db.exp`, `db.load`, `db.link`: the rows; `ReconciledRow`, `Dirty`, `Commit`: derived rows |
| `ProposalFamily` | 3492-3685 | `MergeEqualStatusChildren`, `RebornParent` |
| `Production` | 4699-5359, 6791-6839 | one action per handler; `CompleteProductionItems` chooses the payload's items and the order of the new children |
| `Galvanization` | 724-898, 5806-6279 | create, edit, release, return, close a load |
| `Expedition` | 1261-1360, 3816-4026 | start, separate, deliver, return to production |
| `StageLedger` | `stage_ledger.py` | stages and anomalies as operators, checked against the rows by `LedgerCloses` |
| `ProposalFlow` | 4588-4696 | creation, cancellation, composition, properties |

What is abstracted, and why it does not touch the properties:

* A row that does not exist is a row of zeros: the code only ever stores an
  Expedition row with a positive availability and a load row with a positive
  quantity. Without exchanges an Expedition row's status ENTREGUE is written
  together with the item's `delivered` and never taken back, so the model keeps the
  flag alone; `Remanagement`, where an exchange reopens the row, keeps both.
* `general_status`, `galvanization_status`, `flow_situation` and `is_partial` are
  summaries no modelled handler reads. Row versions and repeated request ids
  only refuse or replay a command; with handlers one after the other they add
  no new step.
* Areas and statuses are not guarded where the code does not guard them: the
  Expedition handlers and the eligibility for a load look at items, not at the
  area, and so do the actions, also before the release.
* Load status CANCELADA is never assigned by the code. An edit of a load
  without items changes no row of the model. The order in which a load's
  proposals are recomputed is immaterial because each touches its own rows.
* Pieces are whole numbers; the code uses decimals with four places.
* Remanagement (a module of its own) is left out of the flow, so its sums of
  given and received pieces are zero; so are the weights, fiscal rows, events, administrative
  correction, `set_proposal_active` and the editing of proposals and items before
  release (the initial states enumerate what an item may look like).

### The replica

`ReplicaSync` has the server (committed rows, `change_log`, its sequence, open
transactions) and any number of engines on one file.

| action | code |
|---|---|
| `WriteChangeLog`, `CommitTransaction`, `Rollback` | `capture.py` 61-107: numbers are drawn under the advisory lock at commit, and not given back by a rollback |
| `BulkUpdate` | `item_lots.py` 436-452: an `UPDATE` the listeners do not see |
| `ReadHead` | `sync_engine.py` 96-115: first load or next pages |
| `ReadRow` | `/sync/snapshot` page, or the rows of a `/sync/changes` page, read after its events |
| `ReplaceAll`, `ApplyChanges` | `replica_db.py` 170-203: one SQLite transaction each; the cursor never decreases in the second |
| `Resync`, `FetchPage` | `/sync/changes` with its `resync_required` |
| `Abort` | a failed request, too many pages, or the end of the application |

A row's content is its version; what the screens show of it does not matter.
Each row is read by a statement of its own, a finer grain than one statement per
entity and so more behaviours. The head and the cursor are read in one step, and
so are the cursor and the events of a page: between the two only other engines
can change the cursor. Permissions, identity and schema are fixed, the log is
not purged and the database not restored. The realtime notification only makes a
synchronisation start earlier.

`ReplicaPass` says what the rest of the desktop may rely on: the cursor moves
forward within the log, and a synchronisation that returns has reached what was
committed when it began. `ReplicaSync` maps its state onto it (`Pass`, with
`head` the greatest committed number) and `PassesAreComplete` is the abstract
specification as a property.

### The read gate

`ReplicaReadGate` takes the engine as an instance of `ReplicaPass` and adds the
write generations (`read_gate.py`), the calls of the API client that raise them,
the agent on the interface thread (`sync_agent.py`) and its worker.

| action | code |
|---|---|
| `StartWrite`, `WriteCommits`, `FinishWrite` | `api_proposal_storage.py` 205-240: a call closes the gate before it is sent and after it has ended, and asks for a synchronisation; a retry after an expired session is inside the call |
| `Deliver`, `Poll` | `sync_requested`, single shot and timer: start a worker, or set the pending flag |
| `BeginSync`, `CompleteSync` | the generation is read before the synchronisation and completed after it |
| `BeginPass` .. `FailPass` | the abstract engine |
| `OnSuccess`, `OnError`, `Stop` | the worker's callbacks, the end of the window |

A call that times out and commits later is a commit of someone else
(`OtherCommits`): nobody was told that it succeeded. The notification of the
server only starts a synchronisation, as the timer does. The replica may already
hold the rows of an earlier day, at any cursor. `write_finished` and the signal it
emits are one step; the user's entities do not change.

### Remanagement

`Remanagement` has the rows of `ProposalState` that count pieces, plus `swap`: what
an item has given and received in exchanges. `LookUp` is the part of a
confirmation before its locks; `ConfirmRemanagement`, `RefuseRemanagement` and
`Replay` are the transaction under them, planning, writing, verification and
hook included. `StageSwaps` plans the exchange from the most advanced stage on,
`MoveInLoads` writes what is at the galvanizer, `Conserves` compares the stages,
`Stages` and `Anomalies` are the stage ledger with exchanges. Production, loads,
separation, delivery and return to production are there with the columns they
change, so that exchanges meet every stage. Areas and statuses of proposals are
left out and with them guards: handlers come in more orders than the program allows.
Of an Expedition row's status the model keeps whether it is ENTREGUE (`closed`),
beside `proposal_item.delivered`: the two part when an exchange gives pieces to a
delivered item, for the row goes back to EM_SEPARACAO (`ReceivedBy`, `service.py`
1925-1926) and the flag stays. Separation, delivery and return then select by the
row (`Active`, 3816-3820), the hook and the ledger by the flag.

### The updater

`VersionedUpdate`: `dir` are the folders, `pointer` is `current.json`, `updater[u]`
the process that serves request u (stage, then activate, as `versioned.py` runs
them), `launches` and `starting` the processes on their way, `marker` the
handshakes, `lock` the file `updater.lock`. The initial states are a fresh
installation and one that has been updated once, with old processes lingering.
Extraction into `.tmp` and its rename are one step (a folder appears at once); a
folder deleted under a process that runs from it stays `partial`. `Crash` ends an
updater at any point. The server never offers a version older than one it has offered.

The lock is acquired as `lock.py` 39-54 does it, in steps between which other
updaters run: `Create` tries to create the file, `Judge` asks for the age of the one
that is there, `Delete` unlinks whatever file has the name by then, `Recreate` tries
once more. `Report` releases, which unlinks without looking at the owner either
(101-108). `LockExpires` is the age of 30 minutes of a file whose owner has crashed; an
update under way is assumed to be faster. `raced` remembers that the lock of an update
under way has been deleted by another. Two updaters then apply at once (run
`update_takeover`), and nothing is claimed of what follows: the cleanup, which reads
the pointer and then deletes, and the writing of the pointer are single steps of the
model only because nobody else is in them. Creating the file and writing its content
are one step (a process that ends between them leaves a file that is never judged
stale), and an unlink that Windows refuses because the file is open is left out.

### Fiscal

`FiscalSessions` is at the grain of statements, not of transactions: each session
has what it has read (`row`, `of`, `item`, as SQLAlchemy's identity map keeps
them), and PostgreSQL's row locks are the function `lock`.

| action | code |
|---|---|
| `Confirm` | `api_proposal_storage.py` 1455: a person fills in a draft and confirms it, again after a lost answer; the version is read anew each time |
| `Find`, `Lock`, `Check`, `Write` | `register_fiscal_batch`: look up the operation, lock record by record, validate, write and commit or roll back |
| `ReadCancel`, `WriteCancel`; `ReadWithdrawal`, `WriteWithdrawal` | the two handlers that lock nothing; the read and the UPDATE are two steps |
| `MoveItem` | the pre-commit hook, when a proposal item changes proposal |
| `DeadlockEnds` | PostgreSQL ends a transaction of a cycle |

`Flush` writes only the columns whose value changed since they were read, which
is what SQLAlchemy's unit of work does. A draft in `Keeps` is confirmed again
under the same `operation_id`, as the API foresees; the desktop makes a new one
each time. A draft has a series or none: the desktop sends none as null
(`api_proposal_storage.py` 1485). A client that sent an empty string would evade the
duplicate check, which compares it as it came (2915) with rows that store it as null
(2935). Weights follow the quantities; the states of the proposal, lists, indicators
and the legacy fiscal batches are left out.

## 4. Runs

| run | instance | what it shows |
|---|---|---|
| `family` | two one-piece items with each of four initial flows, one load, five proposals (157,754 states) | splitting, merging, rebirth and splitting again, in every order with loads, deliveries and cancellations: types, derived rows, ledger, ownership, filing, cancellation, history |
| `loads` | one galvanized item of three pieces, two loads, two proposals (43,859 states) | every partial composition and return: quantities nest, pieces are conserved over loads, the galvanized flag, the ledger |
| `whole` (violated) | as `loads` | a partial delivery closes the proposal |
| `cancelled` (violated) | as `family` | items of live children move into a cancelled mother |
| `replica` | a visible and a hidden row, two sessions, one engine, pages of one event, three numbers, one failure, fair (117,718 states) | nothing is missed, commits follow the sequence, rows move forward, the engine implements `ReplicaPass`, what is committed arrives |
| `replica_shared` (violated) | two engines, one file | a change is missed |
| `gate` | two threads, two writes, two commits, one failed synchronisation, fair (513,897 states) | no screen reads a replica without an answered write; a synchronisation that reopens the gate is always on its way; it does reopen |
| `swaps` | three items of three flows in two proposals, one load, two exchange operations of two sessions (106,390 states) | an exchange is applied once and moves no piece between stages; nothing is delivered twice, reopened rows of delivered items included; what is received can leave; honest plans balance; the ledger closes |
| `swaps_returned` (violated) | two items, one of them returned to production | the hook takes back what the exchange gave |
| `update` | three versions, two overlapping updates, one crash, fair (487,504 states) | the pointer names whole versions; success is the target's; updates end on a working version; the application comes back |
| `update_takeover` (violated) | two versions, three updates, one crash | both takers of a stale lock apply |
| `fiscal` | two records of one item of two pieces, four drafts, two sessions, two confirmations, one cancellation, one withdrawal, one move, fair (32,082 states) | balances, single registration, numbers, statuses; every request ends |

**Bounds.** `Qty`, `Items`, `Loads` and `MaxProposals` bound the flow. Two items
are the least with which a proposal can be split and a load hold part of it;
five proposals leave room for a child that is split in its turn and for a merge
after it. Three pieces in two loads give every kind of partial quantity: sent in
part, returned in part, separated in part, and one more than two halves. An
instance with an item of two pieces beside one of one piece (1.2 million states,
breadth first until the time ran out, and 4.2 million simulated states) was also
run during development and showed no violation; it is too slow to keep. In the
replica `MaxSeq = 3` gives a number lost to a rollback, a page before and a page
after it; `PageSize = 1` makes every second event a new page; `MaxAborts`
bounds failures and `MaxVersion` the bulk updates; a larger safety instance with a
bulk-updated row (907,224 states) showed nothing else. In the gate two writes of
two threads with one synchronisation between them are the least that can confuse
generations. In `swaps` the destination has two items, so one source can serve
two lines, and one proposal's items have different flows. In `update` the third
version is the one that overtakes the second request; two updates and one crash
make a stale lock meet a new request. A third update is the least with which two
take one stale lock: `update_takeover` has it, with two versions. `TypeOK` and
`SuccessIsTheTarget` were checked on all of that instance (3,275,306 states) during
development, and their theorems hold for any number of updates. In `fiscal` the drafts are over both
records in each order, for a deadlock, and over one record each with the same
number and series, for the duplicate check; three confirmations (571,121 states
without liveness) and two of a cancellation were checked during development.
Symmetry is used in safety runs only. `CHECK_DEADLOCK FALSE`: a family that is
delivered or cancelled has nothing more to do, and the bounded counters stop the
others.

**Fairness.** The flow and remanagement have none: nothing obliges people to move
an order. The engine has weak fairness for its steps: `sync_agent.py` starts a
synchronisation every `POLL_INTERVAL_MS` (30 s) as long as the application runs,
and a started one does its next request or fails. Server sessions have none:
`ChangesArrive` speaks of what was committed. Failures end (`MaxAborts`,
`MaxFailures`), since with endless ones nothing can arrive. In the gate the event
loop delivers, the timer fires, calls end or time out and the worker goes on. In
the updater its processes and the launcher run, and each of its waits has a
timeout; people and crashes are not fair. In `fiscal` the server runs the steps of
its requests and PostgreSQL resolves deadlocks; nobody is obliged to send one.

**Exceptions stated in properties.** `LedgerCloses` and part of `QuantitiesNest`
except items whose flow was redefined while they had an Expedition row (the row
stays, and the item is delivered
without having been produced, against `API_PRODUCTION_OFFICIAL_FLOW.md`) and `LedgerCloses` those with pieces returned to
production, for which the ledger has no stage. `NothingOrphaned` excepts a child
that was merged away after it was split: its own children still name it as their
parent and may be reborn into it, inactive (`service.py` 3665). `NothingIsMissed`
and `ChangesArrive` except rows updated in bulk: `rejoin_rows` (`item_lots.py`)
updates fiscal rows by a statement the listeners do not see, although
`FASE1_REPLICA_SQLITE_SYNC_API.md` 110-111 says that no code does so.
`HonestPlansBalance` and `OnlyOwnersChangeOfMadeItems` except items with pieces
returned to production (finding `swaps_returned`), and the former a galvanized
source that was never produced: a swap back of its fabricated pieces is refused.
`OnlyOwnersChangeOfMadeItems` and `ReceivedCanLeave` speak of what the exchange itself
commits; what production brings later to a delivered
row is not covered: where a source gave one ready piece and delivered the rest, the
replacement is added to a row that is ENTREGUE and stays so (`service.py` 5179), and
no handler selects it, against R5 of `REMANEJAMENTO_PLANO_LOGISTICA.md` (line 49).
`SuccessIsTheTarget`, `PointerIsWhole` and the last part of the updater's `TypeOK` hold
until a lock is deleted under its owner (finding `update_takeover`); after that
success has been seen reported on the confirmation of another version.
`PointerIsWhole` excepts the moment a version is pointed to that two newer ones
overtook meanwhile: the cleanup after them may have left half of its folder, and
an update that waited all that time only looks for the executable
(`versioned.py` 187); `AppComesBack` excepts crashes, launches nobody watches, and
a window that outlived an update and asks for a version the pointer has reached. In `FiscalSessions`, `crossed` marks records
that a cancellation or withdrawal wrote over a newer version, or whose item moved
under a session that had read it: there a line of an invoice is really lost.
`stale` marks records that gained or lost an item: their status is not recalculated
before their next mutation. A draft without number, confirmed under a new
`operation_id` after a lost answer, is really registered twice. These exceptions
are defects of the code, or gaps it accepts, and not conveniences of the models.

One more known divergence: a synchronisation that begins and ends while a write
is in flight opens the gate before the write is answered, against the words of
`read_gate.py` 33 and `FASE4_REPLICA_SQLITE_LEITURA_EXPEDICAO.md` 42;
`AnsweredWritesAreShown` speaks of answered writes and holds.

### Findings

1. **`cancelled`**: `_reborn_parent_when_children_converge` never looks at the
   mother's cancellation; items of live children end up where every command is
   refused.
2. **`whole`**: delivering the returned part of an item marks the item delivered
   and files the proposal, against "Entrega parcial mantem a proposta aberta".
3. **`replica_shared`**: `replace_all` of one application instance overwrites a
   newer file with its older snapshot; a page the other instance has already
   fetched then moves the cursor past what the snapshot lacks.
4. **`swaps_returned`**: the conservation of an exchange is verified before the
   commit, and the pre-commit hook then recomputes the Expedition rows; an item
   that had a piece returned to production loses the ready piece it received.
5. **`update_takeover`**: two updaters judge the lock of a crashed one stale; the
   second deletes the file the first has created since (`lock.py` 49), and both apply,
   against the purpose stated at `lock.py` 1-2.

## 5. Proofs

Checked by TLAPS for every value of the constants, under the modules' own named
assumptions (finite sets, natural bounds, non-empty drafts, proposals with at least
one item as `schemas.py` 272 asks):

| module | theorem | property | further assumption |
|---|---|---|---|
| `ReplicaSyncProofs` | `TypeCorrect` | `TypeOK` | |
| | `CommitsFollowSequence` | `CommitsInSeqOrder` | |
| | `ReplicaMissesNothing` | `NothingIsMissed` | one engine on the file |
| | `ReplicaMovesForward` | `RowsMoveForward` | one engine on the file |
| `ReplicaPassProofs` | `EngineImplementsPass` | `PassesAreComplete` | one engine on the file |
| `ReplicaReadGateProofs` | `GateTypeCorrect` | `TypeOK` | |
| | `WritesAreShown` | `AnsweredWritesAreShown` | |
| | `GateIsNotForgotten` | `ReopeningIsOnItsWay` | |
| `RemanagementProofs` | `AppliedAtMostOnce` | `AppliedOnce` | |
| | `ExchangesKeepTypes` | `TypeOK` | |
| | `PiecesNest` | `PieceInv`, the inductive invariant | |
| | `EveryLedgerCloses` | `LedgerCloses` | |
| | `PiecesAreDeliveredOnce` | `DeliveredOnce` | |
| | `ReceivedPiecesCanLeave` | `ReceivedCanLeave` | |
| | `ExchangesChangeOwnersOnly` | `OnlyOwnersChangeOfMadeItems` | |
| | `HonestPlansAreConfirmed` | `HonestPlansBalance` | |
| `VersionedUpdateProofs` | `UpdateTypeCorrect` | `TypeOK` | |
| | `OneAtATime` | without a crash no two updaters apply at once | |
| | `LauncherOpensThePointer` | until `raced`, the launcher never falls back | |
| | `ConfirmedIsTheTarget` | `SuccessIsTheTarget` | |
| | `WorkingIsLeft` | `RestsOnTested` | |
| | `PointerStaysWhole` | `PointerIsWhole` | |
| `FiscalSessionsProofs` | `DocumentsRegisteredOnce` | `RegisteredOnce` | |
| | `OperationsRegisteredOnce` | `RepeatedOnce` | |
| | `FiscalTypeCorrect` | `TypeOK` | |
| | `NumbersAreUnique` | `NumberedOnce` | |
| | `BilledIsTheInvoices` | `BilledIsInvoiced` | |
| | `StatusFollowsItems` | `StatusIsOfItems` | |
| `ProposalFlowProofs` | `FlowInvHolds` | `FlowInv`, the inductive invariant | |
| | `FlowTypeCorrect` | `TypeOK` | |
| | `RowsStayCurrent` | `RowsCurrent` | |
| | `QuantitiesStayNested` | `QuantitiesNest` | |
| | `LoadsConservePieces` | `LoadsConserve` | |
| | `GalvanizedIsHome` | `GalvanizedMeansHome` | |
| | `NothingIsOrphaned` | `NothingOrphaned` | |
| | `FinishedIsDelivered` | `FinishedMeansDelivered` | |
| | `LedgerStaysClosed` | `LedgerCloses` | |
| | `CancelledStays` | `CancelledStaysPut` | |
| | `HistoryKept` | `HistoryIsKept` | |

That one engine is needed is what `replica_shared` shows.

**Replica.** The invariants build on each other.

* `TypeInv` is `TypeOK` with what it needs to be inductive: a complete snapshot or
  page has no row left unread, a non-empty log has a greatest number (so `Head`
  is a number), and so has every open transaction.
* `SequenceInv`: only one session holds the lock; its numbers are above the log and
  at most the counter. From it a commit only adds at the top, which is
  `CommitsInSeqOrder`.
* `FollowInv`: wherever a version is held (the snapshot being read, the page being
  read, the file), either it is the database's or the log has an event of the row
  above the point the holder will claim (the head read before the snapshot, the
  end of the page, the cursor). A commit adds such an event for everything it
  changes because its numbers are above the head. `NothingIsMissed` is the part
  about the file; it is not inductive alone, since it says nothing of the
  snapshot that is about to replace it.
* `OrderInv`: no row that was not deleted is held at a newer version than the
  database's, and what the engine holds was read after what the file holds. From
  it storing a snapshot or a page can only move a row forward.
* `ReachInv`, for the refinement: a snapshot's head is not below the cursor, and the
  last page of a pass ends at or above the head the pass began with. With it
  every step of the engine is a step of `ReplicaPass` or a stutter.

**Sums and folds.** The library states induction over finite sets with an operator
parameter, which no installed prover can instantiate. `SumTheorems` takes the way
round: the subsets of a finite set for which a claim fails, if there are any, have
one with no smaller one among them (strict inclusion is well-founded), and
that one is refuted. With it come that the recursive function behind a sum or a
fold exists, that the sum of a set is one member and the sum of the rest, and
that sums of naturals are natural, bound each summand and grow with them.

**Flow.** `FlowInv` is about `db` between two transactions: `TypeOK` and `RowsCurrent`;
`Pieces`, what holds of the columns of one item whoever owns it (its links with
loads nest, its Expedition row nests within what has arrived, its flags say what
its quantities do); and `Family`, what holds of mothers, children and their items
(a child is younger than its mother, a proposal not created yet is blank, no item
belongs to an inactive proposal without children, a finished proposal has
nothing left to deliver, a returned item is marked). It is inductive for whole
transactions. Each handler is a chain of operators, so each operator has a lemma
that says which columns it leaves alone and what it promises of the others; the
handlers' proofs put them together, and what the hook and the merge of families
do to rows is proved once. The two folds of the flow (children that converge,
rows absorbed by a split) go through `FoldStays`.

**Gate.** `GateInv` adds to the types that no generation is completed that was not
begun, that what was answered is committed, and that a pass begun at the current
generation aims at or above everything answered. A write that ends raises the
generation, so a pass begun before it can no longer open the gate. `ReopeningIsOnItsWay`
becomes inductive (`WayInv`) with one fact about the agent: while a worker is in
flight the state it reports is that of a synchronisation, so an old failure never
excuses a new one.

**Remanagement.** `AppliedOnce` follows from the look-up under the locks: a count of
zero or one is inductive, because only a confirmation that found none counts on.

`PieceInv` is about the pieces. Besides the types it says

* `LinksNest`: only what was sent comes back, and only from a load that is away;
* `Swapped`: what an item received equals what it handed out (obligations and
  fabricated pieces), what it gave equals what it was promised, and an item
  without galvanization or without a flow has had nothing its flow does not foresee;
* `Stocked`: delivered and taken away together stay within what Expedition has, and
  that within `Supply`, what production, galvanizer and exchanges have brought; no
  more is handed out to be produced than the item had to produce;
* `Piped`: no more is sent to galvanization than goes through it, and an item not
  produced itself has got back at least the fabricated pieces it received in excess;
* `Even`, only of items nothing of which was returned to production: what Expedition
  marks as taken away was given in exchanges;
* `Open`: no more is separated and taken away than the row has, of any item; and the
  row of an item never delivered whole is the derived one (this is the hook's);
* `Given` equals `Received` over all items.

`LedgerCloses` alone is not inductive: it says nothing of closed items, of
returned ones nor of how stages came about, and all of these take part in
exchanges. The parts need one another: a
source gives what `Stocked` says is there, a destination hands out what `Swapped`
and `Piped` say it still has in the works.

A confirmation is a fold of lines over the rows, planned by another fold. The
proof follows the folds line by line (`FoldStays`, and `LastOf` takes the lines in
the code's order): after the lines of L, every column of every item is the old
one plus the sums over its lines in L (`Tracked`, `LinesAreTracked`,
`WrittenIsTracked`), and what the planned swaps of a destination take together is
within its capacity (`FitSwaps`). From these sums `DestinationKeeps` and `SourceKeeps`
restore the parts for what gives and what receives, `HookKeepsItem` and
`HookOpensItem` carry them through the hook. Then

* `LedgerCloses`: by flow, the stages add up to the order (`StagesAddUp`);
* `DeliveredOnce`: what was delivered had arrived or was received beyond what was
  given (`DeliveredWasThere`), and given and received cancel out over all items;
* `ReceivedCanLeave`: every line leaves the row of its destination open (`LineOpens`)
  with the received pieces neither delivered nor taken away, and the hook leaves the
  row of a delivered item as it is and derives no less for another
  (`ConfirmedCanLeave`);
* `OnlyOwnersChangeOfMadeItems`: a verified exchange changes each stage by what was
  planned, each line counts once for its destination and once for its source, and
  on items without pieces returned the hook finds nothing to change
  (`NothingToReconcile`), which is what the run `swaps_returned` refutes of the others;
* `HonestPlansBalance`: `DestinationBalances` and `SourceBalances` compute each stage
  after the writing from the sums, for every flow.

The plan checks each line alone against what its source has ready, so a source named
by two lines could give more than it has, and one that was not produced itself
could be promised obligations the writing then counts differently. It is the
verification that refuses both: the proof takes from it, and only for sources,
that the ready pieces fall and the pieces to produce grow by what was planned.

`ExchangeInv`, for which the steps are proved, is `PieceInv` and that whatever a session
has asked for is a request (`Asked`).

**Updater.** `UpdateInv` has three parts. The types hold always, and with them that
until `raced` the lock is that of whoever holds it: a file is only created where there
is none, and a deletion that finds an updater holding is what sets `raced`. `Calm`:
without a crash no lock grows stale, so nobody gets to delete one (hence `OneAtATime`,
and `WorkingIsLeft` without mention of `raced`). `Alone`, until `raced`: the lock makes
one activation at a time the owner of the pointer; the pointer never names a folder
without executable; whatever is heard under a request was started under it after the
pointer named its target; and without a crash what asks, confirms or is come back to
works. `FolderInv` says what can lie in ruins at all: the cleanup spares the newest
two, so a folder deleted in part has two newer ones installed; and while an update
may be undone, the pointer still names the version it would come back to. Hence a
version becomes the pointer's whole unless it was overtaken. `raced` never goes back,
so each step either leaves these parts true or is excused for good.

**Fiscal.** `FiscalInv`: a batch that holds records has read their current
versions; the versions a person confirmed with are not newer than the records',
and older once the draft has been registered, because a commit counts the
version of every record of the draft on and no write that is not crossed takes
one back; two batches of one draft never hold its records together. So a second
batch fails its version check, or its duplicate check, before it may write. Each
action is shown to leave its own session good and to spare the others (`Spares`).
`BooksInv` adds the contents: the books of a record that was not crossed balance
(billed is the sum over its invoices, item by item, and the status is that of the
quantities); what a session has read is what is stored as long as the version is
the one it read, and whatever an action changes for others it gives a newer
version. So what `Flush` leaves out is what has not changed, and a writer whose
version is refused writes nothing.

`FiscalInv`, `BooksInv`, `FlowInv`, `GateInv`, `UpdateInv`, `ExchangeInv` and the parts of the
replica's invariant but `OrderInv` were checked with TLC as invariants before they were proved.

**Only model-checked:** liveness (`ChangesArrive`, `GateReopens`, `AppComesBack`,
`RequestsEnd`), because fairness and ENABLED are outside what the prover does. Every
other property of a passing run is a theorem above.

## 6. Not modelled

`PROJECT.json` gives every component its status and the reason. In short:
concurrent Expedition sessions are next in the plan; the engine of remanagement by
rows is switched off (`REMANAGEMENT_BY_ROWS_ENABLED`), and exchanges of split items
are left out; the flat layout of the updater is kept only for installations not
yet migrated; administrative correction rewrites any state into any valid one and
would void every property of the flow; imports, attachments, chat, screens and
installers are input and output around plain records, and `src/tools` holds
migration tools of the former SQLite system.

Running: `tlc -config MCProposalFlow_family.cfg MCProposalFlow` (and so on for the
other configurations); `tlapm` on `ReplicaSyncProofs.tla`, `ReplicaPassProofs.tla`,
`ReplicaReadGateProofs.tla`, `RemanagementProofs.tla`, `VersionedUpdateProofs.tla`,
`FiscalSessionsProofs.tla`, `SumTheorems.tla` and `ProposalFlowProofs.tla`.
