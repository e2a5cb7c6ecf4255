--------------------------- MODULE FiscalSessions ---------------------------
(***************************************************************************)
(* The fiscal records of proposals, under concurrent sessions: the batch   *)
(* motor that registers invoices (register_fiscal_batch), the cancellation *)
(* of an invoice item, the withdrawal of an invoice, and the pre-commit    *)
(* hook that moves a fiscal item when its proposal item changes proposal.  *)
(* Transactions are READ COMMITTED: the batch locks its records FOR UPDATE *)
(* one by one, the others read without locks; all write absolute values,   *)
(* and only of the columns whose value they changed since they read them.  *)
(*                                                                         *)
(* Left out: weights (they follow the quantities), the version of an item  *)
(* (the desktop sends none), the states of the proposal, reading and       *)
(* indicators. A draft is what a person fills in and may confirm again.    *)
(***************************************************************************)
EXTENDS Integers, Sequences, FiniteSets, FiniteSetsExt

CONSTANTS Records, Items, Home, Total, \* Home[i]: first record; Total[i]: pieces
          Sessions, Drafts, Order,     \* Order[d]: records of the draft, in its order
          Pieces,                      \* Pieces[d]: pieces of each item, 0 for the balance
          Number, Unnumbered,          \* Number[d]: invoice number typed in
          Seried,                      \* drafts whose invoices have a series
          Keeps,                       \* drafts confirmed again under the same operation_id
          MaxTries, MaxCancels, MaxWithdrawals, MaxMoves,
          None

ASSUME DraftAssumption ==
  /\ Home \in [Items -> Records] /\ Total \in [Items -> Nat \ {0}]
  /\ Order \in [Drafts -> Seq(Records)]
  /\ \A d \in Drafts : Order[d] # <<>> /\ \A j, k \in DOMAIN Order[d] : Order[d][j] = Order[d][k] => j = k
  /\ Pieces \in [Drafts -> Nat] /\ Unnumbered \subseteq Drafts
  /\ Seried \subseteq Drafts \ Unnumbered /\ Keeps \subseteq Drafts
  /\ None \notin Sessions \cup Drafts

VARIABLES
  record,     \* fiscal_records
  item,       \* fiscal_items
  links,      \* active fiscal_invoice_items
  registered, \* registered[d]: how often the invoices of draft d were committed
  lines,      \* lines[d][r]: quantities by item that draft d asks of record r
  session,    \* what a request has read and how far it is
  lock,       \* lock[r]: the session that holds record r FOR UPDATE
  tries, cancels, withdrawals, moves, \* counters of the bounds
  crossed,    \* records overwritten from values no longer current
  stale       \* records that gained or lost an item since their last mutation

vars == <<record, item, links, registered, lines, session, lock,
          tries, cancels, withdrawals, moves, crossed, stale>>
counters == <<tries, cancels, withdrawals, moves>>

RecordStates == {"FALTA_EMITIR_NOTA_FISCAL", "NOTA_FISCAL_PARCIAL", "NOTA_FISCAL_EMITIDA"}
Situations == {"AGUARDANDO_NF", "NF_PARCIAL", "NF_EMITIDA", "NF_RETIRADA_CLIENTE"}
ItemStates == {"PENDENTE", "PARCIAL", "FATURADO"}
RecordRow == [status : RecordStates, situation : Situations, version : Nat]
ItemRow == [record : Records, billed : Nat, status : ItemStates]

RecordsOf(d) == {Order[d][k] : k \in DOMAIN Order[d]}
ItemsOf(r) == {i \in Items : item[i].record = r}
AtLeastZero(n) == IF n > 0 THEN n ELSE 0

NoLines == <<>>
Idle == [pc |-> "idle", draft |-> None, version |-> <<>>, link |-> None,
         row |-> <<>>, of |-> <<>>, item |-> <<>>]

\* _get_fiscal_record: the record, then its items, as they are at the moment; an
\* item that the session holds already stays as it was read (identity map).
Loaded(s) == DOMAIN session[s].row
Load(s, r) ==
  LET old == session[s] IN
  [old EXCEPT !.row = [t \in DOMAIN old.row \cup {r} |-> IF t = r THEN record[r] ELSE old.row[t]],
              !.of = [t \in DOMAIN old.of \cup {r} |-> IF t = r THEN ItemsOf(r) ELSE old.of[t]],
              !.item = [i \in DOMAIN old.item \cup ItemsOf(r) |->
                          IF i \in DOMAIN old.item THEN old.item[i] ELSE item[i]]]

(***************************************************************************)
(* Status                                                                  *)
(***************************************************************************)
\* _recalculate_fiscal_item_status
ItemStatus(i, billed) ==
  CASE billed >= Total[i] -> "FATURADO" [] billed > 0 /\ billed < Total[i] -> "PARCIAL" [] OTHER -> "PENDENTE"

Bill(i, row, billed) == [row EXCEPT !.billed = billed, !.status = ItemStatus(i, billed)]

\* _recalculate_fiscal_record
RecordStatus(rows) ==
  CASE rows # <<>> /\ \A i \in DOMAIN rows : rows[i].status = "FATURADO" -> "NOTA_FISCAL_EMITIDA"
    [] \E i, j \in DOMAIN rows : rows[i].status # "FATURADO" /\ rows[j].status # "PENDENTE" -> "NOTA_FISCAL_PARCIAL"
    [] OTHER -> "FALTA_EMITIR_NOTA_FISCAL"

SituationOf(status) ==
  CASE status = "NOTA_FISCAL_EMITIDA" -> "NF_EMITIDA"
    [] status = "NOTA_FISCAL_PARCIAL" -> "NF_PARCIAL"
    [] OTHER -> "AGUARDANDO_NF"

\* The record with its status recalculated; _touch counts the version on.
Settled(row, status) == [status |-> status, situation |-> SituationOf(status), version |-> row.version + 1]

\* _assert_fiscal_record_invariants
Consistent(rows, status) ==
  LET pending == \E i \in DOMAIN rows : rows[i].billed < Total[i]
      emitted == \E i \in DOMAIN rows : rows[i].billed > 0 IN
  /\ \A i \in DOMAIN rows : /\ rows[i].billed <= Total[i]
                            /\ rows[i].status = "FATURADO" => rows[i].billed = Total[i]
  /\ rows # <<>> => status = CASE ~pending -> "NOTA_FISCAL_EMITIDA"
                               [] pending /\ emitted -> "NOTA_FISCAL_PARCIAL"
                               [] OTHER -> "FALTA_EMITIR_NOTA_FISCAL"

\* The UPDATE of a row read as seen and changed to new, over what the table has
\* by then: the columns that did not change are not written.
Flush(now, seen, new) == [c \in DOMAIN now |-> IF new[c] # seen[c] THEN new[c] ELSE now[c]]

(***************************************************************************)
(* A person fills in a draft and confirms it                               *)
(***************************************************************************)
\* FiscalItemSelectionDialog: the items still open, each with the balance shown;
\* other clients of the API may ask for fewer pieces.
Filled(d) ==
  [r \in RecordsOf(d) |->
    [i \in {j \in ItemsOf(r) : item[j].status # "FATURADO" /\ item[j].billed < Total[j]} |->
      LET balance == Total[i] - item[i].billed IN
      IF Pieces[d] \in 1 .. balance THEN Pieces[d] ELSE balance]]

\* api_proposal_storage.register_fiscal_batch, called by FiscalEmissionReviewDialog
\* as often as the person presses the button: the lines stay those filled in
\* first, the versions are read anew.
Confirm(s, d) ==
  /\ session[s].pc = "idle" /\ tries < MaxTries
  /\ session' = [session EXCEPT ![s] =
       [Idle EXCEPT !.pc = "find", !.draft = d, !.version = [r \in RecordsOf(d) |-> record[r].version]]]
  /\ lines' = IF lines[d] = NoLines THEN [lines EXCEPT ![d] = Filled(d)] ELSE lines
  /\ tries' = tries + 1
  /\ UNCHANGED <<record, item, links, registered, lock, cancels, withdrawals, moves, crossed, stale>>

(***************************************************************************)
(* register_fiscal_batch                                                   *)
(***************************************************************************)
\* The invoices of an operation_id seen before answer the request again.
Find(s) ==
  LET d == session[s].draft IN
  /\ session[s].pc = "find"
  /\ session' = IF d \in Keeps /\ registered[d] > 0 THEN [session EXCEPT ![s] = Idle]
                ELSE [session EXCEPT ![s].pc = "lock"]
  /\ UNCHANGED <<record, item, links, registered, lines, lock, counters, crossed, stale>>

NextRecord(s) == Order[session[s].draft][Cardinality(Loaded(s)) + 1]

AnyRecord(r) == TRUE
Free(r) == lock[r] = None

\* SELECT ... FOR UPDATE of the records in the order of the request.
Lock(s) ==
  /\ session[s].pc = "lock"
  /\ \E r \in Records :
       /\ r = NextRecord(s) /\ Free(r)
       /\ lock' = [lock EXCEPT ![r] = s]
       /\ session' = [session EXCEPT ![s] =
            [Load(s, r) EXCEPT !.pc = IF Loaded(s) \cup {r} = RecordsOf(session[s].draft) THEN "check" ELSE "lock"]]
  /\ UNCHANGED <<record, item, links, registered, lines, counters, crossed, stale>>

Unlocked(s) == [r \in Records |-> IF lock[r] = s THEN None ELSE lock[r]]

RollbackKeepsLocks(s) ==
  /\ session' = [session EXCEPT ![s] = Idle]
  /\ UNCHANGED <<record, item, links, registered, lines, lock, counters, crossed, stale>>

Rollback(s) ==
  /\ session' = [session EXCEPT ![s] = Idle] /\ lock' = Unlocked(s)
  /\ UNCHANGED <<record, item, links, registered, lines, counters, crossed, stale>>

\* The invoice numbers of a draft are those typed in, one for each record.
SameDocument(d, e) ==
  /\ {d, e} \cap Unnumbered = {} /\ Number[d] = Number[e]
  /\ d \in Seried <=> e \in Seried

OnlyOthers(d) == \E e \in Drafts \ {d} : SameDocument(d, e) /\ registered[e] > 0
Duplicated(d) == \E e \in Drafts : SameDocument(d, e) /\ registered[e] > 0

AnyVersion(s) == TRUE
VersionsHold(s) == \A r \in Loaded(s) : session[s].row[r].version = session[s].version[r]

\* _selected_fiscal_items: the lines of the draft, or all open items without lines.
Balance(s, i) == Total[i] - session[s].item[i].billed
OpenItems(s, r) == {i \in session[s].of[r] : session[s].item[i].status # "FATURADO"}
Selected(s, r) ==
  LET asked == lines[session[s].draft][r] IN
  IF asked = <<>> THEN [i \in OpenItems(s, r) |-> Balance(s, i)] ELSE asked

Selectable(s, r) ==
  /\ session[s].of[r] # {} => Selected(s, r) # <<>>
  /\ \A i \in DOMAIN Selected(s, r) :
       i \in OpenItems(s, r) /\ Selected(s, r)[i] \in 1 .. Balance(s, i)

\* All validations, on the records locked and on what is committed now. The items
\* of a record are ensured again, which finds them as the pre-commit hook left them.
Acceptable(s) ==
  /\ VersionsHold(s)
  /\ ~Duplicated(session[s].draft)
  /\ \A r \in Loaded(s) : session[s].row[r].status # "NOTA_FISCAL_EMITIDA" /\ Selectable(s, r)

Check(s) ==
  /\ session[s].pc = "check"
  /\ IF Acceptable(s)
     THEN /\ session' = [session EXCEPT ![s].pc = "write"]
          /\ UNCHANGED <<record, item, links, registered, lines, lock, counters, crossed, stale>>
     ELSE Rollback(s)

\* The items as the session bills them, and the status of a record with them: a
\* record without items is emitted by any invoice.
LinesOf(s, i) == {r \in Loaded(s) : i \in DOMAIN Selected(s, r)}
Billed(s, i) ==
  IF LinesOf(s, i) = {} THEN session[s].item[i]
  ELSE Bill(i, session[s].item[i],
            session[s].item[i].billed + MapThenSumSet(LAMBDA r : Selected(s, r)[i], LinesOf(s, i)))
RowsRead(s, r) == [i \in session[s].of[r] |-> session[s].item[i]]
RowsBilled(s, r) == [i \in session[s].of[r] |-> Billed(s, i)]
StatusBilled(s, r) ==
  IF session[s].of[r] = {} THEN "NOTA_FISCAL_EMITIDA" ELSE RecordStatus(RowsBilled(s, r))

\* Inserting the invoices meets the unique constraint on number and series;
\* NULL series are distinct to it.
NoConstraint(d) == FALSE
Refused(d) == d \in Seried /\ Duplicated(d)

Written(s) ==
  /\ ~Refused(session[s].draft)
  /\ \A r \in Loaded(s) : Consistent(RowsBilled(s, r), StatusBilled(s, r))

\* The records whose items are still those the session has read.
Complete(s) == {r \in Loaded(s) : session[s].of[r] = ItemsOf(r)}

Commit(s) ==
  LET d == session[s].draft
      my == session[s] IN
  /\ item' = [i \in Items |-> IF i \in DOMAIN my.item THEN Flush(item[i], my.item[i], Billed(s, i)) ELSE item[i]]
  /\ record' = [r \in Records |->
       IF r \in Loaded(s) THEN Flush(record[r], my.row[r], Settled(my.row[r], StatusBilled(s, r))) ELSE record[r]]
  /\ links' = links \cup UNION {{[draft |-> d, try |-> registered[d] + 1, item |-> i, quantity |-> Selected(s, r)[i]] :
                                   i \in DOMAIN Selected(s, r)} : r \in Loaded(s)}
  /\ registered' = [registered EXCEPT ![d] = @ + 1]
  /\ stale' = stale \ Complete(s)
  /\ session' = [session EXCEPT ![s] = Idle] /\ lock' = Unlocked(s)
  /\ UNCHANGED <<lines, counters, crossed>>

Write(s) ==
  /\ session[s].pc = "write"
  /\ IF Written(s) THEN Commit(s) ELSE Rollback(s)

\* PostgreSQL ends one of the transactions that wait for each other.
Waits(a, b) == session[a].pc = "lock" /\ lock[NextRecord(a)] = b
DeadlockEnds(s) ==
  /\ \E S \in SUBSET Sessions : s \in S /\ \A a \in S : \E b \in S : Waits(a, b)
  /\ Rollback(s)

(***************************************************************************)
(* cancel_fiscal_invoice_item and mark_fiscal_invoice_withdrawn            *)
(***************************************************************************)
\* Both read without a lock, with the version the person saw; what is older is
\* refused. The UPDATE waits for a batch that holds the record, and goes through.
ReadCancel(s, link) ==
  /\ session[s].pc = "idle" /\ link \in links /\ cancels < MaxCancels
  /\ session' = [session EXCEPT ![s] = [Load(s, item[link.item].record) EXCEPT !.pc = "cancel", !.link = link]]
  /\ cancels' = cancels + 1
  /\ UNCHANGED <<record, item, links, registered, lines, lock, tries, withdrawals, moves, crossed, stale>>

\* Written over a version that is no longer the one that was read.
Crossed(s, r) == IF record[r].version # session[s].row[r].version THEN crossed \cup {r} ELSE crossed

WriteCancel(s) ==
  LET my == session[s]
      i == my.link.item IN
  /\ my.pc = "cancel"
  /\ \E r \in Loaded(s) :
       LET new == Bill(i, my.item[i], AtLeastZero(my.item[i].billed - my.link.quantity))
           rows == [my.item EXCEPT ![i] = new] IN
       /\ Free(r)
       /\ item' = [item EXCEPT ![i] = Flush(@, my.item[i], new)]
       /\ record' = [record EXCEPT ![r] = Flush(@, my.row[r], Settled(my.row[r], RecordStatus(rows)))]
       /\ crossed' = Crossed(s, r)
       /\ stale' = stale \ Complete(s)
  /\ links' = links \ {my.link}
  /\ session' = [session EXCEPT ![s] = Idle]
  /\ UNCHANGED <<registered, lines, lock, counters>>

ReadWithdrawal(s, r) ==
  /\ session[s].pc = "idle" /\ withdrawals < MaxWithdrawals
  /\ record[r].status = "NOTA_FISCAL_EMITIDA"
  /\ session' = [session EXCEPT ![s] = [Load(s, r) EXCEPT !.pc = "withdraw"]]
  /\ withdrawals' = withdrawals + 1
  /\ UNCHANGED <<record, item, links, registered, lines, lock, tries, cancels, moves, crossed, stale>>

WriteWithdrawal(s) ==
  LET my == session[s] IN
  /\ my.pc = "withdraw"
  /\ \E r \in Loaded(s) :
       /\ Free(r)
       /\ record' = [record EXCEPT ![r] =
            Flush(@, my.row[r], [my.row[r] EXCEPT !.situation = "NF_RETIRADA_CLIENTE", !.version = @ + 1])]
       /\ crossed' = Crossed(s, r)
  /\ session' = [session EXCEPT ![s] = Idle]
  /\ UNCHANGED <<item, links, registered, lines, lock, counters, stale>>

(***************************************************************************)
(* _ensure_fiscal_items_for_record, in the pre-commit hook of production   *)
(***************************************************************************)
\* A proposal item goes from mother to child or back, and its fiscal item with
\* it; neither record is recalculated. The foreign key locks the new record only.
MoveItem(i, r) ==
  /\ item[i].record # r /\ Free(r) /\ moves < MaxMoves
  /\ item' = [item EXCEPT ![i].record = r]
  /\ moves' = moves + 1
  /\ stale' = stale \cup {item[i].record, r}
  /\ crossed' = IF item[i].record \in crossed \/ \E s \in Sessions : i \in DOMAIN session[s].item
                THEN crossed \cup {item[i].record, r} ELSE crossed
  /\ UNCHANGED <<record, links, registered, lines, session, lock, tries, cancels, withdrawals>>

(***************************************************************************)
(* Specification                                                           *)
(***************************************************************************)
Init ==
  /\ record = [r \in Records |-> [status |-> "FALTA_EMITIR_NOTA_FISCAL", situation |-> "AGUARDANDO_NF", version |-> 1]]
  /\ item = [i \in Items |-> [record |-> Home[i], billed |-> 0, status |-> "PENDENTE"]]
  /\ links = {} /\ registered = [d \in Drafts |-> 0] /\ lines = [d \in Drafts |-> NoLines]
  /\ session = [s \in Sessions |-> Idle] /\ lock = [r \in Records |-> None]
  /\ tries = 0 /\ cancels = 0 /\ withdrawals = 0 /\ moves = 0
  /\ crossed = {} /\ stale = {}

Step(s) == Find(s) \/ Lock(s) \/ Check(s) \/ Write(s) \/ WriteCancel(s) \/ WriteWithdrawal(s)
SessionStep(s) ==
  \/ \E d \in Drafts : Confirm(s, d)
  \/ \E link \in links : ReadCancel(s, link)
  \/ \E r \in Records : ReadWithdrawal(s, r)
  \/ Step(s) \/ DeadlockEnds(s)

Next ==
  \/ \E s \in Sessions : SessionStep(s)
  \/ \E i \in Items, r \in Records : MoveItem(i, r)

Spec == Init /\ [][Next]_vars

\* The server runs its requests and PostgreSQL resolves deadlocks; nobody is
\* obliged to send a request.
FairSpec == Spec /\ \A s \in Sessions : WF_vars(Step(s)) /\ WF_vars(DeadlockEnds(s))

(***************************************************************************)
(* Properties                                                              *)
(***************************************************************************)
\* The rows have their columns' values, and a record is locked exactly by the
\* session that has read it for its batch.
TypeOK ==
  /\ record \in [Records -> RecordRow] /\ item \in [Items -> ItemRow]
  /\ \A link \in links : link.quantity \in 1 .. Total[link.item]
  /\ registered \in [Drafts -> Nat]
  /\ crossed \subseteq Records /\ stale \subseteq Records
  /\ \A s \in Sessions, r \in Records :
       lock[r] = s <=> r \in Loaded(s) /\ session[s].pc \in {"lock", "check", "write"}

\* The balance of an item is what its active invoice lines leave of the order,
\* and it is never billed beyond it, whatever batches, cancellations and moves
\* interleave. Excepted are records that a cancellation or withdrawal, which read
\* without a lock, wrote over a newer version, or whose item moved while a
\* session had it read: there the code does lose a line.
BilledIsInvoiced ==
  \A i \in Items : item[i].record \notin crossed =>
    /\ item[i].billed = MapThenSumSet(LAMBDA link : link.quantity, {link \in links : link.item = i})
    /\ item[i].billed <= Total[i]

\* A draft with an invoice number is registered once, however often it is
\* confirmed after lost answers, by whichever sessions, with or without series.
RegisteredOnce == \A d \in Drafts \ Unnumbered : registered[d] <= 1

\* FASE7_OPERACOES_LOTE_TRANSACOES.md: a draft confirmed again under the same
\* operation_id is registered once, also without an invoice number, unless a
\* crossed write has taken a version back.
RepeatedOnce == \A d \in Keeps : RecordsOf(d) \cap crossed = {} => registered[d] <= 1

\* No number is given twice within a series, although batches of different
\* records that check for duplicates share no lock.
NumberedOnce ==
  \A d, e \in Seried : d # e /\ SameDocument(d, e) => registered[d] = 0 \/ registered[e] = 0

\* A record's status is that of its items from its last mutation until an item
\* moves in or out.
StatusIsOfItems ==
  \A r \in Records \ (crossed \cup stale) :
    LET rows == [i \in ItemsOf(r) |-> item[i]] IN
    /\ rows # <<>> => record[r].status = RecordStatus(rows)
    /\ \A i \in DOMAIN rows : rows[i].status = ItemStatus(i, rows[i].billed)

\* Every request comes to an end, committed, refused or ended by the deadlock
\* detector: the locks of one session never keep another waiting for good.
RequestsEnd == \A s \in Sessions : session[s].pc # "idle" ~> session[s].pc = "idle"
=============================================================================
