------------------------ MODULE FiscalSessionsProofs ------------------------
(***************************************************************************)
(* Theorems about FiscalSessions, by two inductive invariants. FiscalInv   *)
(* says what makes a draft be registered once: a batch that holds records  *)
(* has read their current versions; a version never goes back on a record  *)
(* that is not crossed; and two batches of one draft never hold its        *)
(* records together. BooksInv says what makes the balances right: the      *)
(* books of uncrossed records balance (Books), and what a session has read *)
(* of such a record is still what is stored as long as the version is the  *)
(* one it has read (Mine). Every action is shown to balance the books, to  *)
(* put right what its session knows, and to leave to every other session   *)
(* either what it can see of a record or a newer version (Leaves).         *)
(***************************************************************************)
EXTENDS FiscalSessions, SumTheorems, TLAPS

Fields == {"pc", "draft", "version", "link", "row", "of", "item"}
Columns == {"status", "situation", "version"}
Row(row) == DOMAIN row = Columns /\ row.version \in Nat

Batch(s) == session[s].pc \in {"find", "lock", "check", "write"}
Holding(s) == session[s].pc \in {"lock", "check", "write"}
Asked(s) == RecordsOf(session[s].draft)

\* The tables, and the two properties to be proved.
Tables ==
  /\ DOMAIN session = Sessions /\ lock \in [Records -> Sessions \cup {None}]
  /\ DOMAIN record = Records /\ \A r \in Records : Row(record[r])
  /\ registered \in [Drafts -> Nat]
  /\ RegisteredOnce /\ RepeatedOnce

\* What a session has read.
Reads(s) ==
  /\ DOMAIN session[s] = Fields
  /\ \A r \in Loaded(s) \cap Records : Row(session[s].row[r])
  /\ Batch(s) => /\ session[s].draft \in Drafts
                 /\ \A r \in Asked(s) : session[s].version[r] \in Nat
  /\ session[s].pc = "find" => Loaded(s) = {}

\* What it holds is what is stored.
Holds(s) ==
  /\ Holding(s) => \A r \in Loaded(s) : /\ r \in Records /\ lock[r] = s
                                        /\ session[s].row[r].version = record[r].version
  /\ session[s].pc \in {"check", "write"} => Loaded(s) = Asked(s)

\* A version asked for is not newer than the record's, and older once the draft
\* has been registered; a batch that may write is the first of its draft.
Fresh(s) ==
  /\ Batch(s) => \A r \in Asked(s) \ crossed : session[s].version[r] <= record[r].version
  /\ Holding(s) /\ session[s].draft \in Keeps /\ registered[session[s].draft] > 0
       => \A r \in Asked(s) \ crossed : session[s].version[r] < record[r].version
  /\ session[s].pc = "write" /\ session[s].draft \notin Unnumbered => registered[session[s].draft] = 0
  /\ session[s].pc = "write" /\ session[s].draft \in Keeps /\ Asked(s) \cap crossed = {}
       => registered[session[s].draft] = 0

Good(s) == Reads(s) /\ Holds(s) /\ Fresh(s)
FiscalInv == Tables /\ \A s \in Sessions : Good(s)

LEMMA DraftRecords ==
  ASSUME NEW d \in Drafts PROVE RecordsOf(d) \subseteq Records /\ RecordsOf(d) # {}
<1>1. Order[d] \in Seq(Records) /\ Order[d] # <<>>
  BY DraftAssumption
<1>2. \A k \in DOMAIN Order[d] : Order[d][k] \in Records
  BY <1>1
<1>3. 1 \in DOMAIN Order[d]
  BY <1>1
<1> QED
  BY <1>2, <1>3 DEF RecordsOf

\* What the step of another session, or a move, leaves of session t.
Spares(t) ==
  /\ session'[t] = session[t]
  /\ \A r \in Records : lock[r] = t => lock'[r] = t /\ record'[r].version = record[r].version
  /\ crossed \subseteq crossed'
  /\ \A r \in Records \ crossed' : record'[r].version \in Nat /\ record[r].version <= record'[r].version
  /\ \A d \in Drafts : \/ registered'[d] = registered[d]
                       \/ \A r \in RecordsOf(d) : /\ lock[r] # t
                                                  /\ r \notin crossed' => record[r].version < record'[r].version

LEMMA SparedIsGood ==
  ASSUME Tables, NEW t \in Sessions, Good(t), Spares(t) PROVE Good(t)'
<1>1. Loaded(t)' = Loaded(t) /\ session'[t] = session[t] /\ Asked(t)' = Asked(t)
  BY DEF Loaded, Spares, Asked, RecordsOf
<1>2. Reads(t)'
  BY <1>1 DEF Good, Reads, Batch
<1>3. Holds(t)'
  BY <1>1 DEF Good, Holds, Holding, Spares
<1>4. Batch(t) => session[t].draft \in Drafts /\ Asked(t) \subseteq Records /\ Asked(t) # {}
  BY DraftRecords DEF Good, Reads, Asked
<1>5. Batch(t) => \A r \in Asked(t) : session[t].version[r] \in Nat
  BY DEF Good, Reads
<1>6. \A r \in Records : record[r].version \in Nat
  BY DEF Tables, Row
<1>7. session[t].pc = "write" => registered'[session[t].draft] = registered[session[t].draft]
  <2> SUFFICES ASSUME session[t].pc = "write" PROVE registered'[session[t].draft] = registered[session[t].draft]
    OBVIOUS
  <2>1. PICK r \in Asked(t) : r \in Records /\ lock[r] = t
    BY <1>4 DEF Good, Holds, Holding, Batch
  <2> QED
    BY <2>1, <1>4 DEF Spares, Batch, Asked
<1>8. Batch(t) => \A r \in Asked(t) \ crossed' : session[t].version[r] <= record'[r].version
  BY <1>4, <1>5, <1>6 DEF Good, Fresh, Spares
<1>9. Holding(t) /\ session[t].draft \in Keeps /\ registered'[session[t].draft] > 0
        => \A r \in Asked(t) \ crossed' : session[t].version[r] < record'[r].version
  <2> SUFFICES ASSUME Holding(t), session[t].draft \in Keeps, registered'[session[t].draft] > 0,
                      NEW r \in Asked(t) \ crossed'
               PROVE  session[t].version[r] < record'[r].version
    OBVIOUS
  <2>1. Batch(t) /\ r \in Records /\ session[t].version[r] \in Nat /\ r \notin crossed
    BY <1>4, <1>5 DEF Batch, Holding, Spares
  <2>2. /\ record[r].version \in Nat /\ record'[r].version \in Nat
        /\ record[r].version <= record'[r].version /\ session[t].version[r] <= record[r].version
    BY <2>1, <1>6 DEF Spares, Good, Fresh
  <2>3. CASE registered'[session[t].draft] = registered[session[t].draft]
    <3>1. session[t].version[r] < record[r].version
      BY <2>1, <2>3 DEF Good, Fresh
    <3> QED
      BY <3>1, <2>1, <2>2
  <2>4. CASE registered'[session[t].draft] # registered[session[t].draft]
    <3>1. record[r].version < record'[r].version
      BY <2>4, <2>1, <1>4 DEF Spares, Asked
    <3> QED
      BY <3>1, <2>1, <2>2
  <2> QED
    BY <2>3, <2>4
<1>10. Fresh(t)'
  BY <1>1, <1>7, <1>8, <1>9 DEF Fresh, Batch, Holding, Good, Spares
<1> QED
  BY <1>2, <1>3, <1>10 DEF Good

LEMMA IdleIsGood ==
  ASSUME NEW s \in Sessions, session'[s] = Idle PROVE Good(s)'
<1>1. /\ session'[s].pc = "idle" /\ DOMAIN session'[s] = Fields
      /\ session'[s].row = <<>>
  BY DEF Idle, Fields
<1>2. DOMAIN session'[s].row = {}
  BY <1>1
<1> QED
  BY <1>1, <1>2 DEF Good, Reads, Holds, Fresh, Batch, Holding, Loaded

\* A step that changes no row and gives no lock away.
Quiet == UNCHANGED <<record, lock, registered, crossed>>

LEMMA QuietSpares ==
  ASSUME FiscalInv, Quiet, NEW s \in Sessions, NEW my, session' = [session EXCEPT ![s] = my]
  PROVE  Tables' /\ session'[s] = my /\ \A t \in Sessions \ {s} : Spares(t)
<1>1. Tables'
  BY DEF FiscalInv, Tables, Quiet, RegisteredOnce, RepeatedOnce, RecordsOf
<1>2. ASSUME NEW t \in Sessions \ {s} PROVE Spares(t)
  BY <1>2 DEF FiscalInv, Tables, Spares, Quiet, Row
<1> QED
  BY <1>1, <1>2 DEF FiscalInv, Tables

LEMMA RollbackIsGood ==
  ASSUME FiscalInv, NEW s \in Sessions, Rollback(s)
  PROVE  Tables' /\ Good(s)' /\ \A t \in Sessions \ {s} : Spares(t)
<1>1. Tables'
  BY DraftAssumption DEF FiscalInv, Tables, Rollback, Unlocked, RegisteredOnce, RepeatedOnce, RecordsOf
<1>2. Good(s)'
  BY IdleIsGood DEF FiscalInv, Tables, Rollback
<1>3. ASSUME NEW t \in Sessions \ {s} PROVE Spares(t)
  BY <1>3, DraftAssumption DEF FiscalInv, Tables, Spares, Rollback, Unlocked, Row
<1> QED
  BY <1>1, <1>2, <1>3

LEMMA ConfirmIsGood ==
  ASSUME FiscalInv, NEW s \in Sessions, NEW d \in Drafts, Confirm(s, d)
  PROVE  Tables' /\ Good(s)' /\ \A t \in Sessions \ {s} : Spares(t)
<1> DEFINE my == [Idle EXCEPT !.pc = "find", !.draft = d, !.version = [r \in RecordsOf(d) |-> record[r].version]]
<1>1. Quiet /\ session' = [session EXCEPT ![s] = my]
  BY DEF Confirm, Quiet
<1>2. Tables' /\ session'[s] = my /\ \A t \in Sessions \ {s} : Spares(t)
  BY <1>1, QuietSpares
<1>3. /\ my.pc = "find" /\ my.draft = d /\ my.row = <<>> /\ DOMAIN my = Fields
      /\ my.version = [r \in RecordsOf(d) |-> record[r].version]
  BY DEF Idle, Fields
<1>4. DOMAIN my.row = {}
  BY <1>3
<1>5. \A r \in RecordsOf(d) : my.version[r] \in Nat /\ my.version[r] = record[r].version
  BY <1>3, DraftRecords DEF FiscalInv, Tables, Row
<1> HIDE DEF my
<1>6. Loaded(s)' = {} /\ Asked(s)' = RecordsOf(d) /\ ~Holding(s)' /\ session'[s].pc = "find"
  BY <1>2, <1>3, <1>4 DEF Loaded, Asked, RecordsOf, Holding
<1>7. Reads(s)'
  BY <1>2, <1>3, <1>5, <1>6 DEF Reads, Batch
<1>8. Holds(s)'
  BY <1>6 DEF Holds
<1>9. Fresh(s)'
  BY <1>1, <1>2, <1>5, <1>6 DEF Fresh, Quiet
<1> QED
  BY <1>2, <1>7, <1>8, <1>9 DEF Good

LEMMA FindIsGood ==
  ASSUME FiscalInv, NEW s \in Sessions, Find(s)
  PROVE  Tables' /\ Good(s)' /\ \A t \in Sessions \ {s} : Spares(t)
<1>1. Quiet /\ session[s].pc = "find"
  BY DEF Find, Quiet
<1>2. CASE session' = [session EXCEPT ![s] = Idle]
  BY <1>1, <1>2, QuietSpares, IdleIsGood
<1>3. CASE ~(session[s].draft \in Keeps /\ registered[session[s].draft] > 0)
  <2> DEFINE my == [session[s] EXCEPT !.pc = "lock"]
  <2>1. session' = [session EXCEPT ![s] = my]
    BY <1>3 DEF Find, FiscalInv, Tables
  <2>2. Tables' /\ session'[s] = my /\ \A t \in Sessions \ {s} : Spares(t)
    BY <1>1, <2>1, QuietSpares
  <2>3. /\ my.pc = "lock" /\ my.draft = session[s].draft /\ my.row = session[s].row
        /\ DOMAIN my = Fields /\ my.version = session[s].version
    BY DEF FiscalInv, Good, Reads, Fields
  <2> HIDE DEF my
  <2>4. Good(s)
    BY DEF FiscalInv
  <2>5. Reads(s)' /\ Holds(s)'
    BY <1>1, <2>2, <2>3, <2>4 DEF Good, Reads, Holds, Batch, Holding, Loaded, Asked, RecordsOf, Quiet
  <2>6. Fresh(s)'
    BY <1>1, <1>3, <2>2, <2>3, <2>4 DEF Good, Fresh, Batch, Holding, Loaded, Asked, RecordsOf, Quiet
  <2> QED
    BY <2>2, <2>5, <2>6 DEF Good
<1> QED
  BY <1>2, <1>3 DEF Find

LEMMA LoadReads ==
  ASSUME NEW s \in Sessions, NEW r, DOMAIN session[s] = Fields
  PROVE  /\ DOMAIN Load(s, r) = Fields
         /\ Load(s, r).draft = session[s].draft /\ Load(s, r).version = session[s].version
         /\ Load(s, r).row = [t \in Loaded(s) \cup {r} |-> IF t = r THEN record[r] ELSE session[s].row[t]]
BY DEF Load, Loaded, Fields

LEMMA LoadedRows ==
  ASSUME FiscalInv, NEW s \in Sessions, NEW r
  PROVE  /\ DOMAIN Load(s, r) = Fields
         /\ \A t \in DOMAIN Load(s, r).row \cap Records : Row(Load(s, r).row[t])
<1>1. DOMAIN session[s] = Fields /\ \A t \in Loaded(s) \cap Records : Row(session[s].row[t])
  BY DEF FiscalInv, Good, Reads
<1>2. \A t \in Records : Row(record[t])
  BY DEF FiscalInv, Tables
<1> DEFINE row == Load(s, r).row
<1>3. row = [t \in Loaded(s) \cup {r} |-> IF t = r THEN record[r] ELSE session[s].row[t]]
  BY <1>1, LoadReads
<1> HIDE DEF row
<1>4. \A t \in DOMAIN row \cap Records : Row(row[t])
  BY <1>1, <1>2, <1>3
<1> QED
  BY <1>1, <1>4, LoadReads DEF row

\* Reading a record for a cancellation or a withdrawal.
LEMMA ReadIsGood ==
  ASSUME FiscalInv, NEW s \in Sessions, NEW my, session' = [session EXCEPT ![s] = my], Quiet,
         DOMAIN my = Fields, my.pc \in {"cancel", "withdraw"},
         \A t \in DOMAIN my.row \cap Records : Row(my.row[t])
  PROVE  Tables' /\ Good(s)' /\ \A t \in Sessions \ {s} : Spares(t)
<1>1. Tables' /\ session'[s] = my /\ \A t \in Sessions \ {s} : Spares(t)
  BY QuietSpares
<1>2. ~Batch(s)' /\ ~Holding(s)' /\ session'[s].pc \notin {"find", "lock", "check", "write"}
  BY <1>1 DEF Batch, Holding
<1>3. Reads(s)'
  BY <1>1, <1>2 DEF Reads, Loaded
<1>4. Holds(s)' /\ Fresh(s)'
  BY <1>2 DEF Holds, Fresh
<1> QED
  BY <1>1, <1>3, <1>4 DEF Good

LEMMA ReadCancelIsGood ==
  ASSUME FiscalInv, NEW s \in Sessions, NEW link \in links, ReadCancel(s, link)
  PROVE  Tables' /\ Good(s)' /\ \A t \in Sessions \ {s} : Spares(t)
<1> DEFINE seen == Load(s, item[link.item].record)
           my == [seen EXCEPT !.pc = "cancel", !.link = link]
<1>1. Quiet /\ session' = [session EXCEPT ![s] = my]
  BY DEF ReadCancel, Quiet
<1>2. DOMAIN seen = Fields /\ \A t \in DOMAIN seen.row \cap Records : Row(seen.row[t])
  BY LoadedRows
<1> HIDE DEF seen
<1>3. DOMAIN my = Fields /\ my.pc = "cancel" /\ my.row = seen.row
  BY <1>2 DEF Fields
<1> HIDE DEF my
<1> QED
  BY <1>1, <1>2, <1>3, ReadIsGood

LEMMA ReadWithdrawalIsGood ==
  ASSUME FiscalInv, NEW s \in Sessions, NEW r \in Records, ReadWithdrawal(s, r)
  PROVE  Tables' /\ Good(s)' /\ \A t \in Sessions \ {s} : Spares(t)
<1> DEFINE seen == Load(s, r)
           my == [seen EXCEPT !.pc = "withdraw"]
<1>1. Quiet /\ session' = [session EXCEPT ![s] = my]
  BY DEF ReadWithdrawal, Quiet
<1>2. DOMAIN seen = Fields /\ \A t \in DOMAIN seen.row \cap Records : Row(seen.row[t])
  BY LoadedRows
<1> HIDE DEF seen
<1>3. DOMAIN my = Fields /\ my.pc = "withdraw" /\ my.row = seen.row
  BY <1>2 DEF Fields
<1> HIDE DEF my
<1> QED
  BY <1>1, <1>2, <1>3, ReadIsGood

LEMMA LockIsGood ==
  ASSUME FiscalInv, NEW s \in Sessions, Lock(s)
  PROVE  Tables' /\ Good(s)' /\ \A t \in Sessions \ {s} : Spares(t)
<1>1. PICK r \in Records :
        /\ lock[r] = None /\ lock' = [lock EXCEPT ![r] = s]
        /\ session' = [session EXCEPT ![s] =
             [Load(s, r) EXCEPT !.pc = IF Loaded(s) \cup {r} = Asked(s) THEN "check" ELSE "lock"]]
  BY DEF Lock, Free, Asked
<1>2. session[s].pc = "lock" /\ UNCHANGED <<record, registered, crossed>>
  BY DEF Lock
<1> DEFINE my == [Load(s, r) EXCEPT !.pc = IF Loaded(s) \cup {r} = Asked(s) THEN "check" ELSE "lock"]
<1>3. /\ DOMAIN my = Fields /\ my.pc = (IF Loaded(s) \cup {r} = Asked(s) THEN "check" ELSE "lock")
      /\ my.draft = session[s].draft /\ my.version = session[s].version
      /\ my.row = [t \in Loaded(s) \cup {r} |-> IF t = r THEN record[r] ELSE session[s].row[t]]
  <2> DEFINE seen == Load(s, r)
  <2>1. /\ DOMAIN seen = Fields /\ seen.draft = session[s].draft /\ seen.version = session[s].version
        /\ seen.row = [t \in Loaded(s) \cup {r} |-> IF t = r THEN record[r] ELSE session[s].row[t]]
    BY LoadReads DEF FiscalInv, Good, Reads
  <2> HIDE DEF seen
  <2>2. my = [seen EXCEPT !.pc = IF Loaded(s) \cup {r} = Asked(s) THEN "check" ELSE "lock"]
    BY DEF seen
  <2> QED
    BY <2>1, <2>2 DEF Fields
<1> HIDE DEF my
<1>4. session' = [session EXCEPT ![s] = my] /\ session'[s] = my
  BY <1>1 DEF my, FiscalInv, Tables
<1>5. Good(s)
  BY DEF FiscalInv
<1>6. Loaded(s)' = Loaded(s) \cup {r} /\ Asked(s)' = Asked(s)
  BY <1>3, <1>4 DEF Loaded, Asked, RecordsOf
<1>7. Tables'
  BY <1>1, <1>2, <1>4 DEF FiscalInv, Tables, RegisteredOnce, RepeatedOnce, RecordsOf
<1>8. \A t \in Loaded(s) \cap Records : Row(session[s].row[t])
  BY <1>5 DEF Good, Reads
<1>9. session'[s].row[r] = record[r] /\ \A t \in Loaded(s) \ {r} : session'[s].row[t] = session[s].row[t]
  BY <1>3, <1>4
<1>10. Reads(s)'
  <2>1. \A t \in Loaded(s)' \cap Records : Row(session'[s].row[t])
    BY <1>6, <1>8, <1>9 DEF FiscalInv, Tables
  <2>2. session[s].draft \in Drafts /\ \A t \in Asked(s) : session[s].version[t] \in Nat
    BY <1>2, <1>5 DEF Good, Reads, Batch
  <2> QED
    BY <2>1, <2>2, <1>3, <1>4, <1>6 DEF Reads
<1>11. Holds(s)'
  <2>1. \A t \in Loaded(s) : t \in Records /\ lock[t] = s /\ session[s].row[t].version = record[t].version
    BY <1>2, <1>5 DEF Good, Holds, Holding
  <2>2. \A t \in Loaded(s)' : t \in Records /\ lock'[t] = s /\ session'[s].row[t].version = record[t].version
    BY <2>1, <1>1, <1>6, <1>9 DEF FiscalInv, Tables
  <2> QED
    BY <2>2, <1>2, <1>3, <1>4, <1>6 DEF Holds
<1>12. Fresh(s)'
  BY <1>2, <1>3, <1>4, <1>5, <1>6 DEF Good, Fresh, Batch, Holding
<1>13. ASSUME NEW t \in Sessions \ {s} PROVE Spares(t)
  BY <1>13, <1>1, <1>2, <1>4, DraftAssumption DEF FiscalInv, Tables, Spares, Row
<1> QED
  BY <1>7, <1>10, <1>11, <1>12, <1>13 DEF Good

LEMMA CheckIsGood ==
  ASSUME FiscalInv, NEW s \in Sessions, Check(s)
  PROVE  Tables' /\ Good(s)' /\ \A t \in Sessions \ {s} : Spares(t)
<1>1. CASE ~Acceptable(s)
  BY <1>1, RollbackIsGood DEF Check
<1>2. CASE Acceptable(s)
  <2> DEFINE d == session[s].draft
             my == [session[s] EXCEPT !.pc = "write"]
  <2>1. session[s].pc = "check" /\ Quiet /\ session' = [session EXCEPT ![s] = my]
    BY <1>2 DEF Check, Quiet, FiscalInv, Tables
  <2>2. Tables' /\ session'[s] = my /\ \A t \in Sessions \ {s} : Spares(t)
    BY <2>1, QuietSpares
  <2>3. /\ my.pc = "write" /\ my.draft = d /\ my.row = session[s].row
        /\ DOMAIN my = Fields /\ my.version = session[s].version
    BY DEF FiscalInv, Good, Reads, Fields
  <2> HIDE DEF my
  <2>4. Good(s) /\ d \in Drafts /\ registered[d] \in Nat /\ Holding(s)
    BY <2>1 DEF FiscalInv, Good, Reads, Batch, Tables, Holding
  <2>5. Loaded(s) = Asked(s) /\ Loaded(s)' = Loaded(s) /\ Asked(s)' = Asked(s)
    BY <2>1, <2>2, <2>3, <2>4 DEF Good, Holds, Loaded, Asked, RecordsOf
  <2>6. Reads(s)' /\ Holds(s)'
    BY <2>1, <2>2, <2>3, <2>4, <2>5 DEF Good, Reads, Holds, Batch, Holding, Quiet, Loaded
  <2>7. d \notin Unnumbered => registered[d] = 0
    BY <1>2, <2>4 DEF Acceptable, Duplicated, SameDocument
  <2>8. d \in Keeps /\ Asked(s) \cap crossed = {} => registered[d] = 0
    <3> SUFFICES ASSUME d \in Keeps, Asked(s) \cap crossed = {}, registered[d] > 0 PROVE FALSE
      BY <2>4
    <3>1. PICK r \in Asked(s) : r \in Records
      BY <2>4, DraftRecords DEF Asked
    <3>2. session[s].version[r] < record[r].version
      BY <2>4 DEF Good, Fresh
    <3>3. session[s].version[r] = record[r].version
      BY <1>2, <2>4, <2>5 DEF Acceptable, VersionsHold, Good, Holds
    <3> QED
      BY <3>1, <3>2, <3>3 DEF FiscalInv, Tables, Row
  <2>9. Fresh(s)'
    BY <2>1, <2>2, <2>3, <2>4, <2>5, <2>7, <2>8 DEF Good, Fresh, Batch, Holding, Quiet
  <2> QED
    BY <2>2, <2>6, <2>9 DEF Good
<1> QED
  BY <1>1, <1>2

\* The UPDATE of a row whose version is counted on from the one read.
LEMMA FlushCounts ==
  ASSUME NEW now, NEW seen, NEW new, Row(now), seen.version \in Nat, new.version = seen.version + 1
  PROVE  Row(Flush(now, seen, new)) /\ Flush(now, seen, new).version = seen.version + 1
<1> DEFINE row == Flush(now, seen, new)
<1>1. DOMAIN row = Columns /\ \A c \in Columns : row[c] = IF new[c] # seen[c] THEN new[c] ELSE now[c]
  BY DEF Flush, Row
<1>2. "version" \in Columns /\ new.version # seen.version
  BY DEF Columns
<1> QED
  BY <1>1, <1>2 DEF Row

LEMMA CommitIsGood ==
  ASSUME FiscalInv, NEW s \in Sessions, session[s].pc = "write", Commit(s)
  PROVE  Tables' /\ Good(s)' /\ \A t \in Sessions \ {s} : Spares(t)
<1> DEFINE d == session[s].draft
           my == session[s]
<1>1. /\ d \in Drafts /\ Loaded(s) = RecordsOf(d) /\ Loaded(s) \subseteq Records
      /\ \A r \in Loaded(s) : lock[r] = s /\ my.row[r].version = record[r].version /\ record[r].version \in Nat
      /\ d \notin Unnumbered => registered[d] = 0
      /\ d \in Keeps /\ RecordsOf(d) \cap crossed = {} => registered[d] = 0
  BY DEF FiscalInv, Tables, Row, Good, Reads, Holds, Fresh, Batch, Holding, Asked
<1>2. /\ session' = [session EXCEPT ![s] = Idle] /\ lock' = Unlocked(s) /\ crossed' = crossed
      /\ registered' = [registered EXCEPT ![d] = registered[d] + 1]
      /\ record' = [r \in Records |->
           IF r \in Loaded(s) THEN Flush(record[r], my.row[r], Settled(my.row[r], StatusBilled(s, r))) ELSE record[r]]
  BY DEF Commit
<1>3. ASSUME NEW r \in Loaded(s) PROVE Row(record'[r]) /\ record'[r].version = record[r].version + 1
  <2> DEFINE new == Settled(my.row[r], StatusBilled(s, r))
  <2>1. record'[r] = Flush(record[r], my.row[r], new)
    BY <1>1, <1>2
  <2>2. new.version = my.row[r].version + 1
    BY DEF Settled
  <2>3. Row(record[r])
    BY <1>1 DEF FiscalInv, Tables
  <2> HIDE DEF new
  <2> QED
    BY <1>1, <2>1, <2>2, <2>3, FlushCounts
<1>4. \A r \in Records \ Loaded(s) : record'[r] = record[r]
  BY <1>2
<1>5. registered' \in [Drafts -> Nat] /\ registered'[d] = registered[d] + 1
      /\ \A e \in Drafts \ {d} : registered'[e] = registered[e]
  BY <1>1, <1>2 DEF FiscalInv, Tables
<1>6. RegisteredOnce'
  BY <1>1, <1>5 DEF FiscalInv, Tables, RegisteredOnce
<1>7. RepeatedOnce'
  BY <1>1, <1>2, <1>5, DraftAssumption DEF FiscalInv, Tables, RepeatedOnce, RecordsOf
<1>8. DOMAIN session' = Sessions /\ lock' \in [Records -> Sessions \cup {None}] /\ session'[s] = Idle
      /\ DOMAIN record' = Records
  BY <1>2 DEF FiscalInv, Tables, Unlocked
<1>9. \A r \in Records : Row(record'[r])
  BY <1>3, <1>4 DEF FiscalInv, Tables
<1>10. Tables'
  BY <1>5, <1>6, <1>7, <1>8, <1>9 DEF Tables
<1>11. ASSUME NEW t \in Sessions \ {s} PROVE Spares(t)
  <2>1. session'[t] = session[t]
    BY <1>2, <1>11 DEF FiscalInv, Tables
  <2>2. \A r \in Records : lock[r] = t => lock'[r] = t /\ record'[r].version = record[r].version
    BY <1>1, <1>2, <1>4, <1>11 DEF Unlocked
  <2>3. \A r \in Records : /\ record'[r].version \in Nat /\ record[r].version <= record'[r].version
                           /\ r \in Loaded(s) => lock[r] # t /\ record[r].version < record'[r].version
    BY <1>1, <1>3, <1>4, <1>11 DEF FiscalInv, Tables, Row
  <2> QED
    BY <1>1, <1>2, <1>5, <2>1, <2>2, <2>3 DEF Spares
<1> QED
  BY <1>8, <1>10, <1>11, IdleIsGood

\* A cancellation or a withdrawal writes over what it read: it counts the version
\* on, or the record counts as crossed.
LEMMA OverwriteIsGood ==
  ASSUME FiscalInv, NEW s \in Sessions, NEW r \in Loaded(s), Free(r), NEW new,
         r \in Records => new.version = session[s].row[r].version + 1,
         record' = [record EXCEPT ![r] = Flush(record[r], session[s].row[r], new)],
         crossed' = Crossed(s, r), session' = [session EXCEPT ![s] = Idle], UNCHANGED <<registered, lock>>
  PROVE  Tables' /\ Good(s)' /\ \A t \in Sessions \ {s} : Spares(t)
<1>1. DOMAIN record' = Records /\ \A q \in Records \ {r} : record'[q] = record[q]
  BY DEF FiscalInv, Tables
<1>2. crossed \subseteq crossed'
  BY DEF Crossed
<1>3. ASSUME r \in Records
      PROVE  /\ Row(record'[r]) /\ record[r].version \in Nat
             /\ r \notin crossed' => record[r].version <= record'[r].version
  <2>1. Row(record[r]) /\ session[s].row[r].version \in Nat
    BY <1>3 DEF FiscalInv, Tables, Good, Reads, Row
  <2>2. record'[r] = Flush(record[r], session[s].row[r], new)
    BY <1>3 DEF FiscalInv, Tables
  <2>3. Row(record'[r]) /\ record'[r].version = session[s].row[r].version + 1
    BY <1>3, <2>1, <2>2, FlushCounts
  <2>4. r \notin crossed' => record[r].version = session[s].row[r].version
    BY DEF Crossed
  <2> QED
    BY <2>1, <2>3, <2>4 DEF Row
<1>4. \A q \in Records : /\ Row(record'[q]) /\ record[q].version \in Nat
                         /\ q \notin crossed' => record[q].version <= record'[q].version
  BY <1>1, <1>3 DEF FiscalInv, Tables, Row
<1>5. Tables'
  BY <1>1, <1>2, <1>4 DEF FiscalInv, Tables, RegisteredOnce, RepeatedOnce, RecordsOf
<1>6. Good(s)'
  BY IdleIsGood DEF FiscalInv, Tables
<1>7. ASSUME NEW t \in Sessions \ {s} PROVE Spares(t)
  <2>1. session'[t] = session[t]
    BY <1>7 DEF FiscalInv, Tables
  <2>2. \A q \in Records : lock[q] = t => lock'[q] = t /\ record'[q].version = record[q].version
    BY <1>1, <1>7, DraftAssumption DEF Free
  <2> QED
    BY <1>2, <1>4, <2>1, <2>2 DEF Spares, Row
<1> QED
  BY <1>5, <1>6, <1>7

LEMMA WriteCancelIsGood ==
  ASSUME FiscalInv, NEW s \in Sessions, WriteCancel(s)
  PROVE  Tables' /\ Good(s)' /\ \A t \in Sessions \ {s} : Spares(t)
<1>1. PICK r \in Loaded(s) :
        /\ Free(r) /\ crossed' = Crossed(s, r)
        /\ \E status : record' =
             [record EXCEPT ![r] = Flush(record[r], session[s].row[r], Settled(session[s].row[r], status))]
  BY DEF WriteCancel
<1>2. session' = [session EXCEPT ![s] = Idle] /\ UNCHANGED <<registered, lock>>
  BY DEF WriteCancel
<1>3. PICK status : record' =
        [record EXCEPT ![r] = Flush(record[r], session[s].row[r], Settled(session[s].row[r], status))]
  BY <1>1
<1> DEFINE new == Settled(session[s].row[r], status)
<1>4. new.version = session[s].row[r].version + 1
  BY DEF Settled
<1>5. record' = [record EXCEPT ![r] = Flush(record[r], session[s].row[r], new)]
  BY <1>3
<1> HIDE DEF new
<1> QED
  BY <1>1, <1>2, <1>4, <1>5, OverwriteIsGood

LEMMA WriteWithdrawalIsGood ==
  ASSUME FiscalInv, NEW s \in Sessions, WriteWithdrawal(s)
  PROVE  Tables' /\ Good(s)' /\ \A t \in Sessions \ {s} : Spares(t)
<1> DEFINE new(r) == [session[s].row[r] EXCEPT !.situation = "NF_RETIRADA_CLIENTE", !.version = @ + 1]
<1>1. PICK r \in Loaded(s) :
        /\ Free(r) /\ crossed' = Crossed(s, r)
        /\ record' = [record EXCEPT ![r] = Flush(record[r], session[s].row[r], new(r))]
  BY DEF WriteWithdrawal
<1>2. session' = [session EXCEPT ![s] = Idle] /\ UNCHANGED <<registered, lock>>
  BY DEF WriteWithdrawal
<1>3. r \in Records => new(r).version = session[s].row[r].version + 1
  BY DEF FiscalInv, Good, Reads, Row, Columns
<1> HIDE DEF new
<1> QED
  BY <1>1, <1>2, <1>3, OverwriteIsGood

LEMMA MoveItemSpares ==
  ASSUME FiscalInv, NEW i \in Items, NEW q \in Records, MoveItem(i, q)
  PROVE  Tables' /\ \A t \in Sessions : Spares(t)
<1>1. UNCHANGED <<record, registered, session, lock>> /\ crossed \subseteq crossed'
  BY DEF MoveItem
<1>2. Tables'
  BY <1>1 DEF FiscalInv, Tables, RegisteredOnce, RepeatedOnce, RecordsOf
<1> QED
  BY <1>1, <1>2 DEF FiscalInv, Tables, Spares, Row

LEMMA SessionStepIsGood ==
  ASSUME FiscalInv, NEW s \in Sessions, SessionStep(s)
  PROVE  Tables' /\ Good(s)' /\ \A t \in Sessions \ {s} : Spares(t)
<1>1. CASE \E d \in Drafts : Confirm(s, d)
  BY <1>1, ConfirmIsGood
<1>2. CASE \E link \in links : ReadCancel(s, link)
  BY <1>2, ReadCancelIsGood
<1>3. CASE \E r \in Records : ReadWithdrawal(s, r)
  BY <1>3, ReadWithdrawalIsGood
<1>4. CASE Find(s)
  BY <1>4, FindIsGood
<1>5. CASE Lock(s)
  BY <1>5, LockIsGood
<1>6. CASE Check(s)
  BY <1>6, CheckIsGood
<1>7. CASE Write(s)
  BY <1>7, CommitIsGood, RollbackIsGood DEF Write
<1>8. CASE WriteCancel(s)
  BY <1>8, WriteCancelIsGood
<1>9. CASE WriteWithdrawal(s)
  BY <1>9, WriteWithdrawalIsGood
<1>10. CASE DeadlockEnds(s)
  BY <1>10, RollbackIsGood DEF DeadlockEnds
<1> QED
  BY <1>1, <1>2, <1>3, <1>4, <1>5, <1>6, <1>7, <1>8, <1>9, <1>10 DEF SessionStep, Step

LEMMA FiscalInvInit == Init => FiscalInv
<1> SUFFICES ASSUME Init PROVE FiscalInv
  OBVIOUS
<1>1. Tables
  <2>1. registered = [d \in Drafts |-> 0]
    BY DEF Init
  <2>2. registered \in [Drafts -> Nat] /\ RegisteredOnce /\ RepeatedOnce
    BY <2>1, DraftAssumption DEF RegisteredOnce, RepeatedOnce
  <2>3. DOMAIN record = Records /\ \A r \in Records : Row(record[r])
    BY DEF Init, Row, Columns
  <2> QED
    BY <2>2, <2>3 DEF Init, Tables
<1>2. ASSUME NEW s \in Sessions PROVE Good(s)
  <2>1. /\ session[s].pc = "idle" /\ DOMAIN session[s] = Fields /\ session[s].row = <<>>
    BY DEF Init, Idle, Fields
  <2>2. Loaded(s) = {}
    BY <2>1 DEF Loaded
  <2> QED
    BY <2>1, <2>2 DEF Good, Reads, Holds, Fresh, Batch, Holding
<1> QED
  BY <1>1, <1>2 DEF FiscalInv

LEMMA FiscalInvStep == FiscalInv /\ [Next]_vars => FiscalInv'
<1> SUFFICES ASSUME FiscalInv, [Next]_vars PROVE FiscalInv'
  OBVIOUS
<1>1. ASSUME NEW s \in Sessions, SessionStep(s) PROVE FiscalInv'
  <2>1. Tables' /\ Good(s)' /\ \A t \in Sessions \ {s} : Spares(t)
    BY <1>1, SessionStepIsGood
  <2>2. \A t \in Sessions \ {s} : Good(t)'
    BY <2>1, SparedIsGood DEF FiscalInv
  <2> QED
    BY <2>1, <2>2 DEF FiscalInv
<1>2. ASSUME NEW i \in Items, NEW r \in Records, MoveItem(i, r) PROVE FiscalInv'
  <2>1. Tables' /\ \A t \in Sessions : Spares(t)
    BY <1>2, MoveItemSpares
  <2> QED
    BY <2>1, SparedIsGood DEF FiscalInv
<1>3. CASE UNCHANGED vars
  <2>1. Tables'
    BY <1>3 DEF vars, FiscalInv, Tables, RegisteredOnce, RepeatedOnce, RecordsOf
  <2>2. \A t \in Sessions : Spares(t)
    BY <1>3 DEF vars, FiscalInv, Tables, Spares, Row
  <2> QED
    BY <2>1, <2>2, SparedIsGood DEF FiscalInv
<1> QED
  BY <1>1, <1>2, <1>3 DEF Next

\* For any records, sessions and drafts, a draft whose invoices have a number is
\* registered at most once, however often and by however many it is confirmed.
THEOREM DocumentsRegisteredOnce == Spec => []RegisteredOnce
<1>1. FiscalInv => RegisteredOnce
  BY DEF FiscalInv, Tables
<1> QED
  BY <1>1, FiscalInvInit, FiscalInvStep, PTL DEF Spec

\* Under one operation_id a draft is registered at most once even without a
\* number, unless one of its records was written over.
THEOREM OperationsRegisteredOnce == Spec => []RepeatedOnce
<1>1. FiscalInv => RepeatedOnce
  BY DEF FiscalInv, Tables
<1> QED
  BY <1>1, FiscalInvInit, FiscalInvStep, PTL DEF Spec

(***************************************************************************)
(* An invoice number is given once within a series                         *)
(***************************************************************************)
LEMMA NumberStaysSingle ==
  ASSUME FiscalInv, NumberedOnce, NEW s \in Sessions, session[s].pc = "write", Written(s), Commit(s)
  PROVE  NumberedOnce'
<1> DEFINE d == session[s].draft
<1>1. d \in Drafts /\ registered' = [registered EXCEPT ![d] = registered[d] + 1]
  BY DEF FiscalInv, Good, Reads, Batch, Commit
<1>2. d \in Seried => \A e \in Drafts : SameDocument(d, e) => registered[e] = 0
  BY DEF Written, Refused, Duplicated, FiscalInv, Tables
<1>3. \A a, b \in Drafts : SameDocument(a, b) => SameDocument(b, a)
  BY DEF SameDocument
<1>4. Seried \subseteq Drafts
  BY DraftAssumption
<1>5. ASSUME NEW a \in Seried, NEW b \in Seried, a # b, SameDocument(a, b)
      PROVE  registered'[a] = 0 \/ registered'[b] = 0
  <2>1. registered[a] = 0 \/ registered[b] = 0
    BY <1>5 DEF NumberedOnce
  <2>2. \A e \in Drafts \ {d} : registered'[e] = registered[e]
    BY <1>1 DEF FiscalInv, Tables
  <2>3. CASE d \notin {a, b}
    BY <1>4, <2>1, <2>2, <2>3
  <2>4. CASE a = d
    BY <1>2, <1>4, <1>5, <2>2, <2>4
  <2>5. CASE b = d
    BY <1>2, <1>3, <1>4, <1>5, <2>2, <2>5
  <2> QED
    BY <2>3, <2>4, <2>5
<1> QED
  BY <1>5 DEF NumberedOnce, SameDocument

\* However many batches of different records check and insert at the same time,
\* no number of a series is given to two drafts.
THEOREM NumbersAreUnique == Spec => []NumberedOnce
<1>1. Init => NumberedOnce
  BY DraftAssumption DEF Init, NumberedOnce
<1>2. FiscalInv /\ NumberedOnce /\ [Next]_vars => NumberedOnce'
  <2> SUFFICES ASSUME FiscalInv, NumberedOnce, [Next]_vars PROVE NumberedOnce'
    OBVIOUS
  <2>1. CASE registered' = registered
    BY <2>1 DEF NumberedOnce, SameDocument
  <2>2. ASSUME NEW s \in Sessions, Write(s) PROVE NumberedOnce'
    BY <2>1, <2>2, NumberStaysSingle DEF Write, Rollback
  <2>3. ASSUME NEW s \in Sessions, SessionStep(s) PROVE NumberedOnce'
    <3>1. Write(s) \/ registered' = registered
      BY <2>3 DEF SessionStep, Step, Confirm, ReadCancel, ReadWithdrawal, Find, Lock, Check, Rollback,
                  WriteCancel, WriteWithdrawal, DeadlockEnds
    <3> QED
      BY <2>1, <2>2, <3>1
  <2> QED
    BY <2>1, <2>3 DEF Next, MoveItem, vars
<1> QED
  BY <1>1, <1>2, FiscalInvInit, FiscalInvStep, PTL DEF Spec

(***************************************************************************)
(* What invoice lines add up to                                            *)
(***************************************************************************)
Invoiced(S) == MapThenSumSet(LAMBDA link : link.quantity, S)

\* The sum is that of a function, of which SumTheorems speaks.
LEMMA InvoicedIsSum ==
  ASSUME NEW S, IsFiniteSet(S)
  PROVE  Invoiced(S) = SumFunctionOnSet([l \in S |-> l.quantity], S)
<1> DEFINE f == [l \in S |-> l.quantity]
           Body(g) == [t \in SUBSET S |-> IF t = {} THEN 0 ELSE Pick(t).quantity + g[t \ {Pick(t)}]]
           h == CHOOSE g : g = Body(g)
<1>1. Invoiced(S) = h[S]
  BY DEF Invoiced, MapThenSumSet, MapThenFoldSet, Pick
<1>2. \A g : g = Body(g) <=> IsSum(g, f, S)
  <2> SUFFICES ASSUME NEW g PROVE Body(g) = [t \in SUBSET S |-> IF t = {} THEN 0 ELSE f[Pick(t)] + g[t \ {Pick(t)}]]
    BY DEF IsSum
  <2>1. \A t \in SUBSET S : t # {} => f[Pick(t)] = Pick(t).quantity
    BY PickIsMember
  <2> HIDE DEF f
  <2> QED
    BY <2>1
<1>3. IsSum(h, f, S)
  <2>1. \E g : g = Body(g)
    BY <1>2, SumExists
  <2>2. h = Body(h)
    BY <2>1
  <2> HIDE DEF h, f, Body
  <2> QED
    BY <1>2, <2>2
<1>4. PICK k : IsSum(k, f, S) /\ SumFunctionOnSet(f, S) = k[S]
  BY SumIsRecursive
<1>5. h[S] = k[S]
  <2> HIDE DEF h, f
  <2> QED
    BY <1>3, <1>4, SumIsUnique
<1> QED
  BY <1>1, <1>4, <1>5

LEMMA InvoicedGrows ==
  ASSUME NEW S, IsFiniteSet(S), NEW x, x \notin S, x.quantity \in Int, \A y \in S : y.quantity \in Int
  PROVE  IsFiniteSet(S \cup {x}) /\ Invoiced(S \cup {x}) = x.quantity + Invoiced(S)
<1> DEFINE R == S \cup {x}
           f == [y \in R |-> y.quantity]
           g == [y \in S |-> y.quantity]
<1>1. IsFiniteSet(R)
  BY FS_AddElement
<1>2. R \ {x} = S /\ x \in R
  OBVIOUS
<1>3. Invoiced(R) = SumFunctionOnSet(f, R) /\ Invoiced(S) = SumFunctionOnSet(g, S)
  BY <1>1, InvoicedIsSum
<1>4. f[x] = x.quantity /\ (\A y \in R : f[y] \in Int) /\ \A y \in S : f[y] = g[y]
  OBVIOUS
<1> HIDE DEF R, f, g
<1>5. SumFunctionOnSet(f, R) = f[x] + SumFunctionOnSet(f, R \ {x})
  BY <1>1, <1>2, <1>4, SumOfOneAndRest
<1>6. SumFunctionOnSet(f, S) = SumFunctionOnSet(g, S)
  BY <1>4, SumCongruence
<1>7. Invoiced(R) = x.quantity + Invoiced(S)
  BY <1>2, <1>3, <1>4, <1>5, <1>6
<1> QED
  BY <1>1, <1>7 DEF R

\* Taking a line away takes its pieces away.
LEMMA InvoicedShrinks ==
  ASSUME NEW S, IsFiniteSet(S), NEW x \in S, \A y \in S : y.quantity \in Nat
  PROVE  /\ IsFiniteSet(S \ {x}) /\ Invoiced(S) \in Nat /\ Invoiced(S \ {x}) \in Nat
         /\ Invoiced(S) = x.quantity + Invoiced(S \ {x})
<1> DEFINE R == S \ {x}
<1>1. IsFiniteSet(R)
  BY FS_RemoveElement
<1>2. \A y \in R : y.quantity \in Int
  OBVIOUS
<1>3. x \notin R /\ R \cup {x} = S /\ x.quantity \in Nat
  OBVIOUS
<1>4. Invoiced(S) \in Nat /\ Invoiced(R) \in Nat
  <2>1. Invoiced(S) = SumFunctionOnSet([y \in S |-> y.quantity], S)
    BY InvoicedIsSum
  <2>2. Invoiced(R) = SumFunctionOnSet([y \in R |-> y.quantity], R)
    BY <1>1, InvoicedIsSum
  <2>3. (\A y \in S : [z \in S |-> z.quantity][y] \in Nat) /\ \A y \in R : [z \in R |-> z.quantity][y] \in Nat
    OBVIOUS
  <2> HIDE DEF R
  <2>4. SumFunctionOnSet([y \in S |-> y.quantity], S) \in Nat
    BY <2>3, SumOfNaturals
  <2>5. SumFunctionOnSet([y \in R |-> y.quantity], R) \in Nat
    BY <1>1, <2>3, SumOfNaturals
  <2> QED
    BY <2>1, <2>2, <2>4, <2>5
<1> HIDE DEF R
<1>5. Invoiced(R \cup {x}) = x.quantity + Invoiced(R)
  BY <1>1, <1>2, <1>3, InvoicedGrows
<1> QED
  BY <1>1, <1>3, <1>4, <1>5 DEF R

LEMMA InvoicedNothing == Invoiced({}) = 0
<1>1. Invoiced({}) = SumFunctionOnSet([l \in {} |-> l.quantity], {})
  BY InvoicedIsSum, FS_EmptySet
<1> QED
  BY <1>1, SumOfNothing

\* The pieces of item i that a session asks of the records S.
AskedOf(s, i, S) == MapThenSumSet(LAMBDA r : Selected(s, r)[i], S)

LEMMA AskedOfIsSum ==
  ASSUME NEW s, NEW i, NEW S, IsFiniteSet(S)
  PROVE  AskedOf(s, i, S) = SumFunctionOnSet([r \in S |-> Selected(s, r)[i]], S)
<1> DEFINE f == [r \in S |-> Selected(s, r)[i]]
           Body(g) == [t \in SUBSET S |-> IF t = {} THEN 0 ELSE Selected(s, Pick(t))[i] + g[t \ {Pick(t)}]]
           h == CHOOSE g : g = Body(g)
<1>1. AskedOf(s, i, S) = h[S]
  BY DEF AskedOf, MapThenSumSet, MapThenFoldSet, Pick
<1>2. \A g : g = Body(g) <=> IsSum(g, f, S)
  <2> SUFFICES ASSUME NEW g PROVE Body(g) = [t \in SUBSET S |-> IF t = {} THEN 0 ELSE f[Pick(t)] + g[t \ {Pick(t)}]]
    BY DEF IsSum
  <2>1. \A t \in SUBSET S : t # {} => f[Pick(t)] = Selected(s, Pick(t))[i]
    BY PickIsMember
  <2> HIDE DEF f
  <2> QED
    BY <2>1
<1>3. IsSum(h, f, S)
  <2>1. \E g : g = Body(g)
    BY <1>2, SumExists
  <2>2. h = Body(h)
    BY <2>1
  <2> HIDE DEF h, f, Body
  <2> QED
    BY <1>2, <2>2
<1>4. PICK k : IsSum(k, f, S) /\ SumFunctionOnSet(f, S) = k[S]
  BY SumIsRecursive
<1>5. h[S] = k[S]
  <2> HIDE DEF h, f
  <2> QED
    BY <1>3, <1>4, SumIsUnique
<1> QED
  BY <1>1, <1>4, <1>5

LEMMA AskedOfOne ==
  ASSUME NEW s, NEW i, NEW r, Selected(s, r)[i] \in Int
  PROVE  AskedOf(s, i, {r}) = Selected(s, r)[i]
<1> DEFINE f == [q \in {r} |-> Selected(s, q)[i]]
<1>1. IsFiniteSet({r}) /\ f[r] = Selected(s, r)[i] /\ {r} \ {r} = {}
  BY FS_Singleton
<1>2. AskedOf(s, i, {r}) = SumFunctionOnSet(f, {r})
  BY <1>1, AskedOfIsSum
<1>3. \A q \in {r} : f[q] \in Int
  BY <1>1
<1> HIDE DEF f
<1>4. SumFunctionOnSet(f, {r}) = f[r] + SumFunctionOnSet(f, {r} \ {r})
  BY <1>1, <1>3, SumOfOneAndRest
<1>5. SumFunctionOnSet(f, {r} \ {r}) = 0
  BY <1>1, SumOfNothing
<1>6. f[r] \in Int /\ f[r] + 0 = f[r]
  BY <1>3
<1> QED
  BY <1>1, <1>2, <1>4, <1>5, <1>6

(***************************************************************************)
(* The books balance                                                       *)
(***************************************************************************)
\* The active invoice lines of an item, and what a line is.
LinesFor(i) == {link \in links : link.item = i}
Line(link) ==
  /\ link.draft \in Drafts /\ link.item \in Items
  /\ link.quantity \in 1 .. Total[link.item] /\ link.try \in 1 .. registered[link.draft]

Columned ==
  /\ record \in [Records -> RecordRow] /\ item \in [Items -> ItemRow]
  /\ crossed \subseteq Records /\ stale \subseteq Records
  /\ DOMAIN lines = Drafts /\ \A link \in links : Line(link)

\* An item in a record that was not crossed has its lines' pieces billed, no more
\* than ordered, and the status that goes with them.
Accounted ==
  \A i \in Items : item[i].record \notin crossed =>
    /\ IsFiniteSet(LinesFor(i)) /\ item[i].billed = Invoiced(LinesFor(i))
    /\ item[i].billed <= Total[i] /\ item[i].status = ItemStatus(i, item[i].billed)

RowsOf(r) == [i \in ItemsOf(r) |-> item[i]]
Recalculated ==
  \A r \in Records \ (crossed \cup stale) : ItemsOf(r) # {} => record[r].status = RecordStatus(RowsOf(r))

Books == Columned /\ Accounted /\ Recalculated

\* What a session holds in memory.
Read(s) == DOMAIN session[s].item

Shape(s) ==
  /\ \A r \in Records : lock[r] = s => r \in Loaded(s) /\ Holding(s)
  /\ DOMAIN session[s].of = Loaded(s) /\ Loaded(s) \subseteq Records /\ Read(s) \subseteq Items
  /\ \A r \in Loaded(s) : session[s].row[r] \in RecordRow /\ session[s].of[r] \subseteq Read(s)
  /\ \A i \in Read(s) : session[s].item[i] \in ItemRow
  /\ session[s].pc \in {"idle", "find"} => Loaded(s) = {} /\ Read(s) = {}
  /\ session[s].pc = "withdraw" => \E r \in Records : Loaded(s) = {r}
  /\ session[s].pc = "cancel" =>
       /\ \E r \in Records : Loaded(s) = {r} /\ Read(s) = session[s].of[r]
       /\ session[s].link.item \in Read(s) /\ Line(session[s].link)
  /\ Batch(s) => lines[session[s].draft] # NoLines
  /\ session[s].pc = "write" => \A r \in Loaded(s) : Selectable(s, r)

\* Record r is stored as session s has read it; but for items that came or went,
\* which a batch that holds the record keeps from happening.
AsStored(s, r) ==
  /\ session[s].row[r] = record[r]
  /\ session[s].of[r] = ItemsOf(r) \/ (r \in stale /\ ~Holding(s))
  /\ \A i \in session[s].of[r] : item[i].record = r => session[s].item[i] = item[i]
  /\ session[s].pc = "cancel" /\ item[session[s].link.item].record = r => session[s].link \in links

\* As long as the version is the one it has read, nothing has changed.
Known(s) ==
  \A r \in Loaded(s) \ crossed :
    /\ session[s].row[r].version <= record[r].version
    /\ session[s].row[r].version = record[r].version => AsStored(s, r)

\* An item it has read belongs to the one record it was read with.
Followed(s) ==
  \A i \in Read(s) : item[i].record \notin crossed =>
    /\ item[i].record \in Loaded(s)
    /\ \A r \in Loaded(s) : i \in session[s].of[r] => r = item[i].record

Mine(s) == Shape(s) /\ Known(s) /\ Followed(s)
BooksInv == Books /\ \A s \in Sessions : Mine(s)

\* What the step of another session, or a move, leaves of what session t knows: of
\* each record everything it can see, or a newer version.
Untouched(t, r) ==
  /\ record'[r] = record[r]
  /\ ItemsOf(r)' = ItemsOf(r) \/ (r \in stale' /\ ~Holding(t))
  /\ \A i \in session[t].of[r] : item'[i].record = r => item'[i] = item[i]
  /\ r \in stale => r \in stale' \/ Holding(t)
  /\ session[t].pc = "cancel" /\ item'[session[t].link.item].record = r =>
       item[session[t].link.item].record = r /\ (session[t].link \in links => session[t].link \in links')

Leaves(t) ==
  /\ session'[t] = session[t] /\ crossed \subseteq crossed'
  /\ \A d \in Drafts : lines[d] # NoLines => lines'[d] = lines[d]
  /\ \A d \in Drafts : registered[d] <= registered'[d]
  /\ \A r \in Records : lock'[r] = t => lock[r] = t
  /\ \A i \in Read(t) : item'[i].record \in crossed' \/ item'[i].record = item[i].record
  /\ \A r \in Loaded(t) \ crossed' : Untouched(t, r) \/ record[r].version < record'[r].version

LEMMA LeftIsMine ==
  ASSUME FiscalInv, Columned, NEW t \in Sessions, Mine(t), Leaves(t), registered' \in [Drafts -> Nat],
         \A r \in Records : record'[r].version \in Nat
  PROVE  Mine(t)'
<1>1. /\ session'[t] = session[t] /\ Loaded(t)' = Loaded(t) /\ Read(t)' = Read(t)
      /\ (Holding(t)' <=> Holding(t)) /\ (Batch(t)' <=> Batch(t))
  BY DEF Leaves, Loaded, Read, Holding, Batch
<1>2. Shape(t)
  BY DEF Mine
<1>3. \A link : Line(link) => Line(link)'
  BY DEF Line, Leaves, FiscalInv, Tables
<1>4. Batch(t) => session[t].draft \in Drafts /\ lines'[session[t].draft] = lines[session[t].draft]
  BY <1>2 DEF Shape, Leaves, FiscalInv, Good, Reads
<1>5. ASSUME session[t].pc = "write", NEW r \in Loaded(t) PROVE Selectable(t, r)'
  <2>1. Selectable(t, r)
    BY <1>2, <1>5 DEF Shape
  <2>2. lines'[session[t].draft] = lines[session[t].draft]
    BY <1>4, <1>5 DEF Batch
  <2>3. OpenItems(t, r)' = OpenItems(t, r) /\ \A i : Balance(t, i)' = Balance(t, i)
    BY <1>1 DEF OpenItems, Balance
  <2>4. Selected(t, r)' = Selected(t, r)
    BY <1>1, <2>2, <2>3 DEF Selected
  <2> QED
    BY <1>1, <2>1, <2>3, <2>4 DEF Selectable
<1>6. Shape(t)'
  <2>1. \A r \in Records : lock'[r] = t => r \in Loaded(t)' /\ Holding(t)'
    BY <1>1, <1>2 DEF Shape, Leaves
  <2>2. Batch(t)' => lines'[session'[t].draft] # NoLines
    BY <1>1, <1>2, <1>4 DEF Shape
  <2>3. session'[t].pc = "cancel" => Line(session[t].link)'
    BY <1>1, <1>2, <1>3 DEF Shape
  <2> QED
    BY <1>1, <1>2, <1>5, <2>1, <2>2, <2>3 DEF Shape
<1>7. Known(t)'
  <2> SUFFICES ASSUME NEW r \in Loaded(t) \ crossed'
               PROVE  /\ session[t].row[r].version <= record'[r].version
                      /\ session[t].row[r].version = record'[r].version => AsStored(t, r)'
    BY <1>1 DEF Known
  <2>1. /\ r \in Loaded(t) \ crossed /\ session[t].row[r].version <= record[r].version
        /\ session[t].row[r].version = record[r].version => AsStored(t, r)
    BY DEF Mine, Known, Leaves
  <2>2. session[t].row[r].version \in Nat /\ record[r].version \in Nat /\ record'[r].version \in Nat
    BY <1>2 DEF Shape, RecordRow, Columned
  <2>3. CASE record[r].version < record'[r].version
    BY <2>1, <2>2, <2>3
  <2>4. CASE Untouched(t, r)
    <3>1. record'[r].version = record[r].version
      BY <2>4 DEF Untouched
    <3>2. AsStored(t, r) => AsStored(t, r)'
      <4> SUFFICES ASSUME AsStored(t, r) PROVE AsStored(t, r)'
        OBVIOUS
      <4>1. session'[t].of[r] = ItemsOf(r)' \/ (r \in stale' /\ ~Holding(t)')
        BY <1>1, <2>4 DEF AsStored, Untouched
      <4> QED
        BY <1>1, <2>4, <4>1 DEF AsStored, Untouched
    <3> QED
      BY <2>1, <3>1, <3>2
  <2> QED
    BY <2>3, <2>4 DEF Leaves
<1>8. Followed(t)'
  BY <1>1 DEF Mine, Followed, Leaves
<1> QED
  BY <1>6, <1>7, <1>8 DEF Mine

\* A step that changes neither tables nor their marks.
Silent == UNCHANGED <<record, item, links, registered, crossed, stale>>

LEMMA BooksStay ==
  ASSUME Books, Silent, DOMAIN lines' = Drafts
  PROVE  Books'
<1>1. /\ (\A i : LinesFor(i)' = LinesFor(i)) /\ (\A r : ItemsOf(r)' = ItemsOf(r) /\ RowsOf(r)' = RowsOf(r))
      /\ \A link : Line(link) => Line(link)'
  BY DEF Silent, LinesFor, ItemsOf, RowsOf, Line
<1>2. Columned'
  BY <1>1 DEF Books, Columned, Silent
<1>3. Accounted'
  BY <1>1 DEF Books, Accounted, Silent
<1>4. Recalculated'
  BY <1>1 DEF Books, Recalculated, Silent
<1> QED
  BY <1>2, <1>3, <1>4 DEF Books

LEMMA SilentLeaves ==
  ASSUME FiscalInv, Silent, NEW t \in Sessions, session'[t] = session[t],
         \A d \in Drafts : lines[d] # NoLines => lines'[d] = lines[d],
         \A r \in Records : lock'[r] = t => lock[r] = t
  PROVE  Leaves(t)
<1>1. \A r : ItemsOf(r)' = ItemsOf(r)
  BY DEF Silent, ItemsOf
<1>2. \A r \in Loaded(t) : Untouched(t, r)
  BY <1>1 DEF Untouched, Silent
<1> QED
  BY <1>2 DEF Leaves, Silent, FiscalInv, Tables

LEMMA IdleIsMine ==
  ASSUME NEW s \in Sessions, session'[s] = Idle, \A r \in Records : lock'[r] # s
  PROVE  Mine(s)'
<1>1. /\ session'[s].pc = "idle" /\ session'[s].row = <<>> /\ session'[s].of = <<>> /\ session'[s].item = <<>>
  BY DEF Idle
<1>2. Loaded(s)' = {} /\ DOMAIN session'[s].of = {} /\ Read(s)' = {}
  BY <1>1 DEF Loaded, Read
<1>3. Shape(s)'
  BY <1>1, <1>2 DEF Shape, Batch
<1> QED
  BY <1>2, <1>3 DEF Mine, Known, Followed

LEMMA RollbackLeaves ==
  ASSUME FiscalInv, Books, NEW s \in Sessions, Rollback(s)
  PROVE  Books' /\ Mine(s)' /\ \A t \in Sessions \ {s} : Leaves(t)
<1>1. Silent /\ lines' = lines /\ session' = [session EXCEPT ![s] = Idle] /\ lock' = Unlocked(s)
  BY DEF Rollback, Silent, counters
<1>2. \A r \in Records : lock'[r] # s /\ \A t \in Sessions \ {s} : lock'[r] = t => lock[r] = t
  BY <1>1, DraftAssumption DEF Unlocked
<1>3. session'[s] = Idle /\ \A t \in Sessions \ {s} : session'[t] = session[t]
  BY <1>1 DEF FiscalInv, Tables
<1>4. Books'
  BY <1>1, BooksStay DEF Books, Columned
<1>5. Mine(s)'
  BY <1>2, <1>3, IdleIsMine
<1>6. ASSUME NEW t \in Sessions \ {s} PROVE Leaves(t)
  BY <1>1, <1>2, <1>3, SilentLeaves
<1> QED
  BY <1>4, <1>5, <1>6

\* A silent step of s that only reads: its own view is what remains to be shown.
LEMMA ReadingLeaves ==
  ASSUME FiscalInv, Books, Silent, NEW s \in Sessions, NEW my, session' = [session EXCEPT ![s] = my],
         DOMAIN lines' = Drafts, \A d \in Drafts : lines[d] # NoLines => lines'[d] = lines[d],
         \A r \in Records : lock'[r] \in {lock[r], s}
  PROVE  Books' /\ session'[s] = my /\ \A t \in Sessions \ {s} : Leaves(t)
<1>1. session'[s] = my /\ \A t \in Sessions \ {s} : session'[t] = session[t]
  BY DEF FiscalInv, Tables
<1>2. Books'
  BY BooksStay
<1>3. ASSUME NEW t \in Sessions \ {s} PROVE Leaves(t)
  BY <1>1, SilentLeaves
<1> QED
  BY <1>1, <1>2, <1>3

LEMMA ConfirmLeaves ==
  ASSUME FiscalInv, BooksInv, NEW s \in Sessions, NEW d \in Drafts, Confirm(s, d)
  PROVE  Books' /\ Mine(s)' /\ \A t \in Sessions \ {s} : Leaves(t)
<1> DEFINE my == [Idle EXCEPT !.pc = "find", !.draft = d, !.version = [r \in RecordsOf(d) |-> record[r].version]]
<1>1. Silent /\ session' = [session EXCEPT ![s] = my] /\ lock' = lock /\ session[s].pc = "idle"
  BY DEF Confirm, Silent
<1>2. Filled(d) # NoLines
  <2>1. DOMAIN Filled(d) = RecordsOf(d) /\ RecordsOf(d) # {}
    BY DraftRecords DEF Filled
  <2>2. DOMAIN NoLines = {}
    BY DEF NoLines
  <2> QED
    BY <2>1, <2>2
<1>3. /\ DOMAIN lines' = Drafts /\ lines'[d] # NoLines
      /\ \A e \in Drafts : lines[e] # NoLines => lines'[e] = lines[e]
  BY <1>2 DEF Confirm, BooksInv, Books, Columned
<1>4. Books' /\ session'[s] = my /\ \A t \in Sessions \ {s} : Leaves(t)
  BY <1>1, <1>3, ReadingLeaves DEF BooksInv
<1>5. my.pc = "find" /\ my.draft = d /\ my.row = <<>> /\ my.of = <<>> /\ my.item = <<>>
  BY DEF Idle
<1> HIDE DEF my
<1>6. Loaded(s)' = {} /\ DOMAIN session'[s].of = {} /\ Read(s)' = {}
  BY <1>4, <1>5 DEF Loaded, Read
<1>7. \A r \in Records : lock'[r] # s
  BY <1>1 DEF BooksInv, Mine, Shape, Holding
<1>8. Shape(s)'
  BY <1>3, <1>4, <1>5, <1>6, <1>7 DEF Shape
<1> QED
  BY <1>4, <1>6, <1>8 DEF Mine, Known, Followed

LEMMA FindLeaves ==
  ASSUME FiscalInv, BooksInv, NEW s \in Sessions, Find(s)
  PROVE  Books' /\ Mine(s)' /\ \A t \in Sessions \ {s} : Leaves(t)
<1>1. Silent /\ UNCHANGED <<lines, lock>> /\ session[s].pc = "find"
  BY DEF Find, Silent
<1>2. Books /\ DOMAIN lines' = Drafts /\ \A r \in Records : lock'[r] = lock[r] /\ lock[r] # s
  BY <1>1 DEF BooksInv, Books, Columned, Mine, Shape, Holding
<1>3. CASE session' = [session EXCEPT ![s] = Idle]
  <2>1. Books' /\ session'[s] = Idle /\ \A t \in Sessions \ {s} : Leaves(t)
    BY <1>1, <1>2, <1>3, ReadingLeaves
  <2> QED
    BY <1>2, <2>1, IdleIsMine
<1>4. CASE session' = [session EXCEPT ![s].pc = "lock"]
  <2> DEFINE my == [session[s] EXCEPT !.pc = "lock"]
  <2>1. session' = [session EXCEPT ![s] = my]
    BY <1>4 DEF FiscalInv, Tables
  <2>2. Books' /\ session'[s] = my /\ \A t \in Sessions \ {s} : Leaves(t)
    BY <1>1, <1>2, <2>1, ReadingLeaves
  <2>3. /\ my.pc = "lock" /\ my.draft = session[s].draft /\ my.row = session[s].row
        /\ my.of = session[s].of /\ my.item = session[s].item
    BY DEF FiscalInv, Good, Reads, Fields
  <2> HIDE DEF my
  <2>4. Loaded(s) = {} /\ Loaded(s)' = {} /\ Read(s)' = {} /\ DOMAIN session'[s].of = {}
    BY <1>1, <2>2, <2>3 DEF BooksInv, Mine, Shape, Loaded, Read
  <2>5. lines'[session'[s].draft] # NoLines
    BY <1>1, <2>2, <2>3 DEF BooksInv, Mine, Shape, Batch
  <2>6. Shape(s)'
    BY <1>2, <2>2, <2>3, <2>4, <2>5 DEF Shape
  <2> QED
    BY <2>2, <2>4, <2>6 DEF Mine, Known, Followed
<1> QED
  BY <1>3, <1>4 DEF Find

\* What _get_fiscal_record adds to what a session has read.
LEMMA LoadTakes ==
  ASSUME NEW s \in Sessions, NEW r, DOMAIN session[s] = Fields, DOMAIN session[s].of = Loaded(s)
  PROVE  /\ Load(s, r).row = [t \in Loaded(s) \cup {r} |-> IF t = r THEN record[r] ELSE session[s].row[t]]
         /\ Load(s, r).of = [t \in Loaded(s) \cup {r} |-> IF t = r THEN ItemsOf(r) ELSE session[s].of[t]]
         /\ Load(s, r).item = [i \in Read(s) \cup ItemsOf(r) |-> IF i \in Read(s) THEN session[s].item[i] ELSE item[i]]
         /\ DOMAIN Load(s, r) = Fields /\ Load(s, r).draft = session[s].draft
BY DEF Load, Loaded, Read, Fields

LEMMA FirstReadIsMine ==
  ASSUME FiscalInv, BooksInv, Silent, NEW s \in Sessions, NEW r \in Records, NEW my, session'[s] = my,
         my.pc \in {"cancel", "withdraw"}, \A q \in Records : lock'[q] # s,
         my.row = [q \in {r} |-> record[r]], my.of = [q \in {r} |-> ItemsOf(r)],
         my.item = [i \in ItemsOf(r) |-> item[i]],
         my.pc = "cancel" => my.link \in links /\ my.link.item \in ItemsOf(r)
  PROVE  Mine(s)'
<1>1. Loaded(s)' = {r} /\ Read(s)' = ItemsOf(r) /\ DOMAIN session'[s].of = {r}
  BY DEF Loaded, Read
<1>2. /\ session'[s].row[r] = record[r] /\ session'[s].of[r] = ItemsOf(r)
      /\ \A i \in ItemsOf(r) : session'[s].item[i] = item[i]
  OBVIOUS
<1>3. /\ ItemsOf(r) \subseteq Items /\ record[r] \in RecordRow /\ \A i \in ItemsOf(r) : item[i] \in ItemRow
      /\ ItemsOf(r)' = ItemsOf(r)
  BY DEF ItemsOf, BooksInv, Books, Columned, Silent
<1>4. my.pc = "cancel" => Line(my.link)'
  BY DEF BooksInv, Books, Columned, Line, Silent
<1>5. ~Batch(s)' /\ ~Holding(s)' /\ session'[s].pc \in {"cancel", "withdraw"}
  BY DEF Batch, Holding
<1>6. Shape(s)'
  BY <1>1, <1>2, <1>3, <1>4, <1>5 DEF Shape
<1>7. AsStored(s, r)'
  BY <1>2, <1>3 DEF AsStored, Silent
<1>8. record[r].version \in Nat /\ record' = record
  BY <1>3 DEF RecordRow, Silent
<1>9. Known(s)'
  BY <1>1, <1>2, <1>7, <1>8 DEF Known
<1>10. Followed(s)'
  BY <1>1, <1>2 DEF Followed, ItemsOf, Silent
<1> QED
  BY <1>6, <1>9, <1>10 DEF Mine

LEMMA IdleReads ==
  ASSUME FiscalInv, BooksInv, NEW s \in Sessions, session[s].pc = "idle", NEW r \in Records
  PROVE  /\ Load(s, r).row = [q \in {r} |-> record[r]]
         /\ Load(s, r).of = [q \in {r} |-> ItemsOf(r)]
         /\ Load(s, r).item = [i \in ItemsOf(r) |-> item[i]]
         /\ DOMAIN Load(s, r) = Fields
         /\ \A q \in Records : lock[q] # s
<1>1. Loaded(s) = {} /\ Read(s) = {} /\ \A q \in Records : lock[q] # s
  BY DEF BooksInv, Mine, Shape, Holding
<1>2. DOMAIN session[s] = Fields /\ DOMAIN session[s].of = Loaded(s)
  BY DEF FiscalInv, Good, Reads, BooksInv, Mine, Shape
<1>3. /\ Load(s, r).row = [t \in Loaded(s) \cup {r} |-> IF t = r THEN record[r] ELSE session[s].row[t]]
      /\ Load(s, r).of = [t \in Loaded(s) \cup {r} |-> IF t = r THEN ItemsOf(r) ELSE session[s].of[t]]
      /\ Load(s, r).item = [i \in Read(s) \cup ItemsOf(r) |-> IF i \in Read(s) THEN session[s].item[i] ELSE item[i]]
      /\ DOMAIN Load(s, r) = Fields
  BY <1>2, LoadTakes
<1>4. Loaded(s) \cup {r} = {r} /\ Read(s) \cup ItemsOf(r) = ItemsOf(r)
  BY <1>1
<1>5. /\ Load(s, r).row = [t \in {r} |-> IF t = r THEN record[r] ELSE session[s].row[t]]
      /\ Load(s, r).of = [t \in {r} |-> IF t = r THEN ItemsOf(r) ELSE session[s].of[t]]
      /\ Load(s, r).item = [i \in ItemsOf(r) |-> IF i \in Read(s) THEN session[s].item[i] ELSE item[i]]
  BY <1>3, <1>4
<1>6. \A i \in ItemsOf(r) : i \notin Read(s)
  BY <1>1
<1> QED
  BY <1>1, <1>3, <1>5, <1>6

LEMMA ReadCancelLeaves ==
  ASSUME FiscalInv, BooksInv, NEW s \in Sessions, NEW link \in links, ReadCancel(s, link)
  PROVE  Books' /\ Mine(s)' /\ \A t \in Sessions \ {s} : Leaves(t)
<1> DEFINE r == item[link.item].record
           seen == Load(s, r)
           my == [seen EXCEPT !.pc = "cancel", !.link = link]
<1>1. Silent /\ session' = [session EXCEPT ![s] = my] /\ UNCHANGED <<lines, lock>> /\ session[s].pc = "idle"
  BY DEF ReadCancel, Silent
<1>2. r \in Records /\ link.item \in ItemsOf(r)
  BY DEF BooksInv, Books, Columned, Line, ItemRow, ItemsOf
<1>3. /\ seen.row = [q \in {r} |-> record[r]] /\ seen.of = [q \in {r} |-> ItemsOf(r)]
      /\ seen.item = [i \in ItemsOf(r) |-> item[i]] /\ DOMAIN seen = Fields
      /\ \A q \in Records : lock[q] # s
  <2> HIDE DEF r
  <2> QED
    BY <1>1, <1>2, IdleReads
<1> HIDE DEF seen
<1>4. my.pc = "cancel" /\ my.link = link /\ my.row = seen.row /\ my.of = seen.of /\ my.item = seen.item
  BY <1>3 DEF Fields
<1> HIDE DEF my, r
<1>5. Books' /\ session'[s] = my /\ \A t \in Sessions \ {s} : Leaves(t)
  BY <1>1, ReadingLeaves DEF BooksInv, Books, Columned
<1>6. Mine(s)'
  BY <1>1, <1>2, <1>3, <1>4, <1>5, FirstReadIsMine
<1> QED
  BY <1>5, <1>6

LEMMA ReadWithdrawalLeaves ==
  ASSUME FiscalInv, BooksInv, NEW s \in Sessions, NEW r \in Records, ReadWithdrawal(s, r)
  PROVE  Books' /\ Mine(s)' /\ \A t \in Sessions \ {s} : Leaves(t)
<1> DEFINE seen == Load(s, r)
           my == [seen EXCEPT !.pc = "withdraw"]
<1>1. Silent /\ session' = [session EXCEPT ![s] = my] /\ UNCHANGED <<lines, lock>> /\ session[s].pc = "idle"
  BY DEF ReadWithdrawal, Silent
<1>2. /\ seen.row = [q \in {r} |-> record[r]] /\ seen.of = [q \in {r} |-> ItemsOf(r)]
      /\ seen.item = [i \in ItemsOf(r) |-> item[i]] /\ DOMAIN seen = Fields
      /\ \A q \in Records : lock[q] # s
  BY <1>1, IdleReads
<1> HIDE DEF seen
<1>3. my.pc = "withdraw" /\ my.row = seen.row /\ my.of = seen.of /\ my.item = seen.item
  BY <1>2 DEF Fields
<1> HIDE DEF my
<1>4. Books' /\ session'[s] = my /\ \A t \in Sessions \ {s} : Leaves(t)
  BY <1>1, ReadingLeaves DEF BooksInv, Books, Columned
<1>5. Mine(s)'
  BY <1>1, <1>2, <1>3, <1>4, FirstReadIsMine
<1> QED
  BY <1>4, <1>5

LEMMA LockLeaves ==
  ASSUME FiscalInv, BooksInv, NEW s \in Sessions, Lock(s)
  PROVE  Books' /\ Mine(s)' /\ \A t \in Sessions \ {s} : Leaves(t)
<1>1. PICK r \in Records :
        /\ lock[r] = None /\ lock' = [lock EXCEPT ![r] = s]
        /\ session' = [session EXCEPT ![s] =
             [Load(s, r) EXCEPT !.pc = IF Loaded(s) \cup {r} = Asked(s) THEN "check" ELSE "lock"]]
  BY DEF Lock, Free, Asked
<1>2. session[s].pc = "lock" /\ Silent /\ lines' = lines
  BY DEF Lock, Silent
<1> DEFINE seen == Load(s, r)
           my == [seen EXCEPT !.pc = IF Loaded(s) \cup {r} = Asked(s) THEN "check" ELSE "lock"]
<1>3. Shape(s) /\ Known(s) /\ Followed(s) /\ Books
  BY DEF BooksInv, Mine
<1>4. /\ seen.row = [t \in Loaded(s) \cup {r} |-> IF t = r THEN record[r] ELSE session[s].row[t]]
      /\ seen.of = [t \in Loaded(s) \cup {r} |-> IF t = r THEN ItemsOf(r) ELSE session[s].of[t]]
      /\ seen.item = [i \in Read(s) \cup ItemsOf(r) |-> IF i \in Read(s) THEN session[s].item[i] ELSE item[i]]
      /\ DOMAIN seen = Fields /\ seen.draft = session[s].draft
  BY <1>3, LoadTakes DEF Shape, FiscalInv, Good, Reads
<1> HIDE DEF seen
<1>5. /\ my.pc \in {"check", "lock"} /\ my.draft = session[s].draft
      /\ my.row = seen.row /\ my.of = seen.of /\ my.item = seen.item
  BY <1>4 DEF Fields
<1>6. session' = [session EXCEPT ![s] = my]
  BY <1>1 DEF seen
<1> HIDE DEF my
<1>7. Books' /\ session'[s] = my /\ \A t \in Sessions \ {s} : Leaves(t)
  <2>1. DOMAIN lines' = Drafts /\ \A q \in Records : lock'[q] \in {lock[q], s}
    BY <1>1, <1>2, <1>3 DEF Books, Columned, FiscalInv, Tables
  <2> QED
    BY <1>2, <1>3, <1>6, <2>1, ReadingLeaves
<1>8. r \notin Loaded(s) /\ Holding(s) /\ Holding(s)'
  BY <1>1, <1>2, <1>5, <1>7, DraftAssumption DEF FiscalInv, Good, Holds, Holding
<1>9. Loaded(s)' = Loaded(s) \cup {r} /\ Read(s)' = Read(s) \cup ItemsOf(r) /\ DOMAIN session'[s].of = Loaded(s)'
  BY <1>4, <1>5, <1>7 DEF Loaded, Read
<1>10. /\ session'[s].row[r] = record[r] /\ session'[s].of[r] = ItemsOf(r)
       /\ \A q \in Loaded(s) : session'[s].row[q] = session[s].row[q] /\ session'[s].of[q] = session[s].of[q]
       /\ \A i \in Read(s) : session'[s].item[i] = session[s].item[i]
       /\ \A i \in ItemsOf(r) \ Read(s) : session'[s].item[i] = item[i]
  BY <1>4, <1>5, <1>7, <1>8
<1>11. /\ ItemsOf(r) \subseteq Items /\ record[r] \in RecordRow /\ \A i \in ItemsOf(r) : item[i] \in ItemRow
       /\ \A q : ItemsOf(q)' = ItemsOf(q)
  BY <1>2, <1>3 DEF ItemsOf, Books, Columned, Silent
<1>12. Shape(s)'
  <2>1. \A q \in Records : lock'[q] = s => q \in Loaded(s)'
    BY <1>1, <1>3, <1>9 DEF Shape, FiscalInv, Tables
  <2>2. lines'[session'[s].draft] # NoLines
    BY <1>2, <1>3, <1>5, <1>7 DEF Shape, Batch
  <2>3. \A q \in Loaded(s)' : session'[s].row[q] \in RecordRow /\ session'[s].of[q] \subseteq Read(s)'
    BY <1>3, <1>9, <1>10, <1>11 DEF Shape
  <2>4. \A i \in Read(s)' : i \in Items /\ session'[s].item[i] \in ItemRow
    BY <1>3, <1>9, <1>10, <1>11 DEF Shape
  <2>5. session'[s].pc \in {"check", "lock"}
    BY <1>5, <1>7
  <2> QED
    BY <1>3, <1>8, <1>9, <2>1, <2>2, <2>3, <2>4, <2>5 DEF Shape
\* An item that it has read already and finds again crossed over to this record.
<1>13. r \notin crossed => \A i \in ItemsOf(r) : i \notin Read(s)
  BY <1>3, <1>8 DEF Followed, ItemsOf
<1>14. Known(s)'
  <2>1. ASSUME NEW q \in Loaded(s) \ crossed
        PROVE  /\ session'[s].row[q].version <= record'[q].version
               /\ session'[s].row[q].version = record'[q].version => AsStored(s, q)'
    <3>1. /\ session[s].row[q].version <= record[q].version
          /\ session[s].row[q].version = record[q].version => AsStored(s, q)
      BY <1>3, <2>1 DEF Known
    <3>2. session[s].of[q] \subseteq Read(s)
      BY <1>3, <2>1 DEF Shape
    <3>3. AsStored(s, q) => AsStored(s, q)'
      BY <1>2, <1>5, <1>7, <1>8, <1>10, <1>11, <3>2 DEF AsStored, Silent
    <3> QED
      BY <1>2, <1>10, <3>1, <3>3 DEF Silent
  <2>2. ASSUME r \notin crossed
        PROVE  session'[s].row[r].version <= record'[r].version /\ AsStored(s, r)'
    <3>1. record[r].version \in Nat
      BY <1>11 DEF RecordRow
    <3>2. AsStored(s, r)'
      BY <1>2, <1>5, <1>7, <1>10, <1>11, <1>13, <2>2 DEF AsStored, Silent
    <3> QED
      BY <1>2, <1>10, <3>1, <3>2 DEF Silent
  <2> QED
    BY <1>2, <1>9, <2>1, <2>2 DEF Known, Silent
<1>15. Followed(s)'
  <2>1. ASSUME NEW i \in Read(s)', item[i].record \notin crossed
        PROVE  /\ item[i].record \in Loaded(s)'
               /\ \A q \in Loaded(s)' : i \in session'[s].of[q] => q = item[i].record
    <3>1. CASE i \in Read(s)
      BY <1>3, <1>9, <1>10, <2>1, <3>1 DEF Followed, ItemsOf
    <3>2. CASE i \notin Read(s)
      <4>1. i \in ItemsOf(r) /\ item[i].record = r
        BY <1>9, <2>1, <3>2 DEF ItemsOf
      <4>2. \A q \in Loaded(s) : i \notin session'[s].of[q]
        BY <1>3, <1>10, <3>2 DEF Shape
      <4> QED
        BY <1>9, <4>1, <4>2
    <3> QED
      BY <3>1, <3>2
  <2> QED
    BY <1>2, <2>1 DEF Followed, Silent
<1> QED
  BY <1>7, <1>12, <1>14, <1>15 DEF Mine

LEMMA CheckLeaves ==
  ASSUME FiscalInv, BooksInv, NEW s \in Sessions, Check(s)
  PROVE  Books' /\ Mine(s)' /\ \A t \in Sessions \ {s} : Leaves(t)
<1>1. CASE ~Acceptable(s)
  BY <1>1, RollbackLeaves DEF Check, BooksInv
<1>2. CASE Acceptable(s)
  <2> DEFINE my == [session[s] EXCEPT !.pc = "write"]
  <2>1. session[s].pc = "check" /\ Silent /\ UNCHANGED <<lines, lock>> /\ session' = [session EXCEPT ![s] = my]
    BY <1>2 DEF Check, Silent, FiscalInv, Tables
  <2>2. Books' /\ session'[s] = my /\ \A t \in Sessions \ {s} : Leaves(t)
    BY <2>1, ReadingLeaves DEF BooksInv, Books, Columned
  <2>3. /\ my.pc = "write" /\ my.draft = session[s].draft /\ my.row = session[s].row
        /\ my.of = session[s].of /\ my.item = session[s].item
    BY DEF FiscalInv, Good, Reads, Fields
  <2> HIDE DEF my
  <2>4. Shape(s) /\ Known(s) /\ Followed(s)
    BY DEF BooksInv, Mine
  <2>5. Loaded(s)' = Loaded(s) /\ Read(s)' = Read(s) /\ Holding(s) /\ Holding(s)' /\ Batch(s)
    BY <2>1, <2>2, <2>3 DEF Loaded, Read, Holding, Batch
  <2>6. ASSUME NEW r \in Loaded(s) PROVE Selectable(s, r)'
    <3>1. Selectable(s, r)
      BY <1>2 DEF Acceptable
    <3>2. OpenItems(s, r)' = OpenItems(s, r) /\ \A i : Balance(s, i)' = Balance(s, i)
      BY <2>2, <2>3 DEF OpenItems, Balance
    <3>3. Selected(s, r)' = Selected(s, r)
      BY <2>1, <2>2, <2>3, <3>2 DEF Selected
    <3> QED
      BY <2>2, <2>3, <3>1, <3>2, <3>3 DEF Selectable
  <2>7. Shape(s)'
    BY <2>1, <2>2, <2>3, <2>4, <2>5, <2>6 DEF Shape
  <2>8. \A r : ItemsOf(r)' = ItemsOf(r)
    BY <2>1 DEF ItemsOf, Silent
  <2>9. \A r : AsStored(s, r) => AsStored(s, r)'
    BY <2>1, <2>2, <2>3, <2>5, <2>8 DEF AsStored, Silent
  <2>10. Known(s)'
    BY <2>1, <2>2, <2>3, <2>4, <2>5, <2>9 DEF Known, Silent
  <2>11. Followed(s)'
    BY <2>1, <2>2, <2>3, <2>4, <2>5 DEF Followed, Silent
  <2> QED
    BY <2>2, <2>7, <2>10, <2>11 DEF Mine
<1> QED
  BY <1>1, <1>2

LEMMA StatusTypes ==
  /\ \A rows : RecordStatus(rows) \in RecordStates
  /\ \A i, n : ItemStatus(i, n) \in ItemStates
  /\ \A row \in RecordRow, status \in RecordStates : Settled(row, status) \in RecordRow
  /\ \A i : \A n \in Nat, row \in ItemRow :
       Bill(i, row, n) \in ItemRow /\ Bill(i, row, n).record = row.record
         /\ Bill(i, row, n).billed = n /\ Bill(i, row, n).status = ItemStatus(i, n)
<1>1. \A rows : RecordStatus(rows) \in RecordStates
  BY DEF RecordStatus, RecordStates
<1>2. \A i, n : ItemStatus(i, n) \in ItemStates
  BY DEF ItemStatus, ItemStates
<1>3. \A status : SituationOf(status) \in Situations
  BY DEF SituationOf, Situations
<1>4. \A row \in RecordRow, status \in RecordStates : Settled(row, status) \in RecordRow
  BY <1>3 DEF Settled, RecordRow
<1>5. \A i : \A n \in Nat, row \in ItemRow :
        Bill(i, row, n) \in ItemRow /\ Bill(i, row, n).record = row.record
          /\ Bill(i, row, n).billed = n /\ Bill(i, row, n).status = ItemStatus(i, n)
  BY <1>2 DEF Bill, ItemRow
<1> QED
  BY <1>1, <1>2, <1>4, <1>5

LEMMA BillTypes ==
  \A i, n, row : n \in Nat /\ row \in ItemRow =>
    /\ Bill(i, row, n) \in ItemRow /\ Bill(i, row, n).record = row.record
    /\ Bill(i, row, n).billed = n /\ Bill(i, row, n).status = ItemStatus(i, n)
BY StatusTypes

LEMMA RecordFlush ==
  ASSUME NEW now \in RecordRow, NEW seen \in RecordRow, NEW new \in RecordRow
  PROVE  /\ Flush(now, seen, new) \in RecordRow
         /\ seen = now => Flush(now, seen, new) = new
         /\ new.status = seen.status => Flush(now, seen, new).status = now.status
  BY DEF Flush, RecordRow

LEMMA ItemFlush ==
  ASSUME NEW now \in ItemRow, NEW seen \in ItemRow, NEW new \in ItemRow
  PROVE  /\ Flush(now, seen, new) \in ItemRow
         /\ seen = now => Flush(now, seen, new) = new
         /\ new.record = seen.record => Flush(now, seen, new).record = now.record
  BY DEF Flush, ItemRow

\* What a batch that holds its records has read is what is stored.
LEMMA HeldIsStored ==
  ASSUME FiscalInv, BooksInv, NEW s \in Sessions, Holding(s)
  PROVE  /\ \A r \in Loaded(s) \ crossed : /\ session[s].row[r] = record[r] /\ session[s].of[r] = ItemsOf(r)
                                           /\ \A i \in ItemsOf(r) : session[s].item[i] = item[i]
         /\ \A r \in Loaded(s) : /\ r \in Records /\ lock[r] = s
                                 /\ session[s].row[r].version = record[r].version
         /\ \A i \in Items : item[i].record \notin crossed =>
              /\ i \in Read(s) => item[i].record \in Loaded(s)
              /\ \A r \in Loaded(s) : i \in session[s].of[r] => r = item[i].record
<1>1. Shape(s) /\ Known(s) /\ Followed(s) /\ Holds(s)
  BY DEF BooksInv, Mine, FiscalInv, Good
<1>2. \A r \in Loaded(s) : r \in Records /\ lock[r] = s /\ session[s].row[r].version = record[r].version
  BY <1>1 DEF Holds
<1>3. \A r \in Loaded(s) \ crossed : AsStored(s, r)
  BY <1>1, <1>2 DEF Known
<1>4. \A r \in Loaded(s) \ crossed : /\ session[s].row[r] = record[r] /\ session[s].of[r] = ItemsOf(r)
                                     /\ \A i \in ItemsOf(r) : session[s].item[i] = item[i]
  BY <1>3 DEF AsStored, ItemsOf
<1>5. \A i \in Items : item[i].record \notin crossed =>
        /\ i \in Read(s) => item[i].record \in Loaded(s)
        /\ \A r \in Loaded(s) : i \in session[s].of[r] => r = item[i].record
  BY <1>1 DEF Shape, Followed
<1> QED
  BY <1>2, <1>4, <1>5

\* A batch about to write asks for pieces still open, of items it has read.
LEMMA AskedFacts ==
  ASSUME FiscalInv, BooksInv, NEW s \in Sessions, session[s].pc = "write"
  PROVE  /\ \A r \in Loaded(s) : \A i \in DOMAIN Selected(s, r) :
              /\ i \in session[s].of[r] /\ i \in Read(s) /\ i \in Items
              /\ Selected(s, r)[i] \in Nat /\ Selected(s, r)[i] > 0
              /\ session[s].item[i].billed + Selected(s, r)[i] <= Total[i]
         /\ IsFiniteSet(Loaded(s))
<1>1. Shape(s) /\ session[s].draft \in Drafts /\ Loaded(s) = RecordsOf(session[s].draft)
  BY DEF BooksInv, Mine, FiscalInv, Good, Reads, Holds, Batch, Asked
<1>2. \A i \in Read(s) : i \in Items /\ session[s].item[i].billed \in Nat /\ Total[i] \in Nat
  BY <1>1, DraftAssumption DEF Shape, ItemRow
<1>3. \A r \in Loaded(s) : \A i \in DOMAIN Selected(s, r) :
        i \in session[s].of[r] /\ i \in Read(s) /\ Selected(s, r)[i] \in 1 .. (Total[i] - session[s].item[i].billed)
  BY <1>1 DEF Shape, Selectable, OpenItems, Balance
<1>4. \A r \in Loaded(s) : \A i \in DOMAIN Selected(s, r) :
        /\ i \in session[s].of[r] /\ i \in Read(s) /\ i \in Items
        /\ Selected(s, r)[i] \in Nat /\ Selected(s, r)[i] > 0
        /\ session[s].item[i].billed + Selected(s, r)[i] <= Total[i]
  <2> SUFFICES ASSUME NEW r \in Loaded(s), NEW i \in DOMAIN Selected(s, r)
               PROVE  /\ i \in session[s].of[r] /\ i \in Read(s) /\ i \in Items
                      /\ Selected(s, r)[i] \in Nat /\ Selected(s, r)[i] > 0
                      /\ session[s].item[i].billed + Selected(s, r)[i] <= Total[i]
    OBVIOUS
  <2> DEFINE n == Selected(s, r)[i]
  <2>1. i \in session[s].of[r] /\ i \in Read(s) /\ n \in 1 .. (Total[i] - session[s].item[i].billed)
    BY <1>3
  <2>2. i \in Items /\ session[s].item[i].billed \in Nat /\ Total[i] \in Nat
    BY <1>2, <2>1
  <2> HIDE DEF n
  <2>3. n \in Nat /\ n > 0 /\ session[s].item[i].billed + n <= Total[i]
    BY <2>1, <2>2
  <2> QED
    BY <2>1, <2>2, <2>3 DEF n
<1>5. IsFiniteSet(Loaded(s))
  <2> DEFINE d == session[s].draft
             f == [k \in DOMAIN Order[d] |-> Order[d][k]]
  <2>1. Order[d] \in Seq(Records)
    BY <1>1, DraftAssumption
  <2>2. DOMAIN Order[d] = 1 .. Len(Order[d]) /\ Len(Order[d]) \in Nat
    BY <2>1
  <2>3. IsFiniteSet(DOMAIN Order[d])
    <3>1. 1 \in Int /\ Len(Order[d]) \in Int
      BY <2>2
    <3>2. IsFiniteSet(1 .. Len(Order[d]))
      BY <3>1, FS_Interval
    <3> QED
      BY <2>2, <3>2
  <2>4. IsFiniteSet({Order[d][k] : k \in DOMAIN Order[d]})
    <3>1. RecordsOf(d) = {f[k] : k \in DOMAIN Order[d]}
      BY DEF RecordsOf
    <3>2. f \in Surjection(DOMAIN Order[d], RecordsOf(d))
      BY <3>1 DEF Surjection
    <3> QED
      BY <2>3, <3>2, FS_Surjection DEF RecordsOf
  <2> QED
    BY <1>1, <2>4 DEF RecordsOf
<1> QED
  BY <1>4, <1>5

\* The items as the session bills them are items, in the records they were in.
LEMMA BilledRow ==
  ASSUME FiscalInv, BooksInv, NEW s \in Sessions, session[s].pc = "write", NEW i \in Read(s)
  PROVE  Billed(s, i) \in ItemRow /\ Billed(s, i).record = session[s].item[i].record
<1>1. session[s].item[i] \in ItemRow
  BY DEF BooksInv, Mine, Shape
<1>2. CASE LinesOf(s, i) = {}
  BY <1>1, <1>2 DEF Billed
<1>3. CASE LinesOf(s, i) # {}
  <2> DEFINE n == AskedOf(s, i, LinesOf(s, i))
             f == [r \in LinesOf(s, i) |-> Selected(s, r)[i]]
  <2>1. IsFiniteSet(LinesOf(s, i)) /\ \A r \in LinesOf(s, i) : f[r] \in Nat
    <3>1. LinesOf(s, i) \subseteq Loaded(s)
      BY DEF LinesOf
    <3>2. \A r \in LinesOf(s, i) : Selected(s, r)[i] \in Nat
      BY AskedFacts DEF LinesOf
    <3> QED
      BY <3>1, <3>2, AskedFacts, FS_Subset
  <2>2. n \in Nat
    <3>1. n = SumFunctionOnSet(f, LinesOf(s, i))
      BY <2>1, AskedOfIsSum
    <3> HIDE DEF f, n
    <3> QED
      BY <2>1, <3>1, SumOfNaturals
  <2>3. Billed(s, i) = Bill(i, session[s].item[i], session[s].item[i].billed + n)
    BY <1>3 DEF Billed, AskedOf
  <2> HIDE DEF n
  <2> DEFINE row == session[s].item[i]
             m == row.billed + n
  <2>4. m \in Nat /\ row \in ItemRow /\ Billed(s, i) = Bill(i, row, m)
    BY <1>1, <2>2, <2>3 DEF ItemRow
  <2>5. Bill(i, row, m) \in ItemRow /\ Bill(i, row, m).record = row.record
    <3> HIDE DEF m
    <3> QED
      BY <2>4, BillTypes
  <2> QED
    BY <2>4, <2>5, Zenon
<1> QED
  BY <1>2, <1>3

\* The invoice line that a batch writes for an item of a record.
NewLine(s, r, i) == [draft |-> session[s].draft, try |-> registered[session[s].draft] + 1,
                     item |-> i, quantity |-> Selected(s, r)[i]]

\* A commit keeps every item in its record, and every column in its domain.
LEMMA CommitColumns ==
  ASSUME FiscalInv, BooksInv, NEW s \in Sessions, session[s].pc = "write", Commit(s)
  PROVE  /\ Columned' /\ \A r : ItemsOf(r)' = ItemsOf(r)
         /\ \A i \in Read(s) : item'[i] = Flush(item[i], session[s].item[i], Billed(s, i))
         /\ \A i \in Items : i \notin Read(s) => item'[i] = item[i]
         /\ \A i \in Items : item'[i].record = item[i].record
         /\ \A r \in Loaded(s) : /\ Settled(session[s].row[r], StatusBilled(s, r)) \in RecordRow
                                 /\ record'[r] = Flush(record[r], session[s].row[r],
                                                       Settled(session[s].row[r], StatusBilled(s, r)))
         /\ \A r \in Records : r \notin Loaded(s) => record'[r] = record[r]
         /\ \A d \in Drafts : registered'[d] \in Nat /\ registered[d] <= registered'[d]
<1> DEFINE d == session[s].draft
<1>1. Shape(s) /\ Columned /\ d \in Drafts /\ registered \in [Drafts -> Nat]
  BY DEF BooksInv, Books, Mine, FiscalInv, Tables, Good, Reads, Batch
<1>2. \A i \in Read(s) : item'[i] = Flush(item[i], session[s].item[i], Billed(s, i))
  BY <1>1 DEF Commit, Read, Shape
<1>3. \A i \in Items : i \notin Read(s) => item'[i] = item[i]
  BY DEF Commit, Read
<1>4. DOMAIN item' = Items /\ \A i \in Items : item'[i] \in ItemRow /\ item'[i].record = item[i].record
  <2> SUFFICES ASSUME NEW i \in Items PROVE item'[i] \in ItemRow /\ item'[i].record = item[i].record
    BY DEF Commit
  <2>1. item[i] \in ItemRow
    BY <1>1 DEF Columned
  <2>2. CASE i \in Read(s)
    <3>1. Billed(s, i) \in ItemRow /\ Billed(s, i).record = session[s].item[i].record
      BY <2>2, BilledRow
    <3>2. session[s].item[i] \in ItemRow
      BY <1>1, <2>2 DEF Shape
    <3> QED
      BY <1>2, <2>1, <2>2, <3>1, <3>2, ItemFlush
  <2> QED
    BY <1>3, <2>1, <2>2
<1>5. \A r : ItemsOf(r)' = ItemsOf(r)
  BY <1>4 DEF ItemsOf
<1>6. \A r \in Loaded(s) : /\ Settled(session[s].row[r], StatusBilled(s, r)) \in RecordRow
                           /\ record'[r] = Flush(record[r], session[s].row[r],
                                                 Settled(session[s].row[r], StatusBilled(s, r)))
  <2> SUFFICES ASSUME NEW r \in Loaded(s)
               PROVE  /\ Settled(session[s].row[r], StatusBilled(s, r)) \in RecordRow
                      /\ record'[r] = Flush(record[r], session[s].row[r],
                                            Settled(session[s].row[r], StatusBilled(s, r)))
    OBVIOUS
  <2>1. r \in Records /\ session[s].row[r] \in RecordRow
    BY <1>1 DEF Shape
  <2>2. StatusBilled(s, r) \in RecordStates
    BY StatusTypes DEF StatusBilled, RecordStates
  <2> QED
    BY <2>1, <2>2, StatusTypes DEF Commit
<1>7. \A r \in Records : r \notin Loaded(s) => record'[r] = record[r]
  BY DEF Commit
<1>8. DOMAIN record' = Records /\ \A r \in Records : record'[r] \in RecordRow
  <2> SUFFICES ASSUME NEW r \in Records PROVE record'[r] \in RecordRow
    BY DEF Commit
  <2>1. record[r] \in RecordRow
    BY <1>1 DEF Columned
  <2>2. CASE r \in Loaded(s)
    <3>1. session[s].row[r] \in RecordRow
      BY <1>1, <2>2 DEF Shape
    <3> QED
      BY <1>6, <2>1, <2>2, <3>1, RecordFlush
  <2> QED
    BY <1>7, <2>1, <2>2
<1>9. registered'[d] = registered[d] + 1 /\ \A e \in Drafts : registered'[e] \in Nat /\ registered[e] <= registered'[e]
  BY <1>1 DEF Commit
<1>10. \A link \in links' : Line(link)'
  <2> SUFFICES ASSUME NEW link \in links' PROVE Line(link)'
    OBVIOUS
  <2>1. CASE link \in links
    <3>1. Line(link)
      BY <1>1, <2>1 DEF Columned
    <3>2. link.draft \in Drafts /\ link.try \in 1 .. registered[link.draft]
      BY <3>1 DEF Line
    <3>3. registered[link.draft] \in Nat /\ registered'[link.draft] \in Nat
          /\ registered[link.draft] <= registered'[link.draft]
      BY <1>1, <1>9, <3>2
    <3>4. link.try \in 1 .. registered'[link.draft]
      BY <3>2, <3>3
    <3> QED
      BY <3>1, <3>4 DEF Line
  <2>2. CASE link \notin links
    <3>1. PICK r \in Loaded(s) : link \in {NewLine(s, r, i) : i \in DOMAIN Selected(s, r)}
      BY <2>2 DEF Commit, NewLine
    <3>2. PICK i \in DOMAIN Selected(s, r) : link = NewLine(s, r, i)
      BY <3>1
    <3>3. /\ i \in Items /\ Selected(s, r)[i] \in Nat /\ Selected(s, r)[i] > 0
          /\ session[s].item[i].billed + Selected(s, r)[i] <= Total[i]
          /\ i \in Read(s)
      BY AskedFacts
    <3>4. session[s].item[i].billed \in Nat /\ Total[i] \in Nat
      BY <1>1, <3>3, DraftAssumption DEF Shape, ItemRow
    <3>5. Selected(s, r)[i] \in 1 .. Total[i]
      BY <3>3, <3>4
    <3>6. link.draft = d /\ link.try = registered[d] + 1 /\ link.item = i /\ link.quantity = Selected(s, r)[i]
      BY <3>2 DEF NewLine
    <3>7. registered[d] \in Nat
      BY <1>1
    <3>8. link.try \in 1 .. registered'[d]
      BY <1>9, <3>6, <3>7
    <3> HIDE DEF d
    <3> QED
      BY <1>1, <3>3, <3>5, <3>6, <3>8 DEF Line
  <2> QED
    BY <2>1, <2>2
<1>11. crossed' \subseteq Records /\ stale' \subseteq Records /\ DOMAIN lines' = Drafts
  BY <1>1 DEF Commit, Columned
<1>12. Columned'
  <2>1. record' \in [Records -> RecordRow] /\ item' \in [Items -> ItemRow]
    <3>1. record' = [r \in Records |-> record'[r]] /\ item' = [i \in Items |-> item'[i]]
      BY DEF Commit
    <3> QED
      BY <1>4, <1>8, <3>1
  <2> QED
    BY <1>10, <1>11, <2>1 DEF Columned
<1> QED
  BY <1>2, <1>3, <1>4, <1>5, <1>6, <1>7, <1>9, <1>12

\* The lines an item gains: the one its own record asks for, or none.
LEMMA CommitLines ==
  ASSUME FiscalInv, BooksInv, NEW s \in Sessions, session[s].pc = "write", Commit(s),
         NEW i \in Items, item[i].record \notin crossed
  PROVE  \/ LinesOf(s, i) = {} /\ LinesFor(i)' = LinesFor(i)
         \/ LET q == item[i].record IN
            /\ LinesOf(s, i) = {q} /\ q \in Loaded(s) /\ i \in DOMAIN Selected(s, q)
            /\ LinesFor(i)' = LinesFor(i) \cup {NewLine(s, q, i)} /\ NewLine(s, q, i) \notin LinesFor(i)
<1> DEFINE q == item[i].record
           d == session[s].draft
<1>1. Holding(s) /\ d \in Drafts /\ registered \in [Drafts -> Nat] /\ Columned
  BY DEF BooksInv, Books, Holding, Batch, FiscalInv, Tables, Good, Reads
<1>2. \A r \in Loaded(s) : i \in DOMAIN Selected(s, r) => r = q
  BY <1>1, AskedFacts, HeldIsStored
<1>3. \A link : link \in links' <=> link \in links \/ \E r \in Loaded(s) : \E j \in DOMAIN Selected(s, r) : link = NewLine(s, r, j)
  BY DEF Commit, NewLine
<1>4. \A r, j : NewLine(s, r, j).item = j /\ NewLine(s, r, j).try = registered[d] + 1 /\ NewLine(s, r, j).draft = d
  BY DEF NewLine
<1>5. LinesFor(i)' = LinesFor(i) \cup {NewLine(s, r, i) : r \in LinesOf(s, i)}
  <2>1. ASSUME NEW link, link \in LinesFor(i)'
        PROVE  link \in LinesFor(i) \cup {NewLine(s, r, i) : r \in LinesOf(s, i)}
    <3>1. link \in links' /\ link.item = i
      BY <2>1 DEF LinesFor
    <3>2. CASE link \in links
      BY <3>1, <3>2 DEF LinesFor
    <3>3. CASE link \notin links
      <4>1. PICK r \in Loaded(s) : \E j \in DOMAIN Selected(s, r) : link = NewLine(s, r, j)
        BY <1>3, <3>1, <3>3
      <4>2. PICK j \in DOMAIN Selected(s, r) : link = NewLine(s, r, j)
        BY <4>1
      <4>3. j = i
        BY <1>4, <3>1, <4>2
      <4> QED
        BY <4>2, <4>3 DEF LinesOf
    <3> QED
      BY <3>2, <3>3
  <2>2. LinesFor(i) \subseteq LinesFor(i)'
    BY <1>3 DEF LinesFor
  <2>3. \A r \in LinesOf(s, i) : NewLine(s, r, i) \in LinesFor(i)'
    BY <1>3, <1>4 DEF LinesFor, LinesOf
  <2> QED
    BY <2>1, <2>2, <2>3
<1>6. \A r : NewLine(s, r, i) \notin LinesFor(i)
  <2> SUFFICES ASSUME NEW r, NewLine(s, r, i) \in links PROVE FALSE
    BY DEF LinesFor
  <2>1. NewLine(s, r, i).try \in 1 .. registered[NewLine(s, r, i).draft]
    BY <1>1 DEF Columned, Line
  <2>2. registered[d] + 1 \in 1 .. registered[d] /\ registered[d] \in Nat
    BY <1>1, <1>4, <2>1
  <2> QED
    BY <2>2
<1>7. CASE q \in Loaded(s) /\ i \in DOMAIN Selected(s, q)
  <2>1. LinesOf(s, i) = {q}
    BY <1>2, <1>7 DEF LinesOf
  <2> QED
    BY <1>5, <1>6, <1>7, <2>1
<1>8. CASE ~(q \in Loaded(s) /\ i \in DOMAIN Selected(s, q))
  <2>1. LinesOf(s, i) = {}
    BY <1>2, <1>8 DEF LinesOf
  <2> QED
    BY <1>5, <2>1
<1> QED
  BY <1>7, <1>8

LEMMA CommitAccounts ==
  ASSUME FiscalInv, BooksInv, NEW s \in Sessions, session[s].pc = "write", Commit(s)
  PROVE  Accounted'
<1> SUFFICES ASSUME NEW i \in Items, item'[i].record \notin crossed'
             PROVE  /\ IsFiniteSet(LinesFor(i)') /\ item'[i].billed = Invoiced(LinesFor(i)')
                    /\ item'[i].billed <= Total[i] /\ item'[i].status = ItemStatus(i, item'[i].billed)
  BY DEF Accounted
<1> DEFINE q == item[i].record
<1>1. Holding(s) /\ Shape(s) /\ Columned /\ Accounted
  BY DEF BooksInv, Mine, Books, Holding
<1>2. q \notin crossed
  BY CommitColumns DEF Commit
<1>3. /\ IsFiniteSet(LinesFor(i)) /\ item[i].billed = Invoiced(LinesFor(i))
      /\ item[i].billed <= Total[i] /\ item[i].status = ItemStatus(i, item[i].billed)
      /\ item[i] \in ItemRow
  BY <1>1, <1>2 DEF Accounted, Columned
<1>4. i \in Read(s) => session[s].item[i] = item[i]
  <2>1. i \in Read(s) => q \in Loaded(s)
    BY <1>1, <1>2, HeldIsStored
  <2> QED
    BY <1>1, <1>2, <2>1, HeldIsStored DEF ItemsOf
<1>5. i \in Read(s) => item'[i] = Billed(s, i)
  BY <1>3, <1>4, BilledRow, ItemFlush, CommitColumns
<1>6. CASE LinesOf(s, i) = {} /\ LinesFor(i)' = LinesFor(i)
  <2>1. item'[i] = item[i]
    BY <1>4, <1>5, <1>6, CommitColumns DEF Billed
  <2> QED
    BY <1>3, <1>6, <2>1
<1>7. CASE /\ LinesOf(s, i) = {q} /\ q \in Loaded(s) /\ i \in DOMAIN Selected(s, q)
           /\ LinesFor(i)' = LinesFor(i) \cup {NewLine(s, q, i)} /\ NewLine(s, q, i) \notin LinesFor(i)
  <2> DEFINE n == Selected(s, q)[i]
             x == NewLine(s, q, i)
             b == item[i].billed
  <2>1. i \in Read(s) /\ n \in Nat /\ n > 0 /\ session[s].item[i].billed + n <= Total[i]
    BY <1>7, AskedFacts
  <2>2. x.quantity = n /\ \A link \in LinesFor(i) : link.quantity \in Int
    <3>1. \A link \in LinesFor(i) : link.item = i /\ link.quantity \in 1 .. Total[i]
      BY <1>1 DEF LinesFor, Columned, Line
    <3>2. Total[i] \in Nat
      BY DraftAssumption
    <3>3. \A link \in LinesFor(i) : link.quantity \in Int
      BY <3>1, <3>2
    <3> QED
      BY <3>3 DEF NewLine
  <2>3. IsFiniteSet(LinesFor(i)') /\ Invoiced(LinesFor(i)') = x.quantity + Invoiced(LinesFor(i))
    <3> HIDE DEF x
    <3>1. x.quantity \in Int
      BY <2>1, <2>2
    <3> QED
      BY <1>3, <1>7, <2>2, <3>1, InvoicedGrows DEF x
  <2>4. Billed(s, i) = Bill(i, item[i], b + n)
    <3>1. AskedOf(s, i, {q}) = n
      BY <2>1, AskedOfOne
    <3> QED
      BY <1>4, <1>7, <2>1, <3>1 DEF Billed, AskedOf
  <2>5. b \in Nat /\ b + n \in Nat /\ b + n <= Total[i] /\ b + n = n + b
    <3> HIDE DEF n
    <3>1. b \in Nat
      BY <1>3 DEF ItemRow
    <3> QED
      BY <1>4, <2>1, <3>1
  <2>6. item'[i].billed = b + n /\ item'[i].status = ItemStatus(i, b + n)
    <3>1. item'[i] = Bill(i, item[i], b + n)
      BY <1>5, <2>1, <2>4
    <3> HIDE DEF b, n
    <3> QED
      BY <1>3, <2>5, <3>1, StatusTypes
  <2> QED
    BY <1>3, <2>2, <2>3, <2>5, <2>6
<1> QED
  BY <1>2, <1>6, <1>7, CommitLines

LEMMA CommitRecalculates ==
  ASSUME FiscalInv, BooksInv, NEW s \in Sessions, session[s].pc = "write", Commit(s)
  PROVE  Recalculated'
<1> SUFFICES ASSUME NEW r \in Records, r \notin crossed', r \notin stale', ItemsOf(r)' # {}
             PROVE  record'[r].status = RecordStatus(RowsOf(r)')
  BY DEF Recalculated
<1>1. Holding(s) /\ Shape(s) /\ Columned /\ Recalculated /\ r \notin crossed
  BY DEF BooksInv, Mine, Books, Holding, Commit
<1>2. ItemsOf(r)' = ItemsOf(r)
  BY CommitColumns
<1>3. CASE r \in Loaded(s)
  <2>1. /\ session[s].row[r] = record[r] /\ session[s].of[r] = ItemsOf(r)
        /\ \A i \in ItemsOf(r) : i \in Read(s) /\ session[s].item[i] = item[i]
    BY <1>1, <1>3, HeldIsStored DEF Shape
  <2>2. record'[r] = Settled(record[r], StatusBilled(s, r))
    BY <1>1, <1>3, <2>1, CommitColumns, RecordFlush DEF Columned, Shape
  <2>3. StatusBilled(s, r) = RecordStatus(RowsBilled(s, r))
    BY <1>2, <2>1 DEF StatusBilled
  <2>4. \A i \in ItemsOf(r) : item'[i] = Billed(s, i)
    <3> SUFFICES ASSUME NEW i \in ItemsOf(r) PROVE item'[i] = Billed(s, i)
      OBVIOUS
    <3>1. i \in Read(s) /\ i \in Items /\ item[i] \in ItemRow /\ session[s].item[i] = item[i]
      BY <1>1, <2>1 DEF Columned, ItemsOf
    <3> QED
      BY <3>1, BilledRow, ItemFlush, CommitColumns
  <2>5. RowsOf(r)' = RowsBilled(s, r)
    BY <1>2, <2>1, <2>4 DEF RowsOf, RowsBilled
  <2> QED
    BY <2>2, <2>3, <2>5 DEF Settled
<1>4. CASE r \notin Loaded(s)
  <2>1. r \notin stale
    BY <1>4 DEF Commit, Complete
  <2>2. record'[r] = record[r]
    BY <1>4, CommitColumns
  <2>3. \A i \in ItemsOf(r) : item'[i] = item[i]
    <3> SUFFICES ASSUME NEW i \in ItemsOf(r) PROVE item'[i] = item[i]
      OBVIOUS
    <3>1. i \in Items /\ item[i].record = r
      BY DEF ItemsOf
    <3>2. i \notin Read(s)
      BY <1>1, <1>4, <3>1, HeldIsStored
    <3> QED
      BY <3>1, <3>2, CommitColumns
  <2>4. RowsOf(r)' = RowsOf(r)
    BY <1>2, <2>3 DEF RowsOf
  <2> QED
    BY <1>1, <1>2, <2>1, <2>2, <2>4 DEF Recalculated
<1> QED
  BY <1>3, <1>4

LEMMA WriteLeaves ==
  ASSUME FiscalInv, BooksInv, NEW s \in Sessions, Write(s)
  PROVE  Books' /\ Mine(s)' /\ \A t \in Sessions \ {s} : Leaves(t)
<1>1. CASE ~Written(s)
  BY <1>1, RollbackLeaves DEF Write, BooksInv
<1>2. CASE Written(s)
  <2>1. session[s].pc = "write" /\ Commit(s)
    BY <1>2 DEF Write
  <2>2. Books'
    BY <2>1, CommitColumns, CommitAccounts, CommitRecalculates DEF Books
  <2>3. /\ session' = [session EXCEPT ![s] = Idle] /\ lock' = Unlocked(s)
        /\ lines' = lines /\ crossed' = crossed /\ stale' = stale \ Complete(s) /\ links \subseteq links'
    BY <2>1 DEF Commit
  <2>4. session'[s] = Idle /\ \A t \in Sessions \ {s} : session'[t] = session[t]
    BY <2>3 DEF FiscalInv, Tables
  <2>5. \A r \in Records : lock'[r] # s /\ \A t \in Sessions \ {s} : lock'[r] = t => lock[r] = t
    BY <2>3, DraftAssumption DEF Unlocked
  <2>6. Mine(s)'
    BY <2>4, <2>5, IdleIsMine
  <2>7. Shape(s) /\ Holding(s) /\ Columned
    BY <2>1 DEF BooksInv, Mine, Books, Holding
  <2>8. ASSUME NEW r \in Loaded(s) PROVE record[r].version < record'[r].version
    <3> DEFINE now == record[r]
               seen == session[s].row[r]
               new == Settled(seen, StatusBilled(s, r))
    <3>1. now \in RecordRow /\ seen \in RecordRow /\ seen.version = now.version
      BY <2>7, HeldIsStored DEF Shape, Columned
    <3>2. record'[r] = Flush(now, seen, new)
      BY <2>1, CommitColumns
    <3>3. new.version = seen.version + 1
      BY DEF Settled
    <3> HIDE DEF new, seen
    <3>4. seen.version \in Nat /\ "version" \in DOMAIN now
      BY <3>1 DEF RecordRow
    <3>5. Flush(now, seen, new).version = new.version
      BY <3>3, <3>4 DEF Flush
    <3> HIDE DEF now
    <3>6. now.version < Flush(now, seen, new).version
      BY <3>1, <3>3, <3>4, <3>5
    <3> QED
      BY <3>2, <3>6 DEF now
  <2>9. ASSUME NEW t \in Sessions \ {s} PROVE Leaves(t)
    <3>1. Shape(t)
      BY DEF BooksInv, Mine
    <3>2. ASSUME NEW r \in Loaded(t) \ crossed', r \notin Loaded(s) PROVE Untouched(t, r)
      <4>1. r \in Records /\ r \notin crossed
        BY <2>3, <3>1, <3>2 DEF Shape
      <4>2. record'[r] = record[r] /\ ItemsOf(r)' = ItemsOf(r)
        BY <2>1, <3>2, <4>1, CommitColumns
      <4>3. \A i \in session[t].of[r] : item'[i].record = r => item'[i] = item[i]
        <5> SUFFICES ASSUME NEW i \in session[t].of[r], item'[i].record = r PROVE item'[i] = item[i]
          OBVIOUS
        <5>1. i \in Items
          BY <3>1 DEF Shape
        <5>2. item[i].record = r
          BY <2>1, <5>1, CommitColumns
        <5>3. i \notin Read(s)
          BY <2>7, <3>2, <4>1, <5>1, <5>2, HeldIsStored
        <5> QED
          BY <2>1, <5>1, <5>3, CommitColumns
      <4>4. r \in stale => r \in stale'
        BY <2>3, <3>2 DEF Complete
      <4>5. session[t].pc = "cancel" /\ item'[session[t].link.item].record = r => item[session[t].link.item].record = r
        <5> SUFFICES ASSUME session[t].pc = "cancel", item'[session[t].link.item].record = r
                     PROVE  item[session[t].link.item].record = r
          OBVIOUS
        <5>1. session[t].link.item \in Items
          BY <3>1 DEF Shape
        <5> QED
          BY <2>1, <5>1, CommitColumns
      <4> QED
        BY <2>3, <4>2, <4>3, <4>4, <4>5 DEF Untouched
    <3>3. \A i \in Read(t) : item'[i].record = item[i].record
      BY <2>1, <3>1, CommitColumns DEF Shape
    <3>4. \A d \in Drafts : registered[d] <= registered'[d]
      BY <2>1, CommitColumns
    <3> QED
      BY <2>3, <2>4, <2>5, <2>8, <3>2, <3>3, <3>4 DEF Leaves
  <2> QED
    BY <2>2, <2>6, <2>9
<1> QED
  BY <1>1, <1>2

\* What WriteCancel does, with the one record r of the session, its link and the
\* row it computes.
Cancelled(s, r, i, new, rows) ==
  /\ Loaded(s) = {r} /\ r \in Records /\ Read(s) = session[s].of[r]
  /\ i = session[s].link.item /\ i \in Read(s) /\ i \in Items /\ Line(session[s].link)
  /\ new = Bill(i, session[s].item[i], AtLeastZero(session[s].item[i].billed - session[s].link.quantity))
  /\ rows = [session[s].item EXCEPT ![i] = new]
  /\ item' = [item EXCEPT ![i] = Flush(item[i], session[s].item[i], new)]
  /\ record' = [record EXCEPT ![r] = Flush(record[r], session[s].row[r],
                                           Settled(session[s].row[r], RecordStatus(rows)))]
  /\ crossed' = Crossed(s, r) /\ stale' = stale \ Complete(s) /\ links' = links \ {session[s].link}
  /\ UNCHANGED <<registered, lines, lock>> /\ session' = [session EXCEPT ![s] = Idle]

LEMMA CancelIsCancelled ==
  ASSUME FiscalInv, BooksInv, NEW s \in Sessions, WriteCancel(s)
  PROVE  \E r \in Records, i \in Items : \E new, rows : Cancelled(s, r, i, new, rows)
<1> DEFINE my == session[s]
           i == my.link.item
           new == Bill(i, my.item[i], AtLeastZero(my.item[i].billed - my.link.quantity))
           rows == [my.item EXCEPT ![i] = new]
<1>1. my.pc = "cancel" /\ Shape(s) /\ DOMAIN item = Items /\ DOMAIN record = Records
  BY DEF BooksInv, Mine, WriteCancel, Books, Columned
<1>2. PICK r \in Records : Loaded(s) = {r} /\ Read(s) = session[s].of[r]
  BY <1>1 DEF Shape
<1>3. i \in Read(s) /\ i \in Items /\ Line(session[s].link)
  BY <1>1 DEF Shape
<1>4. /\ item' = [item EXCEPT ![i] = Flush(@, my.item[i], new)]
      /\ record' = [record EXCEPT ![r] = Flush(@, my.row[r], Settled(my.row[r], RecordStatus(rows)))]
      /\ crossed' = Crossed(s, r) /\ stale' = stale \ Complete(s)
  BY <1>2 DEF WriteCancel
<1>5. /\ item' = [item EXCEPT ![i] = Flush(item[i], my.item[i], new)]
      /\ record' = [record EXCEPT ![r] = Flush(record[r], my.row[r], Settled(my.row[r], RecordStatus(rows)))]
  <2> HIDE DEF new, rows
  <2> QED
    BY <1>4
<1>6. /\ UNCHANGED <<registered, lines, lock>> /\ session' = [session EXCEPT ![s] = Idle]
      /\ links' = links \ {session[s].link}
  BY DEF WriteCancel
<1>7. Cancelled(s, r, i, new, rows)
  BY <1>2, <1>3, <1>4, <1>5, <1>6 DEF Cancelled
<1> QED
  BY <1>3, <1>7

\* What it leaves alone, and what it finds as it has read it.
LEMMA CancelledFacts ==
  ASSUME FiscalInv, BooksInv, NEW s \in Sessions, session[s].pc = "cancel",
         NEW r \in Records, NEW i \in Items, NEW new, NEW rows, Cancelled(s, r, i, new, rows)
  PROVE  /\ new \in ItemRow /\ session[s].item[i] \in ItemRow /\ item[i] \in ItemRow
         /\ \A j \in Items : item'[j] \in ItemRow /\ item'[j].record = item[j].record /\ (j # i => item'[j] = item[j])
         /\ \A q : ItemsOf(q)' = ItemsOf(q)
         /\ item'[i] = Flush(item[i], session[s].item[i], new)
         /\ record'[r] = Flush(record[r], session[s].row[r], Settled(session[s].row[r], RecordStatus(rows)))
         /\ record'[r] \in RecordRow /\ \A q \in Records : q # r => record'[q] = record[q]
         /\ crossed \subseteq crossed' /\ crossed' \subseteq Records /\ (stale \ {r}) \subseteq stale' /\ stale' \subseteq stale
         /\ item[i].record \notin crossed => item[i].record = r
         /\ r \notin crossed' => /\ session[s].row[r] = record[r]
                                 /\ session[s].of[r] = ItemsOf(r) \/ r \in stale
                                 /\ \A j \in Read(s) : item[j].record = r => session[s].item[j] = item[j]
                                 /\ item[i].record = r => session[s].link \in links
<1>1. Shape(s) /\ Known(s) /\ Followed(s) /\ Columned
  BY DEF BooksInv, Mine, Books
<1>2. session[s].item[i] \in ItemRow /\ item[i] \in ItemRow /\ session[s].row[r] \in RecordRow /\ record[r] \in RecordRow
  BY <1>1 DEF Cancelled, Shape, Columned
<1>3. new \in ItemRow /\ new.record = session[s].item[i].record
  <2> DEFINE b == session[s].item[i].billed
             n == session[s].link.quantity
  <2>1. b \in Nat /\ n \in Int
    <3>1. n \in 1 .. Total[i] /\ Total[i] \in Nat
      BY DraftAssumption DEF Cancelled, Line
    <3> QED
      BY <1>2, <3>1 DEF ItemRow
  <2> DEFINE row == session[s].item[i]
             m == AtLeastZero(b - n)
  <2>2. m \in Nat /\ row \in ItemRow
    BY <1>2, <2>1 DEF AtLeastZero
  <2>3. new = Bill(i, row, m)
    BY DEF Cancelled
  <2>4. Bill(i, row, m) \in ItemRow /\ Bill(i, row, m).record = row.record
    <3> HIDE DEF m
    <3> QED
      BY <2>2, BillTypes
  <2> QED
    BY <2>3, <2>4, Zenon
<1>4. /\ item'[i] = Flush(item[i], session[s].item[i], new)
      /\ \A j \in Items : j # i => item'[j] = item[j]
  BY <1>1 DEF Cancelled, Columned
<1>5. item'[i] \in ItemRow /\ item'[i].record = item[i].record
  BY <1>2, <1>3, <1>4, ItemFlush
<1>6. \A j \in Items : item'[j] \in ItemRow /\ item'[j].record = item[j].record
  BY <1>1, <1>4, <1>5 DEF Columned
<1>7. \A q : ItemsOf(q)' = ItemsOf(q)
  BY <1>6 DEF ItemsOf
<1>8. /\ record'[r] = Flush(record[r], session[s].row[r], Settled(session[s].row[r], RecordStatus(rows)))
      /\ \A q \in Records : q # r => record'[q] = record[q]
  BY <1>1 DEF Cancelled, Columned
<1>9. record'[r] \in RecordRow
  BY <1>2, <1>8, StatusTypes, RecordFlush
<1>10. /\ crossed \subseteq crossed' /\ crossed' \subseteq Records
       /\ (stale \ {r}) \subseteq stale' /\ stale' \subseteq stale
  BY <1>1 DEF Cancelled, Crossed, Complete, Columned
<1>11. item[i].record \notin crossed => item[i].record = r
  BY <1>1 DEF Cancelled, Followed
<1>12. r \notin crossed' => AsStored(s, r)
  <2>1. r \notin crossed' => r \notin crossed /\ session[s].row[r].version = record[r].version
    BY DEF Cancelled, Crossed
  <2> QED
    BY <1>1, <2>1 DEF Known, Cancelled
<1>13. r \notin crossed' => /\ session[s].row[r] = record[r]
                            /\ session[s].of[r] = ItemsOf(r) \/ r \in stale
                            /\ \A j \in Read(s) : item[j].record = r => session[s].item[j] = item[j]
                            /\ item[i].record = r => session[s].link \in links
  BY <1>12 DEF AsStored, Cancelled
<1> QED
  BY <1>2, <1>3, <1>4, <1>6, <1>7, <1>8, <1>9, <1>10, <1>11, <1>13

LEMMA CancelledBooks ==
  ASSUME FiscalInv, BooksInv, NEW s \in Sessions, session[s].pc = "cancel",
         NEW r \in Records, NEW i \in Items, NEW new, NEW rows, Cancelled(s, r, i, new, rows)
  PROVE  Books'
<1> DEFINE link == session[s].link
           b == session[s].item[i].billed
<1>1. Books /\ Loaded(s) = {r} /\ Read(s) = session[s].of[r] /\ i \in Read(s) /\ Line(link) /\ link.item = i
  BY DEF BooksInv, Cancelled
<1>2. Columned'
  <2>1. record' \in [Records -> RecordRow] /\ item' \in [Items -> ItemRow]
    <3>1. DOMAIN record' = Records /\ DOMAIN item' = Items
      BY <1>1 DEF Cancelled, Books, Columned
    <3>2. record' = [q \in Records |-> record'[q]] /\ item' = [j \in Items |-> item'[j]]
      BY <3>1 DEF Cancelled
    <3>3. \A q \in Records : record'[q] \in RecordRow
      BY <1>1, CancelledFacts DEF Books, Columned
    <3> QED
      BY <3>2, <3>3, CancelledFacts
  <2>2. \A l \in links' : Line(l)'
    BY <1>1 DEF Cancelled, Books, Columned, Line
  <2>3. crossed' \subseteq Records /\ stale' \subseteq Records /\ DOMAIN lines' = Drafts
    <3>1. stale' \subseteq stale /\ crossed' \subseteq Records
      BY CancelledFacts
    <3> QED
      BY <1>1, <3>1 DEF Cancelled, Books, Columned
  <2> QED
    BY <2>1, <2>2, <2>3 DEF Columned
<1>3. Accounted'
  <2> SUFFICES ASSUME NEW j \in Items, item'[j].record \notin crossed'
               PROVE  /\ IsFiniteSet(LinesFor(j)') /\ item'[j].billed = Invoiced(LinesFor(j)')
                      /\ item'[j].billed <= Total[j] /\ item'[j].status = ItemStatus(j, item'[j].billed)
    BY DEF Accounted
  <2>1. item[j].record \notin crossed' /\ item[j].record \notin crossed
    BY CancelledFacts
  <2>2. /\ IsFiniteSet(LinesFor(j)) /\ item[j].billed = Invoiced(LinesFor(j))
        /\ item[j].billed <= Total[j] /\ item[j].status = ItemStatus(j, item[j].billed)
    BY <1>1, <2>1 DEF Books, Accounted
  <2>3. links' = links \ {link}
    BY DEF Cancelled
  <2>4. CASE j # i
    <3>1. LinesFor(j)' = LinesFor(j)
      BY <1>1, <2>3, <2>4 DEF LinesFor
    <3>2. item'[j] = item[j]
      BY <2>4, CancelledFacts
    <3> QED
      BY <2>2, <3>1, <3>2
  <2>5. CASE j = i
    <3>1. item[i].record = r /\ r \notin crossed'
      BY <2>1, <2>5, CancelledFacts
    <3>2. session[s].item[i] = item[i] /\ link \in links
      BY <1>1, <3>1, CancelledFacts
    <3>3. LinesFor(i)' = LinesFor(i) \ {link} /\ link \in LinesFor(i)
      BY <1>1, <2>3, <3>2 DEF LinesFor
    <3>4. \A l \in LinesFor(i) : l.quantity \in Nat
      <4>1. Total[i] \in Nat /\ \A l \in LinesFor(i) : l.quantity \in 1 .. Total[i]
        BY <1>1, DraftAssumption DEF LinesFor, Books, Columned, Line
      <4> QED
        BY <4>1
    <3>5. /\ IsFiniteSet(LinesFor(i)') /\ Invoiced(LinesFor(i)') \in Nat
          /\ Invoiced(LinesFor(i)) = link.quantity + Invoiced(LinesFor(i)')
      <4> HIDE DEF link
      <4> QED
        BY <2>2, <2>5, <3>3, <3>4, InvoicedShrinks
    <3> DEFINE n == Invoiced(LinesFor(i)')
    <3>6. link.quantity \in Nat /\ b = link.quantity + n /\ b <= Total[i] /\ n \in Nat /\ Total[i] \in Nat
      BY <2>2, <2>5, <3>2, <3>3, <3>4, <3>5, DraftAssumption
    <3> HIDE DEF b, n, link
    <3>7. AtLeastZero(b - link.quantity) = n /\ n <= Total[i]
      BY <3>6 DEF AtLeastZero
    <3>8. new = Bill(i, session[s].item[i], n)
      BY <3>7 DEF Cancelled, b, link
    <3>9. item'[i] = new
      BY <3>2, CancelledFacts, ItemFlush
    <3>10. item'[i].billed = n /\ item'[i].status = ItemStatus(i, n)
      BY <3>6, <3>8, <3>9, CancelledFacts, StatusTypes
    <3> QED
      BY <2>5, <3>5, <3>7, <3>10 DEF n
  <2> QED
    BY <2>4, <2>5
<1>4. Recalculated'
  <2> SUFFICES ASSUME NEW q \in Records, q \notin crossed', q \notin stale', ItemsOf(q)' # {}
               PROVE  record'[q].status = RecordStatus(RowsOf(q)')
    BY DEF Recalculated
  <2>1. q \notin crossed /\ ItemsOf(q)' = ItemsOf(q)
    BY CancelledFacts
  <2>2. CASE q = r
    <3>1. /\ session[s].row[r] = record[r]
          /\ session[s].of[r] = ItemsOf(r) \/ r \in stale
          /\ \A j \in Read(s) : item[j].record = r => session[s].item[j] = item[j]
      BY <2>2, CancelledFacts
    <3>2. session[s].of[r] = ItemsOf(r)
      BY <1>1, <2>2, <3>1 DEF Cancelled, Complete
    <3>3. Read(s) = ItemsOf(r) /\ item[i].record = r /\ session[s].item[i] = item[i]
      BY <1>1, <3>1, <3>2 DEF ItemsOf
    <3>4. rows = [session[s].item EXCEPT ![i] = new]
      BY DEF Cancelled
    <3>5. \A j \in ItemsOf(r) : rows[j] = item'[j]
      <4> SUFFICES ASSUME NEW j \in ItemsOf(r) PROVE rows[j] = item'[j]
        OBVIOUS
      <4>1. j \in Items /\ item[j].record = r /\ j \in DOMAIN session[s].item
        BY <3>3 DEF ItemsOf, Read
      <4>2. CASE j = i
        BY <3>3, <3>4, <4>1, <4>2, CancelledFacts, ItemFlush
      <4>3. CASE j # i
        BY <3>1, <3>3, <3>4, <4>1, <4>3, CancelledFacts
      <4> QED
        BY <4>2, <4>3
    <3>6. rows = RowsOf(r)'
      <4>1. DOMAIN rows = ItemsOf(r) /\ rows = [j \in DOMAIN rows |-> rows[j]]
        BY <3>3, <3>4 DEF Read
      <4>2. RowsOf(r)' = [j \in ItemsOf(r) |-> item'[j]]
        BY <2>1, <2>2 DEF RowsOf
      <4> QED
        BY <3>5, <4>1, <4>2
    <3>7. record'[r].status = RecordStatus(rows)
      <4>1. record[r] \in RecordRow /\ Settled(record[r], RecordStatus(rows)) \in RecordRow
        BY <1>1, StatusTypes DEF Books, Columned
      <4>2. record'[r] = Flush(record[r], record[r], Settled(record[r], RecordStatus(rows)))
        <5>1. record'[r] = Flush(record[r], session[s].row[r], Settled(session[s].row[r], RecordStatus(rows)))
          BY CancelledFacts
        <5>2. session[s].row[r] = record[r]
          BY <3>1
        <5> QED
          BY <5>1, <5>2
      <4>3. record'[r] = Settled(record[r], RecordStatus(rows))
        BY <4>1, <4>2, RecordFlush
      <4> QED
        BY <4>3 DEF Settled
    <3> QED
      BY <2>2, <3>6, <3>7
  <2>3. CASE q # r
    <3>1. q \notin stale /\ record'[q] = record[q]
      BY <2>3, CancelledFacts
    <3>2. \A j \in ItemsOf(q) : j \in Items /\ item[j].record = q /\ item'[j] = item[j]
      BY <2>1, <2>3, CancelledFacts DEF ItemsOf
    <3>3. RowsOf(q)' = RowsOf(q)
      BY <2>1, <3>2 DEF RowsOf
    <3> QED
      BY <1>1, <2>1, <3>1, <3>3 DEF Books, Recalculated
  <2> QED
    BY <2>2, <2>3
<1> QED
  BY <1>2, <1>3, <1>4 DEF Books

LEMMA WriteCancelLeaves ==
  ASSUME FiscalInv, BooksInv, NEW s \in Sessions, WriteCancel(s)
  PROVE  Books' /\ Mine(s)' /\ \A t \in Sessions \ {s} : Leaves(t)
<1>1. session[s].pc = "cancel"
  BY DEF WriteCancel
<1>2. PICK r \in Records, i \in Items : \E new, rows : Cancelled(s, r, i, new, rows)
  BY CancelIsCancelled
<1>3. PICK new, rows : Cancelled(s, r, i, new, rows)
  BY <1>2
<1>4. Books'
  BY <1>1, <1>3, CancelledBooks
<1>5. /\ session'[s] = Idle /\ \A t \in Sessions \ {s} : session'[t] = session[t]
      /\ UNCHANGED <<registered, lines, lock>> /\ links' = links \ {session[s].link} /\ i = session[s].link.item
  BY <1>3 DEF Cancelled, FiscalInv, Tables
<1>6. Mine(s)'
  <2>1. \A q \in Records : lock'[q] # s
    BY <1>1, <1>5 DEF BooksInv, Mine, Shape, Holding
  <2> QED
    BY <1>5, <2>1, IdleIsMine
<1>7. r \notin crossed' => record[r].version < record'[r].version
  <2> SUFFICES ASSUME r \notin crossed' PROVE record[r].version < record'[r].version
    OBVIOUS
  <2>1. session[s].row[r] = record[r] /\ record[r] \in RecordRow
    BY <1>1, <1>3, <2>1, CancelledFacts DEF BooksInv, Books, Columned
  <2>2. Settled(record[r], RecordStatus(rows)) \in RecordRow
    BY <2>1, StatusTypes
  <2>3. record'[r] = Settled(record[r], RecordStatus(rows))
    BY <1>1, <1>3, <2>1, <2>2, CancelledFacts, RecordFlush
  <2>4. record'[r].version = record[r].version + 1 /\ record[r].version \in Nat
    BY <2>1, <2>3 DEF Settled, RecordRow
  <2> QED
    BY <2>4
<1>8. ASSUME NEW t \in Sessions \ {s} PROVE Leaves(t)
  <2>1. Shape(t)
    BY DEF BooksInv, Mine
  <2>2. ASSUME NEW q \in Loaded(t) \ crossed', q # r PROVE Untouched(t, q)
    <3>1. q \in Records /\ q \notin crossed /\ record'[q] = record[q] /\ ItemsOf(q)' = ItemsOf(q)
      BY <1>1, <1>3, <2>1, <2>2, CancelledFacts DEF Shape
    <3>2. \A j \in Items : item'[j].record = q => item'[j] = item[j] /\ item[j].record = q /\ j # i
      BY <1>1, <1>3, <2>2, <3>1, CancelledFacts
    <3>3. \A j \in session[t].of[q] : j \in Items
      BY <2>1, <2>2 DEF Shape
    <3>4. q \in stale => q \in stale'
      BY <1>1, <1>3, <2>2, CancelledFacts
    <3>5. session[t].pc = "cancel" /\ item'[session[t].link.item].record = q =>
            item[session[t].link.item].record = q /\ session[t].link # session[s].link
      BY <1>5, <2>1, <3>2 DEF Shape
    <3> QED
      BY <1>5, <3>1, <3>2, <3>3, <3>4, <3>5 DEF Untouched
  <2>3. \A j \in Read(t) : item'[j].record = item[j].record
    BY <1>1, <1>3, <2>1, CancelledFacts DEF Shape
  <2>4. crossed \subseteq crossed'
    BY <1>1, <1>3, CancelledFacts
  <2>5. \A d \in Drafts : registered[d] <= registered'[d]
    BY <1>5 DEF FiscalInv, Tables
  <2> QED
    BY <1>5, <1>7, <2>2, <2>3, <2>4, <2>5 DEF Leaves
<1> QED
  BY <1>4, <1>6, <1>8

LEMMA HandedRow ==
  ASSUME NEW seen \in RecordRow, NEW new,
         new = [seen EXCEPT !.situation = "NF_RETIRADA_CLIENTE", !.version = @ + 1]
  PROVE  new \in RecordRow /\ new.status = seen.status /\ new.version = seen.version + 1
<1>1. DOMAIN seen = Columns /\ seen.status \in RecordStates /\ seen.version \in Nat
  BY DEF RecordRow, Columns
<1>2. /\ new.status = seen.status /\ new.situation = "NF_RETIRADA_CLIENTE" /\ new.version = seen.version + 1
      /\ DOMAIN new = Columns /\ new = [c \in Columns |-> new[c]]
  BY <1>1 DEF Columns
<1>3. new = [status |-> new.status, situation |-> new.situation, version |-> new.version]
  BY <1>2 DEF Columns
<1> QED
  BY <1>1, <1>2, <1>3 DEF RecordRow, Situations

LEMMA WriteWithdrawalLeaves ==
  ASSUME FiscalInv, BooksInv, NEW s \in Sessions, WriteWithdrawal(s)
  PROVE  Books' /\ Mine(s)' /\ \A t \in Sessions \ {s} : Leaves(t)
<1> DEFINE Handed(r) == [session[s].row[r] EXCEPT !.situation = "NF_RETIRADA_CLIENTE", !.version = @ + 1]
<1>1. PICK r \in Loaded(s) :
        /\ crossed' = Crossed(s, r)
        /\ record' = [record EXCEPT ![r] = Flush(record[r], session[s].row[r], Handed(r))]
  BY DEF WriteWithdrawal
<1>2. /\ session[s].pc = "withdraw" /\ session' = [session EXCEPT ![s] = Idle]
      /\ UNCHANGED <<item, links, registered, lines, lock, stale>>
  BY DEF WriteWithdrawal, counters
<1>3. Shape(s) /\ Books
  BY DEF BooksInv, Mine
<1> DEFINE now == record[r]
           seen == session[s].row[r]
           new == Handed(r)
<1>4. r \in Records /\ now \in RecordRow /\ seen \in RecordRow
  BY <1>3 DEF Shape, Books, Columned
<1>5. new \in RecordRow /\ new.status = seen.status /\ new.version = seen.version + 1
  <2> HIDE DEF seen
  <2>1. new = [seen EXCEPT !.situation = "NF_RETIRADA_CLIENTE", !.version = @ + 1]
    BY DEF seen
  <2> HIDE DEF new
  <2> QED
    BY <1>4, <2>1, HandedRow
<1>6. record' = [record EXCEPT ![r] = Flush(now, seen, new)]
  BY <1>1
<1> HIDE DEF Handed, now, seen, new
<1>7. record'[r] = Flush(now, seen, new) /\ \A q \in Records : q # r => record'[q] = record[q]
  BY <1>3, <1>4, <1>6 DEF Books, Columned
<1>8. record'[r] \in RecordRow /\ record'[r].status = record[r].status /\ record'[r].version = seen.version + 1
  <2>1. Flush(now, seen, new) \in RecordRow /\ Flush(now, seen, new).status = now.status
    BY <1>4, <1>5, RecordFlush
  <2>2. seen.version \in Nat /\ "version" \in DOMAIN now
    BY <1>4 DEF RecordRow
  <2>3. Flush(now, seen, new).version = new.version
    BY <1>5, <2>2 DEF Flush
  <2> QED
    BY <1>5, <1>7, <2>1, <2>3 DEF now
<1>9. crossed \subseteq crossed' /\ crossed' \subseteq Records
  BY <1>1, <1>3, <1>4 DEF Crossed, Books, Columned
<1>10. \A q : ItemsOf(q)' = ItemsOf(q) /\ RowsOf(q)' = RowsOf(q) /\ LinesFor(q)' = LinesFor(q)
  BY <1>2 DEF ItemsOf, RowsOf, LinesFor
<1>11. Books'
  <2>1. \A q \in Records : record'[q] \in RecordRow /\ record'[q].status = record[q].status
    BY <1>3, <1>7, <1>8 DEF Books, Columned
  <2>2. record' \in [Records -> RecordRow]
    <3>1. record' = [q \in Records |-> record'[q]]
      BY <1>3, <1>6 DEF Books, Columned
    <3> QED
      BY <2>1, <3>1
  <2>3. Columned'
    BY <1>2, <1>3, <1>9, <2>2 DEF Books, Columned, Line
  <2>4. Accounted'
    BY <1>2, <1>3, <1>9, <1>10 DEF Books, Accounted
  <2>5. Recalculated'
    BY <1>2, <1>3, <1>9, <1>10, <2>1 DEF Books, Recalculated
  <2> QED
    BY <2>3, <2>4, <2>5 DEF Books
<1>12. session'[s] = Idle /\ \A t \in Sessions \ {s} : session'[t] = session[t]
  BY <1>2 DEF FiscalInv, Tables
<1>13. Mine(s)'
  <2>1. \A q \in Records : lock'[q] # s
    BY <1>2, <1>3 DEF Shape, Holding
  <2> QED
    BY <1>12, <2>1, IdleIsMine
<1>14. r \notin crossed' => record[r].version < record'[r].version
  <2>1. r \notin crossed' => record[r].version = seen.version
    BY <1>1 DEF Crossed, seen
  <2>2. seen.version \in Nat
    BY <1>4 DEF RecordRow
  <2> QED
    BY <1>8, <2>1, <2>2
<1>15. ASSUME NEW t \in Sessions \ {s} PROVE Leaves(t)
  <2>1. Shape(t)
    BY DEF BooksInv, Mine
  <2>2. \A q \in Loaded(t) : q # r => Untouched(t, q)
    BY <1>2, <1>7, <1>10, <2>1 DEF Untouched, Shape
  <2>3. \A d \in Drafts : registered[d] <= registered'[d]
    BY <1>2 DEF FiscalInv, Tables
  <2> QED
    BY <1>2, <1>9, <1>12, <1>14, <2>2, <2>3 DEF Leaves
<1> QED
  BY <1>11, <1>13, <1>15

\* A move marks both records as stale, and as crossed when a session has read the
\* item: to every other session they are as they were, or newer.
LEMMA MoveItemLeaves ==
  ASSUME FiscalInv, BooksInv, NEW i \in Items, NEW q \in Records, MoveItem(i, q)
  PROVE  Books' /\ \A t \in Sessions : Leaves(t)
<1> DEFINE p == item[i].record
           Seen == \E s \in Sessions : i \in Read(s)
<1>1. /\ p # q /\ lock[q] = None /\ item' = [item EXCEPT ![i].record = q] /\ stale' = stale \cup {p, q}
      /\ UNCHANGED <<record, links, registered, lines, session, lock>>
  BY DEF MoveItem, Free
<1>2. crossed' = IF p \in crossed \/ Seen THEN crossed \cup {p, q} ELSE crossed
  BY DEF MoveItem, Read
<1>3. Books /\ p \in Records /\ item[i] \in ItemRow /\ DOMAIN item = Items
  BY DEF BooksInv, Books, Columned, ItemRow
<1>4. \A j \in Items : j # i => item'[j] = item[j]
  BY <1>1, <1>3
<1>5. /\ item'[i].record = q /\ item'[i].billed = item[i].billed /\ item'[i].status = item[i].status
      /\ item'[i] \in ItemRow
  <2>1. item'[i] = [item[i] EXCEPT !.record = q]
    BY <1>1, <1>3
  <2> QED
    BY <1>3, <2>1 DEF ItemRow
<1> HIDE DEF Seen
<1>6. crossed \subseteq crossed' /\ (q \notin crossed' => p \notin crossed /\ ~Seen)
      /\ (p \notin crossed' => p \notin crossed /\ ~Seen)
  BY <1>2
<1>7. \A r : r # p /\ r # q => ItemsOf(r)' = ItemsOf(r) /\ RowsOf(r)' = RowsOf(r)
  <2> SUFFICES ASSUME NEW r, r # p, r # q PROVE ItemsOf(r)' = ItemsOf(r) /\ RowsOf(r)' = RowsOf(r)
    OBVIOUS
  <2>1. ItemsOf(r)' = ItemsOf(r) /\ \A j \in ItemsOf(r) : j \in Items /\ j # i
    BY <1>4, <1>5 DEF ItemsOf
  <2>2. \A j \in ItemsOf(r) : item'[j] = item[j]
    BY <1>4, <2>1
  <2> QED
    BY <2>1, <2>2 DEF RowsOf
<1>8. Books'
  <2>1. Columned'
    <3>1. item' \in [Items -> ItemRow]
      <4>1. item' = [j \in Items |-> item'[j]] /\ \A j \in Items : item'[j] \in ItemRow
        BY <1>1, <1>3, <1>4, <1>5 DEF Books, Columned
      <4> QED
        BY <4>1
    <3>2. crossed' \subseteq Records /\ stale' \subseteq Records
      BY <1>1, <1>2, <1>3 DEF Books, Columned
    <3> QED
      BY <1>1, <1>3, <3>1, <3>2 DEF Books, Columned, Line
  <2>2. Accounted'
    <3> SUFFICES ASSUME NEW j \in Items, item'[j].record \notin crossed'
                 PROVE  /\ IsFiniteSet(LinesFor(j)') /\ item'[j].billed = Invoiced(LinesFor(j)')
                        /\ item'[j].billed <= Total[j] /\ item'[j].status = ItemStatus(j, item'[j].billed)
      BY DEF Accounted
    <3>1. item[j].record \notin crossed /\ item'[j].billed = item[j].billed /\ item'[j].status = item[j].status
      BY <1>4, <1>5, <1>6
    <3>2. LinesFor(j)' = LinesFor(j)
      BY <1>1 DEF LinesFor
    <3> QED
      BY <1>3, <3>1, <3>2 DEF Books, Accounted
  <2>3. Recalculated'
    BY <1>1, <1>3, <1>6, <1>7 DEF Books, Recalculated
  <2> QED
    BY <2>1, <2>2, <2>3 DEF Books
<1>9. ASSUME NEW t \in Sessions PROVE Leaves(t)
  <2>1. Shape(t)
    BY DEF BooksInv, Mine
  <2>2. i \in Read(t) => p \in crossed' /\ q \in crossed'
    BY <1>2 DEF Seen
  <2>3. ASSUME NEW r \in Loaded(t) \ crossed' PROVE Untouched(t, r)
    <3>1. ItemsOf(r)' = ItemsOf(r) \/ (r \in stale' /\ ~Holding(t))
      <4>1. CASE r # p /\ r # q
        BY <1>7, <4>1
      <4>2. CASE r = q
        BY <1>1, <4>2, HeldIsStored, DraftAssumption
      <4>3. CASE r = p
        <5>1. i \notin Read(t) /\ p \notin crossed /\ i \in ItemsOf(p)
          BY <1>6, <2>2, <2>3, <4>3 DEF ItemsOf
        <5>2. Holding(t) => session[t].of[p] = ItemsOf(p)
          BY <2>3, <4>3, <5>1, HeldIsStored
        <5>3. session[t].of[p] \subseteq Read(t)
          BY <2>1, <2>3, <4>3 DEF Shape
        <5> QED
          BY <1>1, <4>3, <5>1, <5>2, <5>3
      <4> QED
        BY <4>1, <4>2, <4>3
    <3>2. \A j \in Read(t) : j \in Items /\ (item'[j].record = r => item'[j] = item[j])
      BY <1>4, <1>5, <2>1, <2>2, <2>3 DEF Shape
    <3>3. session[t].of[r] \subseteq Read(t) /\ (session[t].pc = "cancel" => session[t].link.item \in Read(t))
      BY <2>1, <2>3 DEF Shape
    <3> QED
      BY <1>1, <3>1, <3>2, <3>3 DEF Untouched
  <2>4. \A j \in Read(t) : item'[j].record \in crossed' \/ item'[j].record = item[j].record
    BY <1>4, <1>5, <2>1, <2>2 DEF Shape
  <2>5. \A d \in Drafts : registered[d] <= registered'[d]
    BY <1>1 DEF FiscalInv, Tables
  <2> QED
    BY <1>1, <1>6, <2>3, <2>4, <2>5 DEF Leaves
<1> QED
  BY <1>8, <1>9

LEMMA SessionLeaves ==
  ASSUME FiscalInv, BooksInv, NEW s \in Sessions, SessionStep(s)
  PROVE  Books' /\ Mine(s)' /\ \A t \in Sessions \ {s} : Leaves(t)
<1>1. CASE \E d \in Drafts : Confirm(s, d)
  BY <1>1, ConfirmLeaves
<1>2. CASE \E link \in links : ReadCancel(s, link)
  BY <1>2, ReadCancelLeaves
<1>3. CASE \E r \in Records : ReadWithdrawal(s, r)
  BY <1>3, ReadWithdrawalLeaves
<1>4. CASE Find(s)
  BY <1>4, FindLeaves
<1>5. CASE Lock(s)
  BY <1>5, LockLeaves
<1>6. CASE Check(s)
  BY <1>6, CheckLeaves
<1>7. CASE Write(s)
  BY <1>7, WriteLeaves
<1>8. CASE WriteCancel(s)
  BY <1>8, WriteCancelLeaves
<1>9. CASE WriteWithdrawal(s)
  BY <1>9, WriteWithdrawalLeaves
<1>10. CASE DeadlockEnds(s)
  BY <1>10, RollbackLeaves DEF DeadlockEnds, BooksInv
<1> QED
  BY <1>1, <1>2, <1>3, <1>4, <1>5, <1>6, <1>7, <1>8, <1>9, <1>10 DEF SessionStep, Step

LEMMA BooksInit == Init => BooksInv
<1> SUFFICES ASSUME Init PROVE BooksInv
  OBVIOUS
<1>1. /\ record = [r \in Records |-> [status |-> "FALTA_EMITIR_NOTA_FISCAL", situation |-> "AGUARDANDO_NF", version |-> 1]]
      /\ item = [i \in Items |-> [record |-> Home[i], billed |-> 0, status |-> "PENDENTE"]]
      /\ links = {} /\ lines = [d \in Drafts |-> NoLines]
      /\ session = [s \in Sessions |-> Idle] /\ lock = [r \in Records |-> None] /\ crossed = {} /\ stale = {}
  BY DEF Init
<1>2. \A i \in Items : item[i].billed = 0 /\ item[i].status = "PENDENTE" /\ item[i].record = Home[i]
  BY <1>1
<1>2a. \A i \in Items : Home[i] \in Records /\ Total[i] \in Nat /\ Total[i] > 0
  BY DraftAssumption
<1>3. Columned
  <2>1. record \in [Records -> RecordRow]
    BY <1>1 DEF RecordRow, RecordStates, Situations
  <2>2. item \in [Items -> ItemRow]
    BY <1>1, <1>2a DEF ItemRow, ItemStates
  <2> QED
    BY <1>1, <2>1, <2>2 DEF Columned
<1>4. Accounted
  <2> SUFFICES ASSUME NEW i \in Items
               PROVE  /\ IsFiniteSet(LinesFor(i)) /\ item[i].billed = Invoiced(LinesFor(i))
                      /\ item[i].billed <= Total[i] /\ item[i].status = ItemStatus(i, item[i].billed)
    BY DEF Accounted
  <2>1. LinesFor(i) = {} /\ IsFiniteSet({})
    BY <1>1, FS_EmptySet DEF LinesFor
  <2>2. item[i].billed = 0 /\ item[i].status = "PENDENTE"
    BY <1>2
  <2>3. ItemStatus(i, 0) = "PENDENTE"
    BY <1>2a DEF ItemStatus
  <2>4. 0 <= Total[i]
    BY <1>2a
  <2> QED
    BY <2>1, <2>2, <2>3, <2>4, InvoicedNothing
<1>5. Recalculated
  <2> SUFFICES ASSUME NEW r \in Records, ItemsOf(r) # {} PROVE record[r].status = RecordStatus(RowsOf(r))
    BY DEF Recalculated
  <2>1. \A i \in ItemsOf(r) : i \in Items /\ RowsOf(r)[i] = item[i] /\ item[i].status = "PENDENTE"
    BY <1>2 DEF ItemsOf, RowsOf
  <2>2. DOMAIN RowsOf(r) = ItemsOf(r)
    BY DEF RowsOf
  <2>3. RecordStatus(RowsOf(r)) = "FALTA_EMITIR_NOTA_FISCAL"
    BY <2>1, <2>2 DEF RecordStatus
  <2> QED
    BY <1>1, <2>3
<1>6. ASSUME NEW s \in Sessions PROVE Mine(s)
  <2>1. session[s] = Idle /\ \A r \in Records : lock[r] # s
    BY <1>1, DraftAssumption
  <2>2. /\ session[s].pc = "idle" /\ session[s].row = <<>> /\ session[s].of = <<>> /\ session[s].item = <<>>
    BY <2>1 DEF Idle
  <2>3. Loaded(s) = {} /\ DOMAIN session[s].of = {} /\ Read(s) = {}
    BY <2>2 DEF Loaded, Read
  <2>4. Shape(s)
    BY <2>1, <2>2, <2>3 DEF Shape, Batch
  <2> QED
    BY <2>3, <2>4 DEF Mine, Known, Followed
<1> QED
  BY <1>3, <1>4, <1>5, <1>6 DEF BooksInv, Books

LEMMA BooksStep == FiscalInv /\ BooksInv /\ [Next]_vars => BooksInv'
<1> SUFFICES ASSUME FiscalInv, BooksInv, [Next]_vars PROVE BooksInv'
  OBVIOUS
<1>1. registered' \in [Drafts -> Nat] /\ \A r \in Records : record'[r].version \in Nat
  <2>1. Tables'
    BY FiscalInvStep DEF FiscalInv
  <2> QED
    BY <2>1 DEF Tables, Row
<1>2. \A t \in Sessions : Leaves(t) => Mine(t)'
  BY <1>1, LeftIsMine DEF BooksInv, Books
<1>3. ASSUME NEW s \in Sessions, SessionStep(s) PROVE BooksInv'
  BY <1>2, <1>3, SessionLeaves DEF BooksInv
<1>4. ASSUME NEW i \in Items, NEW r \in Records, MoveItem(i, r) PROVE BooksInv'
  BY <1>2, <1>4, MoveItemLeaves DEF BooksInv
<1>5. CASE UNCHANGED vars
  <2>1. Silent /\ lines' = lines /\ session' = session /\ lock' = lock
    BY <1>5 DEF vars, Silent
  <2>2. Books'
    BY <2>1, BooksStay DEF BooksInv, Books, Columned
  <2>3. \A t \in Sessions : Leaves(t)
    BY <2>1, SilentLeaves
  <2> QED
    BY <1>2, <2>2, <2>3 DEF BooksInv
<1> QED
  BY <1>3, <1>4, <1>5 DEF Next

LEMMA FiscalInvariants == Spec => [](FiscalInv /\ BooksInv)
<1>1. Init => FiscalInv /\ BooksInv
  BY FiscalInvInit, BooksInit
<1>2. FiscalInv /\ BooksInv /\ [Next]_vars => FiscalInv' /\ BooksInv'
  BY FiscalInvStep, BooksStep
<1> QED
  BY <1>1, <1>2, PTL DEF Spec

\* The rows have their columns' values, and a record is locked exactly by the
\* batch that has read it (SELECT ... FOR UPDATE in register_fiscal_batch).
THEOREM FiscalTypeCorrect == Spec => []TypeOK
<1>1. FiscalInv /\ BooksInv => TypeOK
  <2> SUFFICES ASSUME FiscalInv, BooksInv PROVE TypeOK
    OBVIOUS
  <2>1. /\ record \in [Records -> RecordRow] /\ item \in [Items -> ItemRow]
        /\ crossed \subseteq Records /\ stale \subseteq Records
    BY DEF BooksInv, Books, Columned
  <2>2. \A link \in links : link.quantity \in 1 .. Total[link.item]
    BY DEF BooksInv, Books, Columned, Line
  <2>3. registered \in [Drafts -> Nat]
    BY DEF FiscalInv, Tables
  <2>4. ASSUME NEW s \in Sessions, NEW r \in Records
        PROVE  lock[r] = s <=> r \in Loaded(s) /\ session[s].pc \in {"lock", "check", "write"}
    BY DEF BooksInv, Mine, Shape, FiscalInv, Good, Holds, Holding
  <2> QED
    BY <2>1, <2>2, <2>3, <2>4 DEF TypeOK
<1> QED
  BY <1>1, FiscalInvariants, PTL

\* Whatever batches, cancellations, withdrawals and moves interleave, an item
\* outside crossed records has billed what its active invoice lines say, and no
\* more than was ordered.
THEOREM BilledIsTheInvoices == Spec => []BilledIsInvoiced
<1>1. BooksInv => BilledIsInvoiced
  <2> SUFFICES ASSUME BooksInv, NEW i \in Items, item[i].record \notin crossed
               PROVE  /\ item[i].billed = MapThenSumSet(LAMBDA link : link.quantity, {link \in links : link.item = i})
                      /\ item[i].billed <= Total[i]
    BY DEF BilledIsInvoiced
  <2>1. item[i].billed = Invoiced(LinesFor(i)) /\ item[i].billed <= Total[i]
    BY DEF BooksInv, Books, Accounted
  <2> QED
    BY <2>1 DEF Invoiced, LinesFor
<1> QED
  BY <1>1, FiscalInvariants, PTL

\* The status of a record is that of its items from its last mutation until an
\* item moves in or out, and that of each item is the one its pieces call for.
THEOREM StatusFollowsItems == Spec => []StatusIsOfItems
<1>1. BooksInv => StatusIsOfItems
  <2> SUFFICES ASSUME BooksInv, NEW r \in Records, r \notin crossed, r \notin stale
               PROVE  /\ RowsOf(r) # <<>> => record[r].status = RecordStatus(RowsOf(r))
                      /\ \A i \in DOMAIN RowsOf(r) : RowsOf(r)[i].status = ItemStatus(i, RowsOf(r)[i].billed)
    BY DEF StatusIsOfItems, RowsOf
  <2>1. \A i \in ItemsOf(r) : RowsOf(r)[i] = item[i] /\ item[i].status = ItemStatus(i, item[i].billed)
    BY DEF BooksInv, Books, Accounted, RowsOf, ItemsOf
  <2>2. RowsOf(r) # <<>> => ItemsOf(r) # {}
    BY DEF RowsOf
  <2>3. DOMAIN RowsOf(r) = ItemsOf(r)
    BY DEF RowsOf
  <2> QED
    BY <2>1, <2>2, <2>3 DEF BooksInv, Books, Recalculated
<1> QED
  BY <1>1, FiscalInvariants, PTL
=============================================================================
