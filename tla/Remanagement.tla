---------------------------- MODULE Remanagement ----------------------------
(***************************************************************************)
(* Remanagement between proposals: ready pieces of source items go to the  *)
(* items of a destination proposal, and as many pieces the destination     *)
(* still has in the works go to the sources, the most advanced first, each *)
(* in the stage it is in. confirm_remanagement_batch plans the exchange,   *)
(* writes it, reads every stage again and refuses what does not balance;   *)
(* the pre-commit hook then derives the Expedition rows once more.         *)
(*                                                                         *)
(* Covered: the columns the piece counts depend on, for items of unsplit   *)
(* proposals that are all the same piece and are made internally, and the  *)
(* handlers of Production, Galvanization and Expedition that change them.  *)
(* Left out are areas, statuses and what they forbid (so handlers come in  *)
(* more orders than the program allows), the engine that works by rows     *)
(* (switched off), partial children and redefining a defined flow.         *)
(* Handlers commit one after the other; of a confirmation, the look-up     *)
(* before the locks and the transaction under them are separate steps.     *)
(***************************************************************************)
EXTENDS Integers, FiniteSets, FiniteSetsExt, Functions, SequencesExt

CONSTANTS
  Items,        \* ids of items; a proposal's items have consecutive ids
  Owner,        \* Owner[i]: the proposal of item i
  Qty,          \* Qty[i]: pieces ordered
  InitialFlow,  \* InitialFlow[i]: the galvanization flags i may be created with
  Loads,        \* ids of galvanization loads, the oldest the least (a bound)
  Operations,   \* operation ids of remanagements (a bound)
  Sessions      \* confirmations that may be under way at once (a bound)

ASSUME ItemsAssumption == IsFiniteSet(Items) /\ Items \subseteq Nat
ASSUME LoadsAssumption == IsFiniteSet(Loads) /\ Loads \subseteq Nat
ASSUME QtyAssumption == Qty \in [Items -> Nat \ {0}]

VARIABLES
  db,        \* the committed rows
  request,   \* request[s]: the confirmation session s has looked up and not found
  applied,   \* applied[o]: how often operation o was written
  returned   \* history: items that had pieces returned from Expedition to production

vars == <<db, request, applied, returned>>

Flows == {"SIM", "NAO", "INDEFINIDO"}
Item == [flow: Flows, produced: BOOLEAN, galvanized: BOOLEAN, delivered: BOOLEAN]
\* closed: the row's status is ENTREGUE. An item once delivered stays so, its row
\* is opened again when an exchange brings it more pieces.
ExpeditionItem == [avail: Nat, sep: Nat, del: Nat, rem: Nat, closed: BOOLEAN]
LoadItem == [sent: Nat, returned: Nat]
\* Sums over the records of remanagements an item took part in: obligations to
\* produce handed out, received and still pending, received and completed;
\* fabricated pieces received and handed out; ready pieces given and received.
Exchanged == [out: Nat, pending: Nat, completed: Nat, fabIn: Nat, fabOut: Nat,
              given: Nat, received: Nat]

Database == [item: [Items -> Item], exp: [Items -> ExpeditionItem],
             link: [Loads -> [Items -> LoadItem]], away: [Loads -> BOOLEAN],
             swap: [Items -> Exchanged]]

\* Rows are only written with positive quantities: zero stands for "no row".
NoRow == [avail |-> 0, sep |-> 0, del |-> 0, rem |-> 0, closed |-> FALSE]
NoLink == [sent |-> 0, returned |-> 0]
NoExchange == [out |-> 0, pending |-> 0, completed |-> 0, fabIn |-> 0, fabOut |-> 0,
               given |-> 0, received |-> 0]

AtLeastZero(n) == IF n < 0 THEN 0 ELSE n
MaxOf(m, n) == IF m < n THEN n ELSE m
MinOf(m, n) == IF m < n THEN m ELSE n

FlowDefined(d, i) == d.item[i].flow # "INDEFINIDO"
Galvanizes(d, i) == d.item[i].flow = "SIM"
Sent(d, i) == SumFunction([l \in Loads |-> d.link[l][i].sent])
Back(d, i) == SumFunction([l \in Loads |-> d.link[l][i].returned])

(***************************************************************************)
(* calculate_item_balance                                                  *)
(***************************************************************************)
ReadyAvailable(d, i) == AtLeastZero(d.exp[i].avail - d.exp[i].del - d.exp[i].rem)

DestinationNeed(d, i) == AtLeastZero(Qty[i] - d.exp[i].del - ReadyAvailable(d, i))

NativePending(d, i) ==
  LET e == d.exp[i]
      x == d.swap[i]
  IN  IF e.avail > 0 \/ e.rem > 0
      THEN AtLeastZero(Qty[i] - e.avail + e.rem + x.out - x.pending - x.completed)
      ELSE IF d.item[i].produced THEN 0 ELSE Qty[i]

ReallocatableProduction(d, i) == AtLeastZero(NativePending(d, i) - d.swap[i].out)
ProductionPending(d, i) == ReallocatableProduction(d, i) + d.swap[i].pending

\* Mutant: the pieces that go through galvanization are those ordered.
PipelineAsOrdered(d, i) == Qty[i]

\* galvanization_pipeline_quantity: what of the item passes through galvanization.
Pipeline(d, i) ==
  LET x == d.swap[i] IN Qty[i] - x.out + x.completed + x.fabIn - x.fabOut

(***************************************************************************)
(* compute_item_stages and the anomalies of the ledger                     *)
(***************************************************************************)
Unflowed(d, i) == ~FlowDefined(d, i) /\ Sent(d, i) = 0

Awaiting(d, i) ==
  LET x == d.swap[i] IN
  IF d.item[i].produced THEN Pipeline(d, i) - Sent(d, i)
  ELSE AtLeastZero(x.fabIn - x.fabOut + x.completed - Sent(d, i))

Stages(d, i) ==
  LET stage(produce, awaiting, galvanizer, undefined) ==
        [toProduce |-> produce, awaiting |-> awaiting, inGalvanization |-> galvanizer,
         undefined |-> undefined, ready |-> ReadyAvailable(d, i), delivered |-> d.exp[i].del]
      pending == d.swap[i].pending
  IN  CASE Unflowed(d, i) ->
             stage(pending, 0, 0, AtLeastZero(Qty[i] - d.exp[i].del - ReadyAvailable(d, i) - pending))
        [] ~Unflowed(d, i) /\ Galvanizes(d, i) ->
             stage((IF d.item[i].produced THEN 0 ELSE ReallocatableProduction(d, i)) + pending,
                   Awaiting(d, i), AtLeastZero(Sent(d, i) - Back(d, i)), 0)
        [] OTHER -> stage(ProductionPending(d, i), 0, 0, 0)

StageNames == {"toProduce", "awaiting", "inGalvanization", "undefined", "ready", "delivered"}

Gap(d, i) ==
  LET st == Stages(d, i) IN
  Qty[i] - st.undefined - st.toProduce - st.awaiting - st.inGalvanization - st.ready - st.delivered

(***************************************************************************)
(* derived_sync: the Expedition rows follow what was made and exchanged    *)
(***************************************************************************)
\* derived_expedition_available: what Expedition should have of the item.
DerivedAvailable(d, i) ==
  LET x == d.swap[i]
      native == IF d.item[i].produced THEN AtLeastZero(Qty[i] - x.out) ELSE 0
  IN  CASE Galvanizes(d, i) ->
             IF d.item[i].produced \/ x.completed + x.received > 0 THEN Back(d, i) + x.received ELSE 0
        [] d.item[i].flow = "NAO" -> native + x.completed + x.received
        [] OTHER -> x.received

ExpeditionSource(d, i) == IF d.item[i].delivered THEN 0 ELSE DerivedAvailable(d, i)

\* A source of zero leaves the row alone, even one that says otherwise.
ReconciledRow(d, i) ==
  IF ExpeditionSource(d, i) = 0 THEN d.exp[i]
  ELSE [d.exp[i] EXCEPT !.avail = MaxOf(ExpeditionSource(d, i), d.exp[i].del + d.exp[i].rem)]

EnsureExpeditionItems(d, S) ==
  [d EXCEPT !.exp = [i \in Items |-> IF i \in S THEN ReconciledRow(d, i) ELSE d.exp[i]]]

ItemsOf(P) == {i \in Items : Owner[i] \in P}

\* The hook reconciles all items of the proposals the transaction has touched.
Commit(d) ==
  db' = EnsureExpeditionItems(d, ItemsOf({Owner[i] : i \in {j \in Items :
          \/ d.item[j] # db.item[j] \/ d.exp[j] # db.exp[j] \/ d.swap[j] # db.swap[j]
          \/ \E l \in Loads : d.link[l][j] # db.link[l][j] /\ d.link[l][j].sent > 0}}))

\* An item none of whose pieces are accounted for wrongly.
Anomalies(d, i) ==
  LET e == d.exp[i]
      st == Stages(d, i)
      source == MaxOf(DerivedAvailable(d, i), e.del + e.rem)
      when(code, condition) == IF condition THEN {code} ELSE {}
  IN  when("NEGATIVE_STAGE", \E n \in StageNames : st[n] < 0) \cup
      when("STAGE_GAP", Gap(d, i) # 0) \cup
      when("OVERCOMMITTED", e.del + e.rem > e.avail) \cup
      when("EXPEDITION_AVAILABLE_MISMATCH", e # NoRow /\ source # e.avail) \cup
      when("EXPEDITION_ROW_MISSING", e = NoRow /\ source > 0) \cup
      when("REMANAGED_RECORD_MISMATCH", d.swap[i].given \notin {0, e.rem}) \cup
      when("GALVANIZATION_ON_SIMPLE_ITEM", d.item[i].flow = "NAO" /\ Sent(d, i) > 0)

(***************************************************************************)
(* Production, galvanization loads and Expedition                          *)
(***************************************************************************)
KeepRequests == UNCHANGED <<request, applied>>

\* update_production_item_flow of an item without a flow.
DefineFlow(i, flow) ==
  /\ ~FlowDefined(db, i)
  /\ ~db.item[i].delivered /\ db.exp[i].sep = 0 /\ ~db.item[i].produced
  /\ Commit([db EXCEPT !.item[i].flow = flow])
  /\ UNCHANGED returned /\ KeepRequests

\* complete_production_items: the item's own pieces and those it owes for
\* another; a galvanized item's replacements go on to galvanization.
Completed(d, i) ==
  LET x == d.swap[i] IN
  [d EXCEPT
     !.item[i].produced = @ \/ ReallocatableProduction(d, i) > 0,
     !.item[i].galvanized = @ /\ ~(Galvanizes(d, i) /\ x.pending > 0),
     !.exp[i].avail = IF Galvanizes(d, i) THEN @ ELSE @ + x.pending,
     !.swap[i].pending = 0,
     !.swap[i].completed = @ + x.pending]

CompleteProduction(i) ==
  /\ FlowDefined(db, i)
  /\ ProductionPending(db, i) > 0
  /\ Commit(Completed(db, i))
  /\ UNCHANGED returned /\ KeepRequests

Eligible(d, i) == Galvanizes(d, i) /\ d.item[i].produced /\ ~d.item[i].galvanized

\* _galvanization_available_quantity
AvailableForLoad(d, i, l) ==
  AtLeastZero(Pipeline(d, i) - SumFunction([m \in Loads \ {l} |-> d.link[m][i].sent]))

\* create and update_galvanization_load: load maps a draft's items to quantities.
ComposeLoad(l, load) ==
  /\ ~db.away[l]
  /\ \A i \in DOMAIN load : Eligible(db, i) /\ load[i] <= AvailableForLoad(db, i, l)
  /\ Commit([db EXCEPT !.link[l] = [i \in Items |->
       IF i \in DOMAIN load THEN [sent |-> load[i], returned |-> 0] ELSE NoLink]])
  /\ UNCHANGED returned /\ KeepRequests

ReleaseLoad(l) ==
  /\ ~db.away[l]
  /\ \E i \in Items : db.link[l][i].sent > 0
  /\ Commit([db EXCEPT !.away[l] = TRUE])
  /\ UNCHANGED returned /\ KeepRequests

\* _recalculate_galvanization_proposal_state, its part that marks the items.
MarkGalvanized(d, P) ==
  LET home == {i \in ItemsOf(P) : Galvanizes(d, i) /\ Back(d, i) >= Pipeline(d, i)}
      marked(i) == [d.item[i] EXCEPT !.galvanized = @ \/ i \in home]
  IN  [d EXCEPT !.item = [i \in Items |-> marked(i)]]

RegisterReturn(l, i, n) ==
  /\ db.away[l]
  /\ n <= db.link[l][i].sent - db.link[l][i].returned
  /\ Commit(MarkGalvanized([db EXCEPT !.link[l][i].returned = @ + n], {Owner[i]}))
  /\ UNCHANGED returned /\ KeepRequests

\* The row a handler of Expedition works on, after it has refreshed it.
Refreshed(i) == EnsureExpeditionItems(db, ItemsOf({Owner[i]}))

\* Mutant: pieces returned before may be returned again.
OutstandingWithReturned(e) == e.avail - e.del

Outstanding(e) == e.avail - e.del - e.rem

\* _active_expedition_items: by the row, whatever the item's own flag says.
Active(d, i) == ~d.exp[i].closed /\ Outstanding(d.exp[i]) > 0

Handed(e, n) == [e EXCEPT !.del = @ + n, !.closed = Outstanding(e) <= n]

SeparateItem(i, n) ==
  LET d == Refreshed(i) IN
  /\ Active(d, i)
  /\ n <= d.exp[i].avail - d.exp[i].sep - d.exp[i].rem
  /\ Commit([d EXCEPT !.exp[i].sep = @ + n])
  /\ UNCHANGED returned /\ KeepRequests

DeliverItem(i, n) ==
  LET d == Refreshed(i)
      e == Handed(d.exp[i], n)
  IN  /\ Active(d, i)
      /\ n <= d.exp[i].sep - d.exp[i].del
      /\ Commit([d EXCEPT !.exp[i] = e, !.item[i].delivered = @ \/ e.closed])
      /\ UNCHANGED returned /\ KeepRequests

\* return_expedition_items_to_production; no record tells these pieces from
\* those given away.
ReturnToProduction(i, n) ==
  LET d == Refreshed(i)
      e == d.exp[i]
  IN  /\ Active(d, i)
      /\ n <= Outstanding(e)
      /\ Commit([d EXCEPT !.exp[i].rem = @ + n, !.exp[i].sep = MinOf(@, e.avail - e.rem - n)])
      /\ returned' = returned \cup {i}
      /\ KeepRequests

(***************************************************************************)
(* The plan of a confirmation: q maps lines <<destination, source>> to the *)
(* ready pieces that go from the source item to the destination item       *)
(***************************************************************************)
\* stage_capacity: replacements owed to another item are not handed on.
Capacity(d, y) ==
  LET st == Stages(d, y) IN
  [inGalvanization |-> st.inGalvanization, awaiting |-> AtLeastZero(st.awaiting),
   toProduce |-> AtLeastZero(st.toProduce - d.swap[y].pending), undefined |-> st.undefined]

\* What source x takes of n pieces out of what is left: the most advanced
\* first, and fabricated ones only if x goes through galvanization itself.
Taken(d, x, n, left) ==
  LET fabricated(stage) == IF Galvanizes(d, x) THEN left[stage] ELSE 0
      g == MinOf(n, fabricated("inGalvanization"))
      a == MinOf(n - g, fabricated("awaiting"))
      p == MinOf(n - g - a, left.toProduce)
  IN  [inGalvanization |-> g, awaiting |-> a, toProduce |-> p,
       undefined |-> MinOf(n - g - a - p, left.undefined)]

Nothing == [inGalvanization |-> 0, awaiting |-> 0, toProduce |-> 0, undefined |-> 0]
Fabricated(t) == t.inGalvanization + t.awaiting
Owed(t) == t.toProduce + t.undefined
SumOf(t) == t.inGalvanization + t.awaiting + t.toProduce + t.undefined

DestinationsOf(q) == {line[1] : line \in DOMAIN q}
Involved(q) == DestinationsOf(q) \cup {line[2] : line \in DOMAIN q}

\* What is left of destination y's pieces once the lines of swaps have taken theirs.
Left(d, swaps, y) ==
  LET taken(n) == SumFunction([line \in {l \in DOMAIN swaps : l[1] = y} |-> swaps[line][n]])
  IN  [n \in DOMAIN Nothing |-> Capacity(d, y)[n] - taken(n)]

\* Lines are taken by source item, then by destination.
BySource(a, b) == a[2] < b[2] \/ (a[2] = b[2] /\ a[1] < b[1])
LastOf(L) == CHOOSE a \in L : \A b \in L : b = a \/ BySource(b, a)
InOrder(apply(_, _), base, L) == MapThenFoldSet(apply, base, LAMBDA line : line, LastOf, L)

\* plan_stage_swaps: a destination's sources in order, each from what the
\* earlier ones left.
StageSwaps(d, q) ==
  InOrder(LAMBDA line, swaps :
            [swaps EXCEPT ![line] = Taken(d, line[2], q[line], Left(d, swaps, line[1]))],
          [line \in DOMAIN q |-> Nothing], DOMAIN q)

\* build_compensation_plan and the stage swaps raise no error.
Plannable(d, q) ==
  /\ \A line \in DOMAIN q : FlowDefined(d, line[2]) /\ q[line] <= ReadyAvailable(d, line[2])
  /\ \A y \in DestinationsOf(q) :
       SumFunction([line \in {l \in DOMAIN q : l[1] = y} |-> q[line]]) <= DestinationNeed(d, y)
  /\ LET swaps == StageSwaps(d, q) IN \A line \in DOMAIN q : SumOf(swaps[line]) = q[line]

(***************************************************************************)
(* Writing it                                                              *)
(***************************************************************************)
\* Mutant: the youngest load gives up its pieces first, whole rows at a time.
MoveWholeRows(d, y, x, n) ==
  [d EXCEPT !.link = [l \in Loads |->
     IF n = 0 THEN d.link[l]
     ELSE [d.link[l] EXCEPT ![y] = NoLink, ![x].sent = @ + d.link[l][y].sent]]]

\* _apply_fabricated_transfer: n pieces at the galvanizer change hands within
\* the loads they are in, the oldest load first.
MoveInLoads(d, y, x, n) ==
  LET pending == [l \in Loads |-> d.link[l][y].sent - d.link[l][y].returned]
      older(l) == SumFunction([m \in {k \in Loads : k < l} |-> pending[m]])
      moved(l) == AtLeastZero(MinOf(pending[l], n - older(l)))
  IN  [d EXCEPT !.link = [l \in Loads |->
         [d.link[l] EXCEPT ![y].sent = @ - moved(l), ![x].sent = @ + moved(l)]]]

\* Mutant: pieces already separated stay so when they are given away.
GivenWhileSeparated(e, n) == [e EXCEPT !.rem = @ + n]

\* REMANEJADO once nothing is left, else the status it had.
GivenFrom(e, n) ==
  [e EXCEPT !.rem = @ + n, !.sep = MaxOf(e.del, MinOf(@, e.avail - e.rem - n)),
            !.closed = @ /\ Outstanding(e) > n]

\* Mutant: a row that was delivered stays so.
ReceivedAsItWas(e, n) == [e EXCEPT !.avail = @ + n]

\* Back to EM_SEPARACAO where it was delivered.
ReceivedBy(e, n) == [e EXCEPT !.avail = @ + n, !.closed = FALSE]

\* n ready pieces go against the pieces t.
GivesReady(x, n, t) ==
  [x EXCEPT !.given = @ + n, !.pending = @ + Owed(t), !.fabIn = @ + Fabricated(t)]
ReceivesReady(x, n, t) ==
  [x EXCEPT !.received = @ + n, !.out = @ + Owed(t), !.fabOut = @ + Fabricated(t)]

\* One line of the plan: n ready pieces of x to y, pieces t of y to x.
ApplyLine(d, y, x, n, t) ==
  [MoveInLoads(d, y, x, t.inGalvanization) EXCEPT
     !.swap[x] = GivesReady(@, n, t),
     !.swap[y] = ReceivesReady(@, n, t),
     !.item[x].galvanized = @ /\ Fabricated(t) = 0,
     !.exp[x] = GivenFrom(@, n),
     !.exp[y] = ReceivedBy(@, n)]

Written(d, q) ==
  LET swaps == StageSwaps(d, q)
      lines == InOrder(LAMBDA line, e : ApplyLine(e, line[1], line[2], q[line], swaps[line]), d, DOMAIN q)
      fabricated == {line \in DOMAIN q : Fabricated(swaps[line]) > 0}
  IN  MarkGalvanized(lines, {Owner[line[2]] : line \in fabricated})

\* What the plan says stage n of item i changes by.
PlannedChange(swaps, q, i, n) ==
  LET asSource == {line \in DOMAIN q : line[2] = i}
      asDestination == {line \in DOMAIN q : line[1] = i}
      total(S, f(_)) == SumFunction([line \in S |-> f(line)])
      moved(line) == swaps[line][n]
      gained(line) == IF n = "toProduce" THEN moved(line) + swaps[line].undefined
                      ELSE IF n = "undefined" THEN 0 ELSE moved(line)
      ready(line) == q[line]
  IN  CASE n = "delivered" -> 0
        [] n = "ready" -> total(asDestination, ready) - total(asSource, ready)
        [] OTHER -> total(asSource, gained) - total(asDestination, moved)

\* Mutant: what was written is not compared with the plan.
NotCompared(d, q) == TRUE

\* verify_swap_conservation; equal stages imply the equal gaps and totals it
\* looks at too.
Conserves(d, q) ==
  LET after == Written(d, q)
      swaps == StageSwaps(d, q)
  IN  \A i \in Involved(q) :
        LET was == Stages(d, i)
            is == Stages(after, i)
        IN  \A n \in StageNames : is[n] = was[n] + PlannedChange(swaps, q, i, n)

(***************************************************************************)
(* confirm_remanagement_batch                                              *)
(***************************************************************************)
NoRequest == [operation |-> "NENHUMA", lines |-> <<>>]

Lines == {line \in Items \X Items : Owner[line[1]] # Owner[line[2]]}

\* What a payload may ask for: lines with destinations in one proposal.
Requests ==
  UNION {[L -> 1 .. Max(Range(Qty))] :
         L \in {S \in (SUBSET Lines) \ {{}} : \A a, b \in S : Owner[a[1]] = Owner[b[1]]}}

\* The wizard confirms what its review could plan.
Reviewed == {q \in Requests : Plannable(db, q)}

\* A retry after a lost answer repeats operation and payload, possibly while
\* the first request is still under way.
LookUp(s, o, q) ==
  /\ request[s] = NoRequest
  /\ applied[o] = 0
  /\ \A r \in Sessions : request[r].operation = o => request[r].lines = q
  /\ request' = [request EXCEPT ![s] = [operation |-> o, lines |-> q]]
  /\ UNCHANGED <<db, applied, returned>>

\* Mutant: the operation is not looked up again once the rows are locked.
NotLookedUpAgain(o) == FALSE

AlreadyApplied(o) == applied[o] > 0

Answer(s) == request' = [request EXCEPT ![s] = NoRequest]

Replay(s) ==
  /\ request[s] # NoRequest
  /\ AlreadyApplied(request[s].operation)
  /\ Answer(s)
  /\ UNCHANGED <<db, applied, returned>>

ConfirmRemanagement(s) ==
  LET q == request[s].lines
      o == request[s].operation
  IN  /\ request[s] # NoRequest
      /\ ~AlreadyApplied(o)
      /\ Plannable(db, q)
      /\ Conserves(db, q)
      /\ Commit(Written(db, q))
      /\ applied' = [applied EXCEPT ![o] = @ + 1]
      /\ Answer(s)
      /\ UNCHANGED returned

\* An error of the plan or of the verification rolls everything back.
RefuseRemanagement(s) ==
  LET q == request[s].lines IN
  /\ request[s] # NoRequest
  /\ ~AlreadyApplied(request[s].operation)
  /\ ~Plannable(db, q) \/ ~Conserves(db, q)
  /\ Answer(s)
  /\ UNCHANGED <<db, applied, returned>>

(***************************************************************************)
(* Specification                                                           *)
(***************************************************************************)
Init ==
  /\ \E flow \in [Items -> Flows] :
       /\ \A i \in Items : flow[i] \in InitialFlow[i]
       /\ db = [item |-> [i \in Items |-> [flow |-> flow[i], produced |-> FALSE,
                                           galvanized |-> FALSE, delivered |-> FALSE]],
                exp |-> [i \in Items |-> NoRow],
                link |-> [l \in Loads |-> [i \in Items |-> NoLink]],
                away |-> [l \in Loads |-> FALSE],
                swap |-> [i \in Items |-> NoExchange]]
  /\ request = [s \in Sessions |-> NoRequest]
  /\ applied = [o \in Operations |-> 0]
  /\ returned = {}

ItemStep(i) ==
  \/ \E flow \in {"SIM", "NAO"} : DefineFlow(i, flow)
  \/ CompleteProduction(i)
  \/ \E n \in 1 .. Qty[i] : SeparateItem(i, n) \/ DeliverItem(i, n) \/ ReturnToProduction(i, n)

LoadStep(l) ==
  \/ \E S \in SUBSET {i \in Items : Eligible(db, i)} :
       \E load \in [S -> 1 .. Max(Range(Qty))] : ComposeLoad(l, load)
  \/ ReleaseLoad(l)
  \/ \E i \in Items : \E n \in 1 .. Qty[i] : RegisterReturn(l, i, n)

RemanagementStep(s) ==
  \/ Replay(s)
  \/ ConfirmRemanagement(s)
  \/ RefuseRemanagement(s)

Next ==
  \/ \E i \in Items : ItemStep(i)
  \/ \E l \in Loads : LoadStep(l)
  \/ \E q \in Reviewed : \E s \in Sessions, o \in Operations : LookUp(s, o, q)
  \/ \E s \in Sessions : RemanagementStep(s)

Spec == Init /\ [][Next]_vars

(***************************************************************************)
(* Properties                                                              *)
(***************************************************************************)
\* The rows have their columns' values; in particular no quantity is negative.
TypeOK ==
  /\ db \in Database
  /\ applied \in [Operations -> Nat]
  /\ returned \subseteq Items

\* An operation is written once, however its retries and their look-ups
\* interleave with the transaction that writes it.
AppliedOnce == \A o \in Operations : applied[o] <= 1

\* No item is delivered beyond its order, and together the items are not
\* delivered more pieces than galvanizer and production have handed to
\* Expedition: no piece given away is also delivered where it came from.
Arrived(i) ==
  LET x == db.swap[i] IN
  CASE Galvanizes(db, i) -> Back(db, i)
    [] db.item[i].flow = "NAO" -> x.completed + IF db.item[i].produced THEN Qty[i] - x.out ELSE 0
    [] OTHER -> 0

DeliveredOnce ==
  /\ \A i \in Items : db.exp[i].del <= Qty[i]
  /\ SumFunction([i \in Items |-> db.exp[i].del]) <= SumFunction([i \in Items |-> Arrived(i)])

\* The ledger of an open item raises no anomaly, through every exchange.
LedgerCloses ==
  \A i \in Items \ returned : ~db.item[i].delivered => Anomalies(db, i) = {}

\* A request that names no source item twice and can be planned also balances
\* once written: the verification refuses no honest exchange. Excepted are
\* galvanized sources not produced themselves that would receive fabricated
\* pieces: calculate_item_balance does not take those off what they still owe.
Honest(d, q) ==
  /\ \A a, b \in DOMAIN q : a[2] = b[2] => a = b
  /\ \A line \in DOMAIN q :
       LET t == StageSwaps(d, q)[line] IN
       Fabricated(t) > 0 => d.item[line[2]].produced

HonestPlansBalance ==
  \A q \in Reviewed :
    Honest(db, q) /\ Involved(q) \cap returned = {} => Conserves(db, q)

\* REMANEJAMENTO_PLANO_LOGISTICA.md, the golden rule: a remanagement never
\* changes the number of pieces nor the stage of any. The commit, hook
\* included, keeps the pieces of the involved items in each stage.
TotalsOf(d, S) ==
  LET st == [i \in S |-> Stages(d, i)]
      total(n) == SumFunction([i \in S |-> st[i][n]]) IN
  <<total("ready"), total("delivered"), total("inGalvanization"), total("awaiting"),
    total("toProduce") + total("undefined")>>

Exchange(s) == \E o \in Operations : request[s].operation = o /\ applied'[o] # applied[o]

OnlyOwnersChange ==
  [][\A s \in Sessions :
       Exchange(s) /\ request'[s] = NoRequest =>
         TotalsOf(db', Involved(request[s].lines)) = TotalsOf(db, Involved(request[s].lines))]_vars

\* The same as far as the program keeps it: none of the items involved has had
\* pieces returned from Expedition to production.
OnlyOwnersChangeOfMadeItems ==
  [][\A s \in Sessions :
       Exchange(s) /\ request'[s] = NoRequest /\ Involved(request[s].lines) \cap returned = {} =>
         TotalsOf(db', Involved(request[s].lines)) = TotalsOf(db, Involved(request[s].lines))]_vars

\* What a destination receives can leave: once the exchange is committed, hook
\* included, its row is in the queue of Expedition, also where its item had been
\* delivered before. An item with pieces returned to production is excepted: the
\* hook may take what it received off its row again.
ReceivedCanLeave ==
  [][\A s \in Sessions :
       Exchange(s) /\ request'[s] = NoRequest =>
         \A y \in DestinationsOf(request[s].lines) \ returned : Active(db', y)]_vars
=============================================================================
