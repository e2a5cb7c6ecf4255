---------------------------- MODULE ProposalFlow ----------------------------
(***************************************************************************)
(* The life of one family of proposals: Production, Galvanization and      *)
(* Expedition acting on the same rows, with cancellation at any point.     *)
(* This module composes the handlers and states what must hold of them.    *)
(***************************************************************************)
EXTENDS Production, Galvanization, Expedition, StageLedger

NewMother == [parent |-> NoParent, active |-> TRUE, area |-> "CONTROLE_GERAL",
              status |-> "AGUARDANDO_LIBERACAO", production |-> "NENHUM", shipping |-> "NENHUM",
              pending |-> FALSE, completed |-> FALSE, cancelled |-> FALSE]
NotCreated == [NewMother EXCEPT !.active = FALSE]

NewItem(flow) == [owner |-> Mother, produce |-> flow[1], galvanize |-> flow[2],
                  produced |-> flow[1] = "NAO", galvanized |-> FALSE, delivered |-> FALSE]

\* A proposal is committed with its items, so its Expedition rows are current.
Init ==
  /\ \E flow \in [Items -> Flags \X Flags] :
       /\ \A i \in Items : flow[i] \in InitialFlow[i]
       /\ db = EnsureExpeditionItems(
                 [proposal |-> [p \in Proposals |-> IF p = Mother THEN NewMother ELSE NotCreated],
                  created |-> Mother,
                  item |-> [i \in Items |-> NewItem(flow[i])],
                  exp |-> [i \in Items |-> NoRow],
                  load |-> [l \in Loads |-> NoLoad],
                  link |-> [l \in Loads |-> [i \in Items |-> NoLink]]],
                 {Mother})
  /\ reflowed = {}

(***************************************************************************)
(* cancel_proposal. It looks neither at the loads nor at the family.       *)
(***************************************************************************)
Concluded(d, p) ==
  LET r == d.proposal[p] IN
  r.completed \/ "ENTREGUE" \in {r.status, r.shipping} \/ r.area = "FINALIZADO"

Cancel(p) ==
  /\ Movable(db, p)
  /\ ~Concluded(db, p)
  /\ Commit([db EXCEPT !.proposal[p].area = "CONTROLE_GERAL",
                       !.proposal[p].status = "CANCELADA",
                       !.proposal[p].cancelled = TRUE])
  /\ UNCHANGED reflowed

ProposalStep(p) ==
  \/ ReleaseToProduction(p)
  \/ StartProduction(p)
  \/ PauseProduction(p)
  \/ ResumeProduction(p)
  \/ UpdateItemFlow(p)
  \/ CompleteProductionItems(p)
  \/ CompleteProductionWithNothingPending(p)
  \/ StartSeparation(p)
  \/ SeparateItems(p)
  \/ DeliverItems(p)
  \/ ReturnToProduction(p)
  \/ Cancel(p)

LoadStep(l) ==
  \/ CreateGalvanizationLoad(l)
  \/ UpdateGalvanizationLoad(l)
  \/ ReleaseGalvanizationLoad(l)
  \/ RegisterGalvanizationReturn(l)
  \/ CloseGalvanizationLoad(l)

Next ==
  \/ \E p \in Proposals : ProposalStep(p)
  \/ \E l \in Loads : LoadStep(l)

Spec == Init /\ [][Next]_vars

(***************************************************************************)
(* Invariants                                                              *)
(***************************************************************************)
\* The rows have their columns' values; in particular no quantity is negative.
TypeOK ==
  /\ db \in Database
  /\ reflowed \subseteq Items

\* derived_sync: every transaction leaves the Expedition rows as the sources
\* demand, so the reconciliation at start-up has nothing to do, whichever
\* handlers ran and however the family changed shape in between.
RowsCurrent ==
  EnsureExpeditionItems(db, {p \in Proposals : Operational(db, p)}) = db

\* What has come out of production and, if needed, back from the galvanizer.
Supply(i) == IF db.item[i].galvanize = "SIM" THEN ReturnedQuantity(db, i) ELSE Qty[i]

\* Of every item no more is delivered than was separated, no more separated or
\* returned to production than available, no more available than was made.
QuantitiesNest ==
  \A i \in Items :
    LET e == db.exp[i] IN
    /\ e.del <= e.sep
    /\ i \notin reflowed => e.sep + e.rem <= e.avail /\ e.avail <= Supply(i)

\* Across all loads no piece is sent twice, none comes back that was not sent,
\* nothing comes back from a load that has not left, and a closed load is whole.
LoadsConserve ==
  /\ \A i \in Items : SentQuantity(db, i) <= Qty[i]
  /\ \A l \in Loads, i \in Items :
       LET x == db.link[l][i] IN
       /\ x.returned <= x.sent
       /\ db.load[l].status \notin {"RETORNO_PARCIAL", "RETORNADA_GALVANIZACAO"} => x.returned = 0
       /\ db.load[l].closed => x.returned = x.sent

\* An item is marked galvanized exactly when all its pieces are back, except
\* that a cancelled proposal's items are no longer marked.
GalvanizedMeansHome ==
  \A i \in Items :
    LET home == ReturnedQuantity(db, i) = Qty[i] IN
    /\ db.item[i].galvanized => home /\ db.item[i].galvanize = "SIM"
    /\ home /\ ~Cancelled(db, db.item[i].owner) => db.item[i].galvanized

\* The stage ledger of an open item raises no anomaly: its stages add up to
\* the order and the Expedition row agrees with the sources. Excepted are items
\* with pieces returned to production and items whose flow was redefined late.
LedgerCloses ==
  \A i \in Items \ reflowed :
    Operational(db, db.item[i].owner) /\ ~db.item[i].delivered /\ db.exp[i].rem = 0
      => Anomalies(db, i) = {}

\* Splitting, merging and rebirth lose nothing: an item belongs to a proposal
\* that is still active, and an active proposal has items or had children.
\* Excepted is a child merged away after it was split itself: its own children
\* may still converge and be reborn into it.
NothingOrphaned ==
  /\ \A i \in Items :
       LET p == db.item[i].owner IN
       /\ p <= db.created
       /\ db.proposal[p].active \/ (db.proposal[p].parent # NoParent /\ Children(db, p) # {})
  /\ \A p \in 1 .. db.created :
       db.proposal[p].active => ItemsOf(db, p) # {} \/ Children(db, p) # {}

\* A proposal filed as FINALIZADO is completed, owes nothing to production and
\* has every item it owns delivered, merged-in items included.
FinishedMeansDelivered ==
  \A p \in Proposals :
    db.proposal[p].area = "FINALIZADO" =>
      /\ db.proposal[p].completed
      /\ ~db.proposal[p].pending
      /\ \A i \in ItemsOf(db, p) : db.item[i].delivered

(***************************************************************************)
(* Action properties                                                       *)
(***************************************************************************)
\* Cancellation is terminal: a cancelled proposal without open children keeps
\* its state, its items and their Expedition rows, whatever its loads do.
CancelledStaysPut ==
  [][\A p \in Proposals :
       Cancelled(db, p) /\ OpenChildren(db, p) = {} =>
         /\ db'.proposal[p] = db.proposal[p]
         /\ ItemsOf(db', p) = ItemsOf(db, p)
         /\ \A i \in ItemsOf(db, p) : db'.item[i] = db.item[i] /\ db'.exp[i] = db.exp[i]]_vars

\* History is kept: pieces delivered, returned to production or returned by the
\* galvanizer stay recorded, and a delivered, galvanized or (flow unchanged)
\* produced item stays so through every split, merge and rebirth.
HistoryIsKept ==
  [][\A i \in Items :
       /\ db.exp[i].del <= db'.exp[i].del /\ db.exp[i].rem <= db'.exp[i].rem
       /\ ReturnedQuantity(db, i) <= ReturnedQuantity(db', i)
       /\ db.item[i].delivered => db'.item[i].delivered
       /\ db.item[i].galvanized => db'.item[i].galvanized
       /\ db.item[i].produced /\ db.item[i].produce = db'.item[i].produce => db'.item[i].produced]_vars

(***************************************************************************)
(* What comments, messages and documents say and the code does not keep    *)
(***************************************************************************)
\* API_EXPEDITION_OFFICIAL_FLOW.md: a partial delivery keeps the proposal open;
\* so a completed proposal has no piece of its items left to deliver.
CompletedIsWhole ==
  \A p \in Proposals :
    db.proposal[p].completed => \A i \in ItemsOf(db, p) : db.exp[i].del + db.exp[i].rem = Qty[i]

\* _ensure_proposal_not_cancelled: a cancelled proposal receives no movement;
\* so no item of a live proposal ends up in a cancelled one.
NoWorkMovesToCancelled ==
  [][\A i \in Items :
       db.item[i].owner # db'.item[i].owner => ~Cancelled(db', db'.item[i].owner)]_vars
=============================================================================
