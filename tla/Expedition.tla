----------------------------- MODULE Expedition -----------------------------
(***************************************************************************)
(* Expedition: what is available of each item is separated, delivered or   *)
(* returned to production, and the proposal's state follows the rows. No   *)
(* handler looks at the proposal's area.                                   *)
(***************************************************************************)
EXTENDS ProposalFamily

Outstanding(e) == e.avail - e.del - e.rem

\* _active_expedition_items. The row's status ENTREGUE is set together with
\* the item's delivered flag.
ActiveRows(d, p) ==
  {i \in ItemsOf(d, p) : ~d.item[i].delivered /\ Outstanding(d.exp[i]) > 0}

\* _recalculate_expedition_proposal_state
RecalculateExpedition(d, p) ==
  LET r == d.proposal[p]
      relevant == {i \in ItemsOf(d, p) : d.exp[i].avail > 0}
      remaining == {i \in relevant : Outstanding(d.exp[i]) > 0}
      delivered == \E i \in relevant : d.exp[i].del > 0
      separated == \E i \in relevant : d.exp[i].sep > 0
      keep == r.area = "PRODUCAO" /\ \E i \in InternalItems(d, p) : ~d.item[i].produced
      move(area, status) ==
        [r EXCEPT !.area = IF keep THEN @ ELSE area, !.status = status,
                  !.shipping = status, !.completed = status = "ENTREGUE"]
      row ==
        CASE remaining = {} /\ ~r.pending /\ \A i \in ItemsOf(d, p) : d.item[i].delivered ->
               move("FINALIZADO", "ENTREGUE")
          [] OTHER ->
               IF delivered THEN move("EXPEDICAO", "ENTREGUE_PARCIAL")
               ELSE IF remaining # {} /\ \A i \in remaining : d.exp[i].sep > d.exp[i].del
               THEN move("EXPEDICAO", "SEPARADO")
               ELSE IF r.shipping = "AGUARDANDO_SEPARACAO_PARCIAL" /\ separated
               THEN move("EXPEDICAO", "SEPARADO_COM_PENDENCIA")
               ELSE IF separated THEN move("EXPEDICAO", "SEPARACAO_INICIADA")
               ELSE move("EXPEDICAO", "EM_SEPARACAO")
  IN  IF relevant = {} THEN d ELSE [d EXCEPT !.proposal[p] = row]

\* The handlers refresh the rows of the proposal before they look at them.
Refreshed(p) == EnsureExpeditionItems(db, {p})

\* The rows of a payload and their quantities, each within its row's limit.
Selections(d, p, limit) ==
  UNION {{q \in [S -> 1 .. Max({Qty[i] : i \in Items})] : \A i \in S : q[i] <= limit[i]}
         : S \in (SUBSET ActiveRows(d, p)) \ {{}}}

ChangeRows(d, q, change(_, _)) ==
  [d EXCEPT !.exp = [i \in Items |-> IF i \in DOMAIN q THEN change(@[i], q[i]) ELSE @[i]]]

(***************************************************************************)
(* start_expedition_separation                                             *)
(***************************************************************************)
StartSeparation(p) ==
  /\ Movable(db, p)
  /\ ActiveRows(Refreshed(p), p) # {}
  /\ Commit([Refreshed(p) EXCEPT !.proposal[p].area = "EXPEDICAO",
                                 !.proposal[p].status = "SEPARACAO_INICIADA",
                                 !.proposal[p].shipping = "SEPARACAO_INICIADA"])
  /\ UNCHANGED reflowed

(***************************************************************************)
(* separate_expedition_items                                               *)
(***************************************************************************)
\* Mutant: pieces returned to production can be separated again.
SeparationIgnoresReturned(d) == [i \in Items |-> d.exp[i].avail - d.exp[i].sep]

SeparationLimit(d) == [i \in Items |-> d.exp[i].avail - d.exp[i].sep - d.exp[i].rem]

SeparateItems(p) ==
  /\ Movable(db, p)
  /\ \E q \in Selections(Refreshed(p), p, SeparationLimit(Refreshed(p))) :
       LET d == ChangeRows(Refreshed(p), q, LAMBDA e, n : [e EXCEPT !.sep = @ + n])
       IN  Commit(RebornParent(RecalculateExpedition(d, p), p))
  /\ UNCHANGED reflowed

(***************************************************************************)
(* deliver_expedition_items: a row with nothing outstanding closes its item *)
(***************************************************************************)
DeliveryLimit(d) == [i \in Items |-> d.exp[i].sep - d.exp[i].del]

CloseDelivered(d, S) ==
  [d EXCEPT !.item = [i \in Items |->
     IF i \in S /\ Outstanding(d.exp[i]) <= 0 THEN [@[i] EXCEPT !.delivered = TRUE] ELSE @[i]]]

DeliverItems(p) ==
  /\ Movable(db, p)
  /\ \E q \in Selections(Refreshed(p), p, DeliveryLimit(Refreshed(p))) :
       LET d == CloseDelivered(ChangeRows(Refreshed(p), q, LAMBDA e, n : [e EXCEPT !.del = @ + n]), DOMAIN q)
       IN  Commit(RebornParent(RecalculateExpedition(d, p), p))
  /\ UNCHANGED reflowed

(***************************************************************************)
(* return_expedition_items_to_production                                   *)
(***************************************************************************)
\* Mutant: the separated quantity gives way even when there is room.
RemanageTakesSeparated(e, n) == [e EXCEPT !.rem = @ + n, !.sep = @ - n]

RemanageRow(e, n) ==
  [e EXCEPT !.rem = @ + n, !.sep = MinOf(@, e.avail - e.rem - n)]

RemanageLimit(d) == [i \in Items |-> Outstanding(d.exp[i])]

ReturnToProduction(p) ==
  /\ Movable(db, p)
  /\ \E q \in Selections(Refreshed(p), p, RemanageLimit(Refreshed(p))) :
       LET d == ChangeRows(Refreshed(p), q, RemanageRow)
           partly == \E i \in ActiveRows(d, p) : d.exp[i].del > 0
       IN  Commit([d EXCEPT
             !.proposal[p].area = "PRODUCAO",
             !.proposal[p].status = "ITEM_PENDENTE_FABRICACAO",
             !.proposal[p].production = "ITEM_PENDENTE_FABRICACAO",
             !.proposal[p].shipping = IF partly THEN "ENTREGUE_PARCIAL" ELSE "EM_SEPARACAO",
             !.proposal[p].pending = TRUE])
  /\ UNCHANGED reflowed
=============================================================================
