----------------------------- MODULE Production -----------------------------
(***************************************************************************)
(* Production: the release of a proposal, the start, pause and resumption  *)
(* of its fabrication, the definition of the flow of its items, and the    *)
(* completion of items, which may split them off into partial children.    *)
(***************************************************************************)
EXTENDS ProposalFamily

\* Where a set of produced items goes next (_finalize_production_destination).
FinalizeDestination(d, p, S) ==
  LET galvanize == \E i \in S : d.item[i].galvanize = "SIM" /\ d.item[i].produced
      r == [d.proposal[p] EXCEPT !.production = "FINALIZADO", !.pending = FALSE]
  IN  [d EXCEPT !.proposal[p] =
         IF galvanize
         THEN [r EXCEPT !.area = "GALVANIZACAO", !.status = "AGUARDANDO_ENVIO", !.shipping = "NENHUM"]
         ELSE [r EXCEPT !.area = "EXPEDICAO", !.status = "EM_SEPARACAO", !.shipping = "EM_SEPARACAO"]]

RecalculateProduction(d, p) ==
  LET made == {i \in InternalItems(d, p) : d.item[i].produced}
      owed == InternalItems(d, p) \ made
  IN  CASE d.proposal[p].production = "FINALIZADO" \/ UndefinedFlowItems(d, p) # {} -> d
        [] OTHER ->
             IF owed = {} THEN FinalizeDestination(d, p, ItemsOf(d, p))
             ELSE IF made # {}
             THEN [d EXCEPT !.proposal[p].production = "FINALIZADO_PARCIAL",
                            !.proposal[p].status = "FINALIZADO_PARCIAL",
                            !.proposal[p].pending = TRUE]
             ELSE IF d.proposal[p].production \in {"FINALIZADO_PARCIAL", "ITEM_PENDENTE_FABRICACAO"}
             THEN [d EXCEPT !.proposal[p].production = "INICIADO",
                            !.proposal[p].status = "INICIADO",
                            !.proposal[p].pending = FALSE]
             ELSE d

(***************************************************************************)
(* change_proposal_status, whose only transition is the release            *)
(***************************************************************************)
ReleaseToProduction(p) ==
  /\ Movable(db, p)
  /\ db.proposal[p].area = "CONTROLE_GERAL"
  /\ db.proposal[p].status = "AGUARDANDO_LIBERACAO"
  /\ Commit(RecalculateProduction(
       [db EXCEPT !.proposal[p].area = "PRODUCAO",
                  !.proposal[p].status = "LIBERADO_PRODUCAO",
                  !.proposal[p].production = "NAO_INICIADO",
                  !.proposal[p].pending = FALSE], p))
  /\ UNCHANGED reflowed

InProduction(p) == Movable(db, p) /\ db.proposal[p].area = "PRODUCAO"

SetProductionStatus(p, status) ==
  /\ Commit([db EXCEPT !.proposal[p].production = status, !.proposal[p].status = status])
  /\ UNCHANGED reflowed

StartProduction(p) ==
  /\ InProduction(p)
  /\ db.proposal[p].production \in {"NAO_INICIADO", "ITEM_PENDENTE_FABRICACAO"}
  /\ InternalItems(db, p) # {}
  /\ SetProductionStatus(p, "INICIADO")

PauseProduction(p) ==
  /\ InProduction(p)
  /\ db.proposal[p].production = "INICIADO"
  /\ SetProductionStatus(p, "PARADO")

ResumeProduction(p) ==
  /\ InProduction(p)
  /\ db.proposal[p].production = "PARADO"
  /\ SetProductionStatus(p, "INICIADO")

(***************************************************************************)
(* update_production_item_flow: S are the items of the payload that change *)
(* in flow, reason or notes, f their new flow                              *)
(***************************************************************************)
FlowLocked(i) ==
  \/ db.item[i].delivered
  \/ db.exp[i].sep > 0
  \/ db.item[i].galvanized
  \/ \E l \in Loads : db.link[l][i].sent > 0
  \/ db.item[i].produced /\ db.item[i].produce # "NAO"

\* A flag left out of the payload keeps its value.
FlowChoices(i) == {"SIM", "NAO", db.item[i].produce} \X {"SIM", "NAO", db.item[i].galvanize}

Reflow(p, i, flow) ==
  [db.item[i] EXCEPT
     !.produce = flow[1],
     !.galvanize = flow[2],
     !.produced = IF flow[1] = "NAO" THEN TRUE
                  ELSE IF db.item[i].produce = "NAO" /\ db.proposal[p].production # "FINALIZADO"
                  THEN FALSE ELSE @]

UpdateItemFlow(p) ==
  /\ InProduction(p)
  /\ \E S \in (SUBSET ItemsOf(db, p)) \ {{}} :
       /\ \A i \in S : ~FlowLocked(i)
       /\ \E f \in [S -> Flags \X Flags] :
            /\ \A i \in S : f[i] \in FlowChoices(i)
            /\ Commit(RecalculateProduction(
                 [db EXCEPT !.item = [i \in Items |-> IF i \in S THEN Reflow(p, i, f[i]) ELSE @[i]]], p))
            /\ reflowed' = reflowed \cup
                 {i \in S : db.exp[i] # NoRow /\ f[i] # <<db.item[i].produce, db.item[i].galvanize>>}

(***************************************************************************)
(* complete_production_items                                               *)
(***************************************************************************)
Destination(i) == IF db.item[i].galvanize = "SIM" THEN "GALVANIZACAO" ELSE "EXPEDICAO"

NewChild(p) == [parent |-> p, active |-> TRUE, area |-> "PRODUCAO", status |-> "FINALIZADO",
                production |-> "FINALIZADO", shipping |-> "NENHUM", pending |-> FALSE,
                completed |-> FALSE, cancelled |-> FALSE]

\* One child per destination of the items of S; child maps destinations to ids.
SplitChildren(d, p, S, child) ==
  LET ids == {child[g] : g \in DOMAIN child}
      part(c) == {i \in S : child[Destination(i)] = c}
      moved == [d EXCEPT
                  !.created = @ + Cardinality(ids),
                  !.proposal = [c \in Proposals |-> IF c \in ids THEN NewChild(p) ELSE @[c]],
                  !.item = [i \in Items |->
                              IF i \in S THEN [@[i] EXCEPT !.owner = child[Destination(i)]] ELSE @[i]]]
  IN  [moved EXCEPT !.proposal =
         [c \in Proposals |->
            IF c \in ids THEN FinalizeDestination(moved, c, part(c)).proposal[c] ELSE @[c]]]

\* The proposal after its items were marked and, if so, split off.
SettleProduction(d, p, split) ==
  CASE PendingItems(d, p) # {} ->
         [d EXCEPT !.proposal[p].production = "FINALIZADO_PARCIAL",
                   !.proposal[p].status = "FINALIZADO_PARCIAL",
                   !.proposal[p].pending = TRUE]
    [] PendingItems(d, p) = {} /\ split ->
         [d EXCEPT !.proposal[p].area = "CONTROLE_GERAL",
                   !.proposal[p].status = "EM_PRODUCAO",
                   !.proposal[p].production = "FINALIZADO",
                   !.proposal[p].pending = FALSE]
    [] OTHER -> FinalizeDestination(d, p, ItemsOf(d, p))

ConvergeFamily(d, p, split) ==
  LET own == IF split THEN MergeEqualStatusChildren(d, p) ELSE d
      parent == d.proposal[p].parent
  IN  IF parent = NoParent THEN own
      ELSE RebornParent(MergeEqualStatusChildren(own, parent), p)

MarkProduced(d, S) ==
  [d EXCEPT !.item = [i \in Items |-> IF i \in S THEN [@[i] EXCEPT !.produced = TRUE] ELSE @[i]]]

CompletableProduction(p) ==
  /\ InProduction(p)
  /\ db.proposal[p].production \in {"INICIADO", "FINALIZADO_PARCIAL"}
  /\ UndefinedFlowItems(db, p) = {}

CompleteProductionItems(p) ==
  /\ CompletableProduction(p)
  /\ \E S \in (SUBSET PendingItems(db, p)) \ {{}} :
       LET d == MarkProduced(db, S)
           split == PendingItems(d, p) \ S # {} \/ Children(db, p) # {}
           groups == {Destination(i) : i \in S}
       IN  IF ~split THEN Commit(ConvergeFamily(SettleProduction(d, p, FALSE), p, FALSE))
           ELSE /\ db.created + Cardinality(groups) <= MaxProposals
                /\ \E child \in Bijection(groups, db.created + 1 .. db.created + Cardinality(groups)) :
                     LET s == SettleProduction(SplitChildren(d, p, S, child), p, TRUE)
                     IN  Commit(ConvergeFamily(s, p, TRUE))
  /\ UNCHANGED reflowed

\* With nothing owed the same command only sends the proposal on.
CompleteProductionWithNothingPending(p) ==
  /\ CompletableProduction(p)
  /\ PendingItems(db, p) = {}
  /\ Commit(FinalizeDestination(db, p, ItemsOf(db, p)))
  /\ UNCHANGED reflowed
=============================================================================
