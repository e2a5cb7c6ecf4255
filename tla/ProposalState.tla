--------------------------- MODULE ProposalState ---------------------------
(***************************************************************************)
(* The rows of PostgreSQL that describe one family of proposals (a mother  *)
(* and the partial children production splits from her) on its way through *)
(* Production, Galvanization and Expedition, and the calculations that the *)
(* handlers of api/app/modules/proposals share.                            *)
(*                                                                         *)
(* Every handler is one database transaction, so the model keeps the rows  *)
(* in one record, db, and a handler is a chain of operators from database  *)
(* to database that ends in Commit, the pre-commit hook of derived_sync.   *)
(*                                                                         *)
(* Covered: areas, statuses, quantities, flags, splitting, merging and     *)
(* rebirth. Not covered here: remanagement between proposals (its sums of  *)
(* received and given pieces are zero throughout), weights, fiscal rows,   *)
(* events, row versions (handlers commit one after the other) and the      *)
(* summary columns no handler reads (general_status, galvanization_status, *)
(* flow_situation, is_partial).                                            *)
(***************************************************************************)
EXTENDS Integers, FiniteSets, Functions, FiniteSetsExt

CONSTANTS
  Items,         \* items of the family; their item numbers are distinct
  Qty,           \* Qty[i]: pieces ordered of item i
  InitialFlow,   \* InitialFlow[i]: the <<produce, galvanize>> an item may be created with
  Loads,         \* galvanization loads that may be opened (a bound)
  MaxProposals   \* bound on mother plus children

\* A proposal is created with at least one item (ProposalCreate.items).
ASSUME ItemsAssumption == Items # {} /\ IsFiniteSet(Items)
ASSUME QtyAssumption == Qty \in [Items -> Nat \ {0}]
ASSUME LoadsAssumption == IsFiniteSet(Loads)
ASSUME MaxProposalsAssumption == MaxProposals \in Nat \ {0}

VARIABLES
  db,       \* the committed rows
  reflowed  \* history: items whose flow was redefined while they had an Expedition row

vars == <<db, reflowed>>

Mother == 1
Proposals == 1..MaxProposals
NoParent == 0

(***************************************************************************)
(* Columns                                                                 *)
(***************************************************************************)
Flags == {"SIM", "NAO", "INDEFINIDO"}
Areas == {"CONTROLE_GERAL", "PRODUCAO", "GALVANIZACAO", "EXPEDICAO", "FINALIZADO"}
ProductionStatuses == {"NENHUM", "NAO_INICIADO", "INICIADO", "PARADO",
                       "FINALIZADO_PARCIAL", "ITEM_PENDENTE_FABRICACAO", "FINALIZADO"}
ShippingStatuses == {"NENHUM", "EM_SEPARACAO", "AGUARDANDO_SEPARACAO_PARCIAL",
                     "SEPARACAO_INICIADA", "SEPARADO_COM_PENDENCIA", "SEPARADO",
                     "ENTREGUE_PARCIAL", "ENTREGUE"}
GalvanizationStatuses == {"AGUARDANDO_ENVIO", "EM_CARGA", "ENVIADO_GALVANIZACAO",
                          "RETORNOU_PARCIAL"}
Statuses == {"AGUARDANDO_LIBERACAO", "LIBERADO_PRODUCAO", "EM_PRODUCAO", "CANCELADA"}
            \cup ProductionStatuses \cup ShippingStatuses \cup GalvanizationStatuses
LoadStatuses == {"NENHUM", "AGUARDANDO_LIBERACAO", "LIBERADA_PARA_ENVIO",
                 "RETORNO_PARCIAL", "RETORNADA_GALVANIZACAO"}

Proposal == [parent: {NoParent} \cup Proposals, active: BOOLEAN, area: Areas,
             status: Statuses, production: ProductionStatuses,
             shipping: ShippingStatuses, pending: BOOLEAN,
             completed: BOOLEAN, cancelled: BOOLEAN]
Item == [owner: Proposals, produce: Flags, galvanize: Flags,
         produced: BOOLEAN, galvanized: BOOLEAN, delivered: BOOLEAN]
ExpeditionItem == [avail: Nat, sep: Nat, del: Nat, rem: Nat]
Load == [status: LoadStatuses, closed: BOOLEAN]
LoadItem == [sent: Nat, returned: Nat]

Database == [proposal: [Proposals -> Proposal], created: Proposals,
             item: [Items -> Item], exp: [Items -> ExpeditionItem],
             load: [Loads -> Load], link: [Loads -> [Items -> LoadItem]]]

\* An Expedition row is only ever written with a positive availability and a
\* load row with a positive quantity, so zero stands for "no such row".
NoRow == [avail |-> 0, sep |-> 0, del |-> 0, rem |-> 0]
NoLink == [sent |-> 0, returned |-> 0]
NoLoad == [status |-> "NENHUM", closed |-> FALSE]

(***************************************************************************)
(* Reading the rows                                                        *)
(***************************************************************************)
ItemsOf(d, p) == {i \in Items : d.item[i].owner = p}
Children(d, p) == {c \in Proposals : c <= d.created /\ d.proposal[c].parent = p}
Cancelled(d, p) == d.proposal[p].cancelled \/ d.proposal[p].status = "CANCELADA"
Operational(d, p) == d.proposal[p].active /\ ~Cancelled(d, p)
\* What a handler asks first: the proposal exists and is not cancelled.
Movable(d, p) == p <= d.created /\ ~Cancelled(d, p)
FlowDefined(d, i) == "INDEFINIDO" \notin {d.item[i].produce, d.item[i].galvanize}
UndefinedFlowItems(d, p) == {i \in ItemsOf(d, p) : ~FlowDefined(d, i)}
InternalItems(d, p) == {i \in ItemsOf(d, p) : d.item[i].produce = "SIM"}
GalvanizedItems(d, p) == {i \in ItemsOf(d, p) : d.item[i].galvanize = "SIM"}

SentQuantity(d, i) == SumFunction([l \in Loads |-> d.link[l][i].sent])
ReturnedQuantity(d, i) == SumFunction([l \in Loads |-> d.link[l][i].returned])

AtLeastZero(n) == IF n < 0 THEN 0 ELSE n
MaxOf(m, n) == IF m < n THEN n ELSE m
MinOf(m, n) == IF m < n THEN m ELSE n

\* calculate_item_balance: what production still owes of an item. Once an item
\* has an Expedition row the quantities prevail over the produced flag.
ProductionPending(d, i) ==
  LET e == d.exp[i] IN
  CASE d.item[i].produce # "SIM" -> 0
    [] d.item[i].produce = "SIM" /\ e.avail + e.rem > 0 ->
         AtLeastZero(Qty[i] - e.avail + e.rem)
    [] OTHER -> IF d.item[i].produced THEN 0 ELSE Qty[i]

PendingItems(d, p) == {i \in InternalItems(d, p) : ProductionPending(d, i) > 0}

(***************************************************************************)
(* Derived rows: the pre-commit hook keeps Expedition's rows in step with  *)
(* what production and galvanization have made available                   *)
(***************************************************************************)
\* Mutant: items are taken as available before they are produced.
SourceBeforeProduction(d, i) ==
  CASE d.item[i].delivered \/ ~FlowDefined(d, i) -> 0
    [] OTHER -> IF d.item[i].galvanize = "SIM" THEN ReturnedQuantity(d, i) ELSE Qty[i]

ExpeditionSource(d, i) ==
  CASE d.item[i].delivered \/ ~FlowDefined(d, i) \/ ~d.item[i].produced -> 0
    [] OTHER -> IF d.item[i].galvanize = "SIM" THEN ReturnedQuantity(d, i) ELSE Qty[i]

\* A source of zero leaves the row alone, even one that says otherwise.
ReconciledRow(d, i) ==
  IF ExpeditionSource(d, i) = 0 THEN d.exp[i]
  ELSE [d.exp[i] EXCEPT !.avail = MaxOf(ExpeditionSource(d, i), d.exp[i].del + d.exp[i].rem)]

EnsureExpeditionItems(d, P) ==
  [d EXCEPT !.exp = [i \in Items |-> IF d.item[i].owner \in P THEN ReconciledRow(d, i) ELSE @[i]]]

\* Mutant: item and load writes no longer mark the owner as touched.
DirtyProposalsOnly(d0, d1) == {p \in Proposals : d0.proposal[p] # d1.proposal[p]}

\* The proposals a transaction from d0 to d1 has written to, or to whose items.
Dirty(d0, d1) ==
  {p \in Proposals : d0.proposal[p] # d1.proposal[p]} \cup
  {d1.item[i].owner : i \in {j \in Items :
      \/ d0.item[j] # d1.item[j]
      \/ d0.exp[j] # d1.exp[j]
      \/ \E l \in Loads : d0.link[l][j] # d1.link[l][j] /\ d1.link[l][j].sent > 0}}

\* Mutant: the hook reconciles cancelled proposals too.
CommitCancelledToo(d) == db' = EnsureExpeditionItems(d, Dirty(db, d))

Commit(d) ==
  db' = EnsureExpeditionItems(d, {p \in Dirty(db, d) : Operational(d, p)})
=============================================================================
