------------------------- MODULE ProposalFlowProofs -------------------------
(***************************************************************************)
(* Theorems about ProposalFlow, whose transactions commit one after the    *)
(* other. The inductive invariant FlowInv says three things besides the    *)
(* types: every row of Expedition is what the pre-commit hook would make   *)
(* of it (RowsCurrent); pieces are never created (Pieces, about one item   *)
(* at a time); and a family keeps its shape (Family, about mothers,        *)
(* children and who owns which item).                                      *)
(*                                                                         *)
(* A handler is a sequence of changes of one database record, and none of  *)
(* the intermediate ones is a state. The proof therefore goes by values d, *)
(* e of that record: Legal(d0, d, r) says that a transaction that began at *)
(* d0 may go on from d, the lemmas Legal... and ...Shapes say which        *)
(* helpers of the code keep it, and CommitPreserves that what the hook     *)
(* makes of a legal database satisfies FlowInv again. Settled and Kept     *)
(* carry the two action properties along. Sums over loads are compared     *)
(* with the theorems of SumTheorems.                                       *)
(***************************************************************************)
EXTENDS ProposalFlow, SumTheorems, TLAPS

\* Loads: no item is sent in more pieces than ordered, nor back in more than sent;
\* nothing is back before a return, everything once the load is closed; and what
\* is sent was produced, with a defined flow that galvanizes.
LinksHold(d) ==
  /\ \A i \in Items : SentQuantity(d, i) <= Qty[i]
  /\ \A l \in Loads, i \in Items :
       LET x == d.link[l][i] IN
       /\ x.returned <= x.sent
       /\ d.load[l].status \notin {"RETORNO_PARCIAL", "RETORNADA_GALVANIZACAO"} => x.returned = 0
       /\ d.load[l].closed => x.returned = x.sent
       /\ d.load[l].closed => d.load[l].status = "RETORNADA_GALVANIZACAO"
       /\ x.sent > 0 => d.item[i].produced /\ d.item[i].galvanize = "SIM" /\ d.item[i].produce # "INDEFINIDO"

\* The pieces of item i that Expedition can have got.
SupplyIn(d, i) == IF d.item[i].galvanize = "SIM" THEN ReturnedQuantity(d, i) ELSE Qty[i]

\* Expedition: no more delivered than separated, no more separated or given back
\* than available, no more available than supplied, and no row before production.
\* r are the items whose flow was redefined when they had a row already.
RowsNest(d, r) ==
  \A i \in Items :
    LET e == d.exp[i] IN
    /\ e.del <= e.sep
    /\ i \notin r => e.sep + e.rem <= e.avail /\ e.avail <= SupplyIn(d, i)
    /\ i \notin r /\ e # NoRow => FlowDefined(d, i) /\ d.item[i].produced

\* An item not to be produced counts as produced; one marked as galvanized is to
\* be, and is back whole.
FlagsHold(d) ==
  \A i \in Items :
    /\ d.item[i].produce = "NAO" => d.item[i].produced
    /\ d.item[i].galvanized => ReturnedQuantity(d, i) = Qty[i] /\ d.item[i].galvanize = "SIM"

\* What holds of the pieces of each item, whichever proposal owns it.
Pieces(d, r) == LinksHold(d) /\ RowsNest(d, r) /\ FlagsHold(d)

\* A child comes after its mother, the first proposal has none, and what is not
\* yet created is blank; no row in Expedition has a status of another area.
Lineage(d) ==
  /\ \A p \in Proposals :
       LET r == d.proposal[p] IN
       /\ r.status = "CANCELADA" => r.cancelled
       /\ r.area = "EXPEDICAO" => r.status \in ShippingStatuses
       /\ p > d.created => ~r.cancelled /\ r.parent = NoParent
       /\ p <= d.created => r.parent < p /\ (r.parent = NoParent => r.active)
  /\ \A i \in Items : d.item[i].owner <= d.created

\* An item belongs to an active proposal, or to a child split again; an active
\* proposal has items or children.
Orphans(d) ==
  /\ \A i \in Items : LET p == d.item[i].owner IN
       d.proposal[p].active \/ (d.proposal[p].parent # NoParent /\ Children(d, p) # {})
  /\ \A p \in 1 .. d.created :
       d.proposal[p].active => ItemsOf(d, p) # {} \/ Children(d, p) # {}

\* A finished proposal is complete, has nothing pending, and its items are delivered.
Finished(d) ==
  \A p \in Proposals :
    d.proposal[p].area = "FINALIZADO" =>
      /\ d.proposal[p].completed
      /\ ~d.proposal[p].pending
      /\ \A i \in ItemsOf(d, p) : d.item[i].delivered

\* An item back whole is marked as galvanized, unless its proposal is cancelled.
Marked(d) ==
  \A i \in Items :
    ReturnedQuantity(d, i) = Qty[i] /\ ~d.proposal[d.item[i].owner].cancelled => d.item[i].galvanized

\* What holds of mothers, children and their items.
Family(d) == Lineage(d) /\ Orphans(d) /\ Finished(d) /\ Marked(d)

\* The inductive invariant.
FlowInv == TypeOK /\ RowsCurrent /\ Pieces(db, reflowed) /\ Family(db)

-----------------------------------------------------------------------------
\* The components of a database, each with its type.
LEMMA Typed ==
  ASSUME NEW d \in Database
  PROVE  /\ d.created \in Proposals /\ d.created \in Nat
         /\ \A p \in Proposals : d.proposal[p] \in Proposal
         /\ \A i \in Items : d.item[i] \in Item /\ d.exp[i] \in ExpeditionItem
         /\ \A l \in Loads : d.load[l] \in Load
         /\ \A l \in Loads, i \in Items : d.link[l][i] \in LoadItem
         /\ \A l \in Loads, i \in Items : d.link[l][i].sent \in Nat /\ d.link[l][i].returned \in Nat
         /\ \A i \in Items : Qty[i] \in Nat /\ Qty[i] > 0
  BY QtyAssumption, MaxProposalsAssumption DEF Database, Proposals, LoadItem

\* The sums over loads are natural numbers, no less than what any one load has.
LEMMA LoadSums ==
  ASSUME NEW d \in Database, NEW i \in Items
  PROVE  /\ SentQuantity(d, i) \in Nat /\ ReturnedQuantity(d, i) \in Nat
         /\ \A l \in Loads : /\ d.link[l][i].sent <= SentQuantity(d, i)
                             /\ d.link[l][i].returned <= ReturnedQuantity(d, i)
<1> DEFINE s == [l \in Loads |-> d.link[l][i].sent]
           r == [l \in Loads |-> d.link[l][i].returned]
<1>1. \A l \in Loads : s[l] \in Nat /\ r[l] \in Nat
  BY Typed
<1>2. SentQuantity(d, i) = SumFunctionOnSet(s, Loads) /\ ReturnedQuantity(d, i) = SumFunctionOnSet(r, Loads)
  BY DEF SentQuantity, ReturnedQuantity, SumFunction
<1>3. \A l \in Loads : s[l] = d.link[l][i].sent /\ r[l] = d.link[l][i].returned
  OBVIOUS
<1> HIDE DEF s, r
<1>4. QED BY <1>1, <1>2, <1>3, SumOfNaturals, LoadsAssumption

\* A sum over loads depends on the links alone.
LEMMA ReturnedFollowsLinks ==
  ASSUME NEW d, NEW e, NEW i \in Items,
         \A l \in Loads : d.link[l][i].returned = e.link[l][i].returned
  PROVE  ReturnedQuantity(d, i) = ReturnedQuantity(e, i)
<1>1. [l \in Loads |-> d.link[l][i].returned] = [l \in Loads |-> e.link[l][i].returned]
  OBVIOUS
<1>2. QED BY <1>1 DEF ReturnedQuantity

LEMMA SentFollowsLinks ==
  ASSUME NEW d, NEW e, NEW i \in Items,
         \A l \in Loads : d.link[l][i].sent = e.link[l][i].sent
  PROVE  SentQuantity(d, i) = SentQuantity(e, i)
<1>1. [l \in Loads |-> d.link[l][i].sent] = [l \in Loads |-> e.link[l][i].sent]
  OBVIOUS
<1>2. QED BY <1>1 DEF SentQuantity

-----------------------------------------------------------------------------
\* e has the pieces, loads and flags of d; only owners and proposals may differ.
SamePieces(d, e) ==
  /\ e.exp = d.exp /\ e.load = d.load /\ e.link = d.link
  /\ \A i \in Items :
       /\ e.item[i].produce = d.item[i].produce /\ e.item[i].galvanize = d.item[i].galvanize
       /\ e.item[i].produced = d.item[i].produced /\ e.item[i].galvanized = d.item[i].galvanized
       /\ e.item[i].delivered = d.item[i].delivered

\* A cancelled proposal without open children.
Still(d, p) == d.proposal[p].cancelled /\ OpenChildren(d, p) = {}

\* Nothing of a cancelled proposal without open children is changed.
Settled(d, e) ==
  \A p \in Proposals : Still(d, p) =>
    /\ e.proposal[p] = d.proposal[p] /\ OpenChildren(e, p) = {}
    /\ \A i \in Items : e.item[i].owner = p <=> d.item[i].owner = p
    /\ \A i \in Items : d.item[i].owner = p => e.item[i] = d.item[i] /\ e.exp[i] = d.exp[i]

\* e is d with its family brought into another shape.
Shaped(d, e) == e \in Database /\ Family(e) /\ SamePieces(d, e) /\ Settled(d, e)

LEMMA SameSums ==
  ASSUME NEW d, NEW e, e.link = d.link
  PROVE  \A i \in Items : ReturnedQuantity(e, i) = ReturnedQuantity(d, i) /\ SentQuantity(e, i) = SentQuantity(d, i)
  BY DEF ReturnedQuantity, SentQuantity

\* A change of shape keeps the invariant about pieces.
LEMMA PiecesFollow ==
  ASSUME NEW d, NEW e, NEW r, Pieces(d, r), SamePieces(d, e)
  PROVE  Pieces(e, r)
<1>1. \A i \in Items : ReturnedQuantity(e, i) = ReturnedQuantity(d, i) /\ SentQuantity(e, i) = SentQuantity(d, i)
  BY SameSums DEF SamePieces
<1>2. LinksHold(e)
  BY <1>1 DEF Pieces, LinksHold, SamePieces
<1>3. RowsNest(e, r)
  BY <1>1 DEF Pieces, RowsNest, SamePieces, SupplyIn, FlowDefined
<1>4. FlagsHold(e)
  BY <1>1 DEF Pieces, FlagsHold, SamePieces
<1>5. QED BY <1>2, <1>3, <1>4 DEF Pieces

LEMMA ShapedTransitive ==
  ASSUME NEW d, NEW e, NEW f, Shaped(d, e), Shaped(e, f)
  PROVE  Shaped(d, f)
<1>1. SamePieces(d, f)
  BY DEF Shaped, SamePieces
<1>2. Settled(d, f)
  BY DEF Shaped, Settled, Still
<1>3. QED BY <1>1, <1>2 DEF Shaped

\* What a handler may make of the row of proposal p.
RowChange(d, p, r) ==
  /\ ~Still(d, p)
  /\ r.parent = d.proposal[p].parent /\ r.active = d.proposal[p].active
  /\ r.cancelled = d.proposal[p].cancelled
  /\ r.status = "CANCELADA" => r.cancelled
  /\ r.area = "EXPEDICAO" => r.status \in ShippingStatuses
  /\ r.area = "FINALIZADO" =>
       r.completed /\ ~r.pending /\ \A i \in ItemsOf(d, p) : d.item[i].delivered

\* Changing rows as handlers may shapes the family.
LEMMA RowsShape ==
  ASSUME NEW d \in Database, NEW e \in Database, Family(d),
         e.created = d.created, e.item = d.item, e.exp = d.exp, e.load = d.load, e.link = d.link,
         \A p \in Proposals : e.proposal[p] = d.proposal[p] \/ RowChange(d, p, e.proposal[p])
  PROVE  Shaped(d, e)
<1>1. \A p \in Proposals : /\ e.proposal[p].parent = d.proposal[p].parent
                           /\ e.proposal[p].active = d.proposal[p].active
                           /\ e.proposal[p].cancelled = d.proposal[p].cancelled
  BY Typed DEF RowChange, Proposal
<1>2. \A p \in Proposals : /\ Children(e, p) = Children(d, p) /\ ItemsOf(e, p) = ItemsOf(d, p)
                           /\ OpenChildren(e, p) = OpenChildren(d, p)
  BY <1>1 DEF Children, ItemsOf, OpenChildren
<1>3. Lineage(e)
  BY <1>1 DEF Family, Lineage, RowChange
<1>4. Orphans(e)
  <2>1. \A i \in Items : d.item[i].owner \in Proposals
    BY Typed DEF Item
  <2>2. 1 .. d.created \subseteq Proposals
    BY Typed, MaxProposalsAssumption DEF Proposals
  <2>3. QED BY <1>1, <1>2, <2>1, <2>2 DEF Family, Orphans
<1>5. Finished(e)
  BY <1>2 DEF Family, Finished, RowChange
<1>6. Marked(e)
  <2>1. \A i \in Items : d.item[i].owner \in Proposals
    BY Typed DEF Item
  <2>2. QED BY <1>1, <2>1, SameSums DEF Family, Marked
<1>7. SamePieces(d, e)
  BY DEF SamePieces
<1>8. Settled(d, e)
  BY <1>2 DEF Settled, Still, RowChange
<1>9. QED BY <1>3, <1>4, <1>5, <1>6, <1>7, <1>8 DEF Shaped, Family

\* The domains of the tables.
LEMMA Domains ==
  ASSUME NEW d \in Database
  PROVE  /\ DOMAIN d = {"proposal", "created", "item", "exp", "load", "link"}
         /\ DOMAIN d.proposal = Proposals /\ DOMAIN d.item = Items /\ DOMAIN d.exp = Items
         /\ DOMAIN d.load = Loads /\ DOMAIN d.link = Loads
  BY DEF Database

\* The row of proposal p becomes r.
SetRow(d, p, r) == [d EXCEPT !.proposal[p] = r]

LEMMA SetRowIsTyped ==
  ASSUME NEW d \in Database, NEW p \in Proposals, NEW r \in Proposal
  PROVE  /\ SetRow(d, p, r) \in Database
         /\ SetRow(d, p, r).proposal = [d.proposal EXCEPT ![p] = r]
         /\ SetRow(d, p, r).created = d.created /\ SetRow(d, p, r).item = d.item
         /\ SetRow(d, p, r).exp = d.exp /\ SetRow(d, p, r).load = d.load /\ SetRow(d, p, r).link = d.link
  BY DEF SetRow, Database

LEMMA SetRowShapes ==
  ASSUME NEW d \in Database, Family(d), NEW p \in Proposals, NEW r \in Proposal, RowChange(d, p, r)
  PROVE  Shaped(d, SetRow(d, p, r))
<1> DEFINE e == SetRow(d, p, r)
<1>1. /\ e \in Database /\ e.proposal = [d.proposal EXCEPT ![p] = r]
      /\ e.created = d.created /\ e.item = d.item /\ e.exp = d.exp /\ e.load = d.load /\ e.link = d.link
  BY SetRowIsTyped
<1>2. \A q \in Proposals : e.proposal[q] = d.proposal[q] \/ RowChange(d, q, e.proposal[q])
  <2> HIDE DEF e
  <2>1. d.proposal \in [Proposals -> Proposal]
    BY DEF Database
  <2>2. QED BY <1>1, <2>1
<1> HIDE DEF e
<1>3. Shaped(d, e)
  BY <1>1, <1>2, RowsShape
<1>4. QED BY <1>3 DEF e

\* Finalizing a proposal is one such change of its row.
LEMMA FinalizeIsRow ==
  ASSUME NEW d \in Database, NEW p \in Proposals, NEW S
  PROVE  \E r \in Proposal :
           /\ FinalizeDestination(d, p, S) = SetRow(d, p, r)
           /\ r.parent = d.proposal[p].parent /\ r.active = d.proposal[p].active
           /\ r.cancelled = d.proposal[p].cancelled
           /\ <<r.area, r.status>> \in {<<"GALVANIZACAO", "AGUARDANDO_ENVIO">>, <<"EXPEDICAO", "EM_SEPARACAO">>}
<1>1. d.proposal[p] \in Proposal
  BY Typed
<1> DEFINE done == [d.proposal[p] EXCEPT !.production = "FINALIZADO", !.pending = FALSE]
           away == [done EXCEPT !.area = "GALVANIZACAO", !.status = "AGUARDANDO_ENVIO", !.shipping = "NENHUM"]
           home == [done EXCEPT !.area = "EXPEDICAO", !.status = "EM_SEPARACAO", !.shipping = "EM_SEPARACAO"]
<1>2. done \in Proposal /\ done.parent = d.proposal[p].parent /\ done.active = d.proposal[p].active
      /\ done.cancelled = d.proposal[p].cancelled
  BY <1>1 DEF Proposal, ProductionStatuses
<1>3. /\ away \in Proposal /\ away.parent = done.parent /\ away.active = done.active
      /\ away.cancelled = done.cancelled /\ away.area = "GALVANIZACAO" /\ away.status = "AGUARDANDO_ENVIO"
  <2> HIDE DEF done
  <2>1. QED BY <1>2 DEF Proposal, Areas, Statuses, GalvanizationStatuses, ShippingStatuses
<1>4. /\ home \in Proposal /\ home.parent = done.parent /\ home.active = done.active
      /\ home.cancelled = done.cancelled /\ home.area = "EXPEDICAO" /\ home.status = "EM_SEPARACAO"
  <2> HIDE DEF done
  <2>1. QED BY <1>2 DEF Proposal, Areas, Statuses, ShippingStatuses
<1>5. FinalizeDestination(d, p, S) \in {SetRow(d, p, away), SetRow(d, p, home)}
  BY Domains DEF FinalizeDestination, SetRow
<1> HIDE DEF done, away, home
<1>6. QED BY <1>2, <1>3, <1>4, <1>5

LEMMA FinalizeShapes ==
  ASSUME NEW d \in Database, Family(d), NEW p \in Proposals, ~d.proposal[p].cancelled, NEW S
  PROVE  Shaped(d, FinalizeDestination(d, p, S))
<1>1. PICK r \in Proposal :
           /\ FinalizeDestination(d, p, S) = SetRow(d, p, r)
           /\ r.parent = d.proposal[p].parent /\ r.active = d.proposal[p].active
           /\ r.cancelled = d.proposal[p].cancelled
           /\ <<r.area, r.status>> \in {<<"GALVANIZACAO", "AGUARDANDO_ENVIO">>, <<"EXPEDICAO", "EM_SEPARACAO">>}
  BY FinalizeIsRow
<1>2. RowChange(d, p, r)
  BY <1>1 DEF RowChange, Still, ShippingStatuses
<1>3. QED BY <1>1, <1>2, SetRowShapes

\* The recalculations of the code shape the family.
LEMMA RecalculateProductionShapes ==
  ASSUME NEW d \in Database, Family(d), NEW p \in Proposals, ~d.proposal[p].cancelled,
         d.proposal[p].area = "PRODUCAO"
  PROVE  d \in Database /\ Shaped(d, RecalculateProduction(d, p))
<1> DEFINE made == {i \in InternalItems(d, p) : d.item[i].produced}
           owed == InternalItems(d, p) \ made
           partial == [d.proposal[p] EXCEPT !.production = "FINALIZADO_PARCIAL",
                                            !.status = "FINALIZADO_PARCIAL", !.pending = TRUE]
           begun == [d.proposal[p] EXCEPT !.production = "INICIADO", !.status = "INICIADO", !.pending = FALSE]
<1>1. d.proposal[p] \in Proposal
  BY Typed
<1>2. Shaped(d, FinalizeDestination(d, p, ItemsOf(d, p)))
  BY FinalizeShapes
<1>3. Shaped(d, SetRow(d, p, partial))
  <2>1. partial \in Proposal /\ RowChange(d, p, partial)
    BY <1>1 DEF Proposal, Statuses, ProductionStatuses, RowChange, Still
  <2> HIDE DEF partial
  <2>2. QED BY <2>1, SetRowShapes
<1>4. Shaped(d, SetRow(d, p, begun))
  <2>1. begun \in Proposal /\ RowChange(d, p, begun)
    BY <1>1 DEF Proposal, Statuses, ProductionStatuses, RowChange, Still
  <2> HIDE DEF begun
  <2>2. QED BY <2>1, SetRowShapes
<1>5. Shaped(d, d)
  BY RowsShape
<1>6. [d EXCEPT !.proposal[p].production = "FINALIZADO_PARCIAL",
                !.proposal[p].status = "FINALIZADO_PARCIAL", !.proposal[p].pending = TRUE]
      = SetRow(d, p, partial)
  BY Domains DEF SetRow
<1>7. [d EXCEPT !.proposal[p].production = "INICIADO", !.proposal[p].status = "INICIADO",
                !.proposal[p].pending = FALSE]
      = SetRow(d, p, begun)
  BY Domains DEF SetRow
<1>8. RecalculateProduction(d, p) \in
        {FinalizeDestination(d, p, ItemsOf(d, p)), SetRow(d, p, partial), SetRow(d, p, begun), d}
  <2> HIDE DEF partial, begun
  <2>1. QED BY <1>6, <1>7 DEF RecalculateProduction
<1> HIDE DEF partial, begun
<1>9. QED BY <1>2, <1>3, <1>4, <1>5, <1>8

LEMMA SettleProductionShapes ==
  ASSUME NEW d \in Database, Family(d), NEW p \in Proposals, ~d.proposal[p].cancelled,
         d.proposal[p].area = "PRODUCAO", NEW split
  PROVE  Shaped(d, SettleProduction(d, p, split))
<1> DEFINE partial == [d.proposal[p] EXCEPT !.production = "FINALIZADO_PARCIAL",
                                            !.status = "FINALIZADO_PARCIAL", !.pending = TRUE]
           whole == [d.proposal[p] EXCEPT !.area = "CONTROLE_GERAL", !.status = "EM_PRODUCAO",
                                          !.production = "FINALIZADO", !.pending = FALSE]
<1>1. d.proposal[p] \in Proposal
  BY Typed
<1>2. Shaped(d, FinalizeDestination(d, p, ItemsOf(d, p)))
  BY FinalizeShapes
<1>3. Shaped(d, SetRow(d, p, partial))
  <2>1. partial \in Proposal /\ RowChange(d, p, partial)
    BY <1>1 DEF Proposal, Statuses, ProductionStatuses, RowChange, Still
  <2> HIDE DEF partial
  <2>2. QED BY <2>1, SetRowShapes
<1>4. Shaped(d, SetRow(d, p, whole))
  <2>1. whole \in Proposal /\ RowChange(d, p, whole)
    BY <1>1 DEF Proposal, Statuses, ProductionStatuses, RowChange, Still, Areas
  <2> HIDE DEF whole
  <2>2. QED BY <2>1, SetRowShapes
<1>5. [d EXCEPT !.proposal[p].production = "FINALIZADO_PARCIAL",
                !.proposal[p].status = "FINALIZADO_PARCIAL", !.proposal[p].pending = TRUE]
      = SetRow(d, p, partial)
  BY Domains DEF SetRow
<1>6. [d EXCEPT !.proposal[p].area = "CONTROLE_GERAL", !.proposal[p].status = "EM_PRODUCAO",
                !.proposal[p].production = "FINALIZADO", !.proposal[p].pending = FALSE]
      = SetRow(d, p, whole)
  BY ZenonT(60), Domains DEF SetRow
<1>7. SettleProduction(d, p, split) \in
        {FinalizeDestination(d, p, ItemsOf(d, p)), SetRow(d, p, partial), SetRow(d, p, whole)}
  <2> HIDE DEF partial, whole
  <2>1. QED BY <1>5, <1>6 DEF SettleProduction
<1> HIDE DEF partial, whole
<1>8. QED BY <1>2, <1>3, <1>4, <1>7

LEMMA RecalculateExpeditionShapes ==
  ASSUME NEW d \in Database, Family(d), NEW p \in Proposals, ~d.proposal[p].cancelled
  PROVE  Shaped(d, RecalculateExpedition(d, p))
<1> DEFINE r == d.proposal[p]
           keep == r.area = "PRODUCAO" /\ \E i \in InternalItems(d, p) : ~d.item[i].produced
           move(area, status) ==
             [r EXCEPT !.area = IF keep THEN @ ELSE area, !.status = status,
                       !.shipping = status, !.completed = status = "ENTREGUE"]
<1>1. r \in Proposal
  BY Typed
<1>2. ASSUME NEW status \in ShippingStatuses PROVE Shaped(d, SetRow(d, p, move("EXPEDICAO", status)))
  <2> DEFINE m == move("EXPEDICAO", status)
  <2>1. /\ m \in Proposal /\ m.parent = r.parent /\ m.active = r.active /\ m.cancelled = r.cancelled
        /\ m.status = status /\ m.area = IF keep THEN r.area ELSE "EXPEDICAO"
    <3> HIDE DEF keep, r
    <3>1. QED BY <1>1 DEF Proposal, Areas, Statuses
  <2>2. RowChange(d, p, m)
    <3> HIDE DEF m
    <3>1. QED BY <2>1 DEF RowChange, Still, ShippingStatuses
  <2>3. Shaped(d, SetRow(d, p, m))
    <3> HIDE DEF m
    <3>1. QED BY <2>1, <2>2, SetRowShapes
  <2>4. QED BY <2>3 DEF m
<1>3. ASSUME ~r.pending, \A i \in ItemsOf(d, p) : d.item[i].delivered
      PROVE  Shaped(d, SetRow(d, p, move("FINALIZADO", "ENTREGUE")))
  <2> DEFINE m == move("FINALIZADO", "ENTREGUE")
  <2>1. /\ m \in Proposal /\ m.parent = r.parent /\ m.active = r.active /\ m.cancelled = r.cancelled
        /\ m.status = "ENTREGUE" /\ m.area = (IF keep THEN r.area ELSE "FINALIZADO")
        /\ m.completed /\ m.pending = r.pending
    <3> HIDE DEF keep, r
    <3>1. QED BY <1>1 DEF Proposal, Areas, Statuses, ShippingStatuses
  <2>2. RowChange(d, p, m)
    <3> HIDE DEF m
    <3>1. QED BY <1>3, <2>1 DEF RowChange, Still, ShippingStatuses
  <2>3. Shaped(d, SetRow(d, p, m))
    <3> HIDE DEF m
    <3>1. QED BY <2>1, <2>2, SetRowShapes
  <2>4. QED BY <2>3 DEF m
<1>4. Shaped(d, d)
  BY RowsShape
<1>5. \/ RecalculateExpedition(d, p) = d
      \/ /\ ~r.pending /\ \A i \in ItemsOf(d, p) : d.item[i].delivered
         /\ RecalculateExpedition(d, p) = SetRow(d, p, move("FINALIZADO", "ENTREGUE"))
      \/ \E status \in ShippingStatuses : RecalculateExpedition(d, p) = SetRow(d, p, move("EXPEDICAO", status))
  BY DEF RecalculateExpedition, SetRow, ShippingStatuses
<1> HIDE DEF move
<1>6. QED BY <1>2, <1>3, <1>4, <1>5

-----------------------------------------------------------------------------
\* Absorbing children: their rows become inactive and the heir owns their items.
LEMMA AbsorbIsTyped ==
  ASSUME NEW d \in Database, NEW heir, \A c \in DOMAIN heir : heir[c] \in Proposals
  PROVE  LET e == AbsorbRows(d, heir) IN
         /\ e \in Database
         /\ e.created = d.created /\ e.exp = d.exp /\ e.load = d.load /\ e.link = d.link
         /\ \A i \in Items : e.item[i] =
              IF d.item[i].owner \in DOMAIN heir
              THEN [d.item[i] EXCEPT !.owner = heir[d.item[i].owner]] ELSE d.item[i]
         /\ \A p \in Proposals : e.proposal[p] =
              IF p \in DOMAIN heir THEN [d.proposal[p] EXCEPT !.active = FALSE] ELSE d.proposal[p]
<1> DEFINE items == [i \in Items |->
              IF d.item[i].owner \in DOMAIN heir
              THEN [d.item[i] EXCEPT !.owner = heir[d.item[i].owner]] ELSE d.item[i]]
           rows == [p \in Proposals |->
              IF p \in DOMAIN heir THEN [d.proposal[p] EXCEPT !.active = FALSE] ELSE d.proposal[p]]
<1>1. items \in [Items -> Item]
  BY Typed DEF Item
<1>2. rows \in [Proposals -> Proposal]
  <2>1. \A r \in Proposal : [r EXCEPT !.active = FALSE] \in Proposal
    BY DEF Proposal
  <2>2. QED BY <2>1, Typed
<1>3. AbsorbRows(d, heir) = [[d EXCEPT !.item = items] EXCEPT !.proposal = rows]
  <2> DEFINE f == [d EXCEPT !.item = items]
             later == [p \in Proposals |->
               IF p \in DOMAIN heir THEN [f.proposal[p] EXCEPT !.active = FALSE] ELSE f.proposal[p]]
  <2>1. AbsorbRows(d, heir) = [f EXCEPT !.proposal = later]
    BY DEF AbsorbRows
  <2>2. f.proposal = d.proposal
    BY Domains
  <2>3. later = rows
    <3> HIDE DEF f
    <3>1. QED BY <2>2
  <2> HIDE DEF later, rows
  <2>4. QED BY <2>1, <2>3
<1>4. [[d EXCEPT !.item = items] EXCEPT !.proposal = rows] \in Database
  <2> HIDE DEF items, rows
  <2>1. QED BY <1>1, <1>2 DEF Database
<1>5. /\ AbsorbRows(d, heir).item = items /\ AbsorbRows(d, heir).proposal = rows
      /\ AbsorbRows(d, heir).created = d.created /\ AbsorbRows(d, heir).exp = d.exp
      /\ AbsorbRows(d, heir).load = d.load /\ AbsorbRows(d, heir).link = d.link
  <2> HIDE DEF items, rows
  <2>1. QED BY <1>3, Domains
<1>6. QED BY <1>3, <1>4, <1>5

\* The children that the heir takes in are his own, or his mother's as he is.
Absorbs(d, heir) ==
  \A c \in DOMAIN heir :
    /\ c \in Proposals /\ c <= d.created /\ heir[c] \in Proposals /\ heir[c] <= d.created
    /\ d.proposal[c].active /\ ~d.proposal[c].cancelled /\ d.proposal[c].parent # NoParent
    /\ heir[c] \notin DOMAIN heir /\ ~Still(d, heir[c])
    /\ d.proposal[heir[c]].active \/ c \in Children(d, heir[c])
    /\ d.proposal[heir[c]].area = "FINALIZADO" => d.proposal[c].area = "FINALIZADO"

LEMMA AbsorbShapes ==
  ASSUME NEW d \in Database, Family(d), NEW heir, Absorbs(d, heir)
  PROVE  Shaped(d, AbsorbRows(d, heir))
<1> DEFINE e == AbsorbRows(d, heir)
<1>1. /\ e \in Database
      /\ e.created = d.created /\ e.exp = d.exp /\ e.load = d.load /\ e.link = d.link
      /\ \A i \in Items : e.item[i] =
           IF d.item[i].owner \in DOMAIN heir
           THEN [d.item[i] EXCEPT !.owner = heir[d.item[i].owner]] ELSE d.item[i]
      /\ \A p \in Proposals : e.proposal[p] =
           IF p \in DOMAIN heir THEN [d.proposal[p] EXCEPT !.active = FALSE] ELSE d.proposal[p]
  BY AbsorbIsTyped DEF Absorbs
<1> HIDE DEF e
<1>2. \A i \in Items : /\ d.item[i].owner \in Proposals
                       /\ e.item[i].owner = IF d.item[i].owner \in DOMAIN heir
                                            THEN heir[d.item[i].owner] ELSE d.item[i].owner
  <2>1. \A r \in Item : r.owner \in Proposals /\ \A h : [r EXCEPT !.owner = h].owner = h
    BY DEF Item
  <2> TAKE i \in Items
  <2>2. d.item[i] \in Item
    BY Typed
  <2>3. e.item[i] = IF d.item[i].owner \in DOMAIN heir
                    THEN [d.item[i] EXCEPT !.owner = heir[d.item[i].owner]] ELSE d.item[i]
    BY <1>1
  <2>4. QED BY <2>1, <2>2, <2>3
<1>3. SamePieces(d, e)
  <2>1. \A r \in Item : \A h :
          LET x == [r EXCEPT !.owner = h] IN
          /\ x.produce = r.produce /\ x.galvanize = r.galvanize /\ x.produced = r.produced
          /\ x.galvanized = r.galvanized /\ x.delivered = r.delivered
    BY DEF Item
  <2> SUFFICES ASSUME NEW i \in Items
               PROVE  /\ e.item[i].produce = d.item[i].produce /\ e.item[i].galvanize = d.item[i].galvanize
                      /\ e.item[i].produced = d.item[i].produced /\ e.item[i].galvanized = d.item[i].galvanized
                      /\ e.item[i].delivered = d.item[i].delivered
    BY <1>1 DEF SamePieces
  <2>2. d.item[i] \in Item
    BY Typed
  <2>3. CASE d.item[i].owner \in DOMAIN heir
    <3>1. e.item[i] = [d.item[i] EXCEPT !.owner = heir[d.item[i].owner]]
      BY <1>1, <2>3
    <3>2. QED BY <2>1, <2>2, <3>1
  <2>4. CASE d.item[i].owner \notin DOMAIN heir
    BY <1>1, <2>4
  <2>5. QED BY <2>3, <2>4
<1>4. \A p \in Proposals :
        /\ e.proposal[p].parent = d.proposal[p].parent /\ e.proposal[p].area = d.proposal[p].area
        /\ e.proposal[p].status = d.proposal[p].status /\ e.proposal[p].cancelled = d.proposal[p].cancelled
        /\ e.proposal[p].completed = d.proposal[p].completed /\ e.proposal[p].pending = d.proposal[p].pending
        /\ e.proposal[p].active <=> d.proposal[p].active /\ p \notin DOMAIN heir
  <2> TAKE p \in Proposals
  <2>1. d.proposal[p] \in Proposal
    BY Typed
  <2>2. CASE p \in DOMAIN heir
    <3>1. e.proposal[p] = [d.proposal[p] EXCEPT !.active = FALSE]
      BY <1>1, <2>2
    <3>2. QED BY <2>1, <2>2, <3>1 DEF Proposal
  <2>3. CASE p \notin DOMAIN heir
    BY <1>1, <2>3
  <2>4. QED BY <2>2, <2>3
<1>5. \A p \in Proposals : /\ Children(e, p) = Children(d, p)
                           /\ OpenChildren(e, p) \subseteq OpenChildren(d, p)
  BY <1>1, <1>4 DEF Children, OpenChildren
<1>6. Lineage(e)
  <2>1. \A p \in Proposals : p \in DOMAIN heir => d.proposal[p].parent # NoParent
    BY DEF Absorbs
  <2>2. \A p \in Proposals :
         LET r == e.proposal[p] IN
         /\ r.status = "CANCELADA" => r.cancelled
         /\ r.area = "EXPEDICAO" => r.status \in ShippingStatuses
         /\ p > e.created => ~r.cancelled /\ r.parent = NoParent
         /\ p <= e.created => r.parent < p /\ (r.parent = NoParent => r.active)
    BY <1>1, <1>4, <2>1 DEF Family, Lineage
  <2>3. \A i \in Items : e.item[i].owner <= e.created
    BY <1>1, <1>2 DEF Family, Lineage, Absorbs
  <2>4. QED BY <2>2, <2>3 DEF Lineage
<1>7. Orphans(e)
  <2>1. ASSUME NEW i \in Items
        PROVE  LET p == e.item[i].owner IN
               e.proposal[p].active \/ (e.proposal[p].parent # NoParent /\ Children(e, p) # {})
    <3>1. CASE d.item[i].owner \in DOMAIN heir
      <4> DEFINE c == d.item[i].owner
                 h == heir[c]
      <4>1. /\ e.item[i].owner = h /\ h \in Proposals /\ h <= d.created /\ h \notin DOMAIN heir
            /\ d.proposal[h].active \/ c \in Children(d, h)
        BY <1>2, <3>1 DEF Absorbs
      <4>2. d.proposal[h].parent = NoParent => d.proposal[h].active
        BY <4>1 DEF Family, Lineage
      <4> HIDE DEF c, h
      <4>3. QED BY <1>4, <1>5, <4>1, <4>2
    <3>2. CASE d.item[i].owner \notin DOMAIN heir
      <4> DEFINE c == d.item[i].owner
      <4>1. e.item[i].owner = c /\ c \in Proposals
        BY <1>2, <3>2
      <4>2. d.proposal[c].active \/ (d.proposal[c].parent # NoParent /\ Children(d, c) # {})
        BY DEF Family, Orphans
      <4> HIDE DEF c
      <4>3. QED BY <1>4, <1>5, <3>2, <4>1, <4>2 DEF c
    <3>3. QED BY <3>1, <3>2
  <2>2. ASSUME NEW p \in 1 .. e.created, e.proposal[p].active
        PROVE  ItemsOf(e, p) # {} \/ Children(e, p) # {}
    <3>1. p \in Proposals /\ p \in 1 .. d.created
      BY <1>1, Typed, MaxProposalsAssumption DEF Proposals
    <3>2. d.proposal[p].active /\ p \notin DOMAIN heir
      BY <1>4, <2>2, <3>1
    <3>3. ItemsOf(d, p) \subseteq ItemsOf(e, p)
      BY <1>2, <3>2 DEF ItemsOf
    <3>4. QED BY <1>5, <3>1, <3>2, <3>3 DEF Family, Orphans
  <2>3. QED BY <2>1, <2>2 DEF Orphans
<1>8. Finished(e)
  <2> SUFFICES ASSUME NEW p \in Proposals, e.proposal[p].area = "FINALIZADO"
               PROVE  /\ e.proposal[p].completed /\ ~e.proposal[p].pending
                      /\ \A i \in ItemsOf(e, p) : e.item[i].delivered
    BY DEF Finished
  <2>1. e.proposal[p].completed /\ ~e.proposal[p].pending
    BY <1>4 DEF Family, Finished
  <2>2. ASSUME NEW i \in Items, e.item[i].owner = p PROVE e.item[i].delivered
    <3>1. d.proposal[d.item[i].owner].area = "FINALIZADO"
      BY <1>2, <1>4, <2>2 DEF Absorbs
    <3>2. d.item[i].delivered
      BY <1>2, <3>1 DEF Family, Finished, ItemsOf
    <3>3. QED BY <1>3, <3>2 DEF SamePieces
  <2>3. QED BY <2>1, <2>2 DEF ItemsOf
<1>9. Marked(e)
  <2> SUFFICES ASSUME NEW i \in Items, ReturnedQuantity(e, i) = Qty[i],
                      ~e.proposal[e.item[i].owner].cancelled
               PROVE  e.item[i].galvanized
    BY DEF Marked
  <2>1. ReturnedQuantity(d, i) = Qty[i]
    BY <1>1, SameSums
  <2>2. ~d.proposal[d.item[i].owner].cancelled
    BY <1>2, <1>4 DEF Absorbs
  <2>3. QED BY <1>3, <2>1, <2>2 DEF Family, Marked, SamePieces
<1>10. Settled(d, e)
  <2> SUFFICES ASSUME NEW p \in Proposals, Still(d, p)
               PROVE  /\ e.proposal[p] = d.proposal[p] /\ OpenChildren(e, p) = {}
                      /\ \A i \in Items : e.item[i].owner = p <=> d.item[i].owner = p
                      /\ \A i \in Items : d.item[i].owner = p => e.item[i] = d.item[i] /\ e.exp[i] = d.exp[i]
    BY DEF Settled
  <2>1. p \notin DOMAIN heir /\ \A c \in DOMAIN heir : heir[c] # p
    BY DEF Absorbs, Still
  <2>2. QED BY ZenonT(60), <1>1, <1>2, <1>5, <2>1 DEF Still
<1>11. Shaped(d, e)
  BY <1>1, <1>3, <1>6, <1>7, <1>8, <1>9, <1>10 DEF Shaped, Family
<1>12. QED BY <1>11 DEF e

-----------------------------------------------------------------------------
\* A set of proposals that is not empty has a lowest.
LEMMA LowestProposal ==
  ASSUME NEW S, S \subseteq Proposals, S # {}
  PROVE  Min(S) \in S
<1> DEFINE T == {1 .. x : x \in S}
<1>1. T # {} /\ T \subseteq SUBSET Proposals
  <2>1. \A x \in Proposals : 1 .. x \subseteq Proposals
    BY MaxProposalsAssumption DEF Proposals
  <2>2. QED BY <2>1
<1>2. IsFiniteSet(Proposals)
  BY MaxProposalsAssumption, FS_Interval DEF Proposals
<1>3. PICK t \in T : \A u \in T : u \subseteq t => u = t
  <2> HIDE DEF T
  <2>1. QED BY <1>1, <1>2, Smallest
<1>4. PICK x \in S : t = 1 .. x
  OBVIOUS
<1>5. \A y \in S : x <= y
  <2> SUFFICES ASSUME NEW y \in S, y < x PROVE FALSE
    BY MaxProposalsAssumption DEF Proposals
  <2>1. x \in Nat /\ y \in Nat
    BY MaxProposalsAssumption DEF Proposals
  <2>2. 1 .. y \subseteq t /\ x \in t /\ x \notin 1 .. y
    BY <1>4, <2>1, MaxProposalsAssumption DEF Proposals
  <2>3. QED BY <1>3, <2>2
<1>6. QED BY <1>5 DEF Min

\* Merging siblings shapes the family.
LEMMA MergeShapes ==
  ASSUME NEW d \in Database, Family(d), NEW parent \in Proposals
  PROVE  Shaped(d, MergeEqualStatusChildren(d, parent))
<1> DEFINE open == OpenChildren(d, parent)
           group(c) == {e \in open : GroupKey(d, e) = GroupKey(d, c)}
           merged == {c \in open : Survivor(d, parent, c) # c}
           heir == [c \in merged |-> Survivor(d, parent, c)]
<1>1. \A c \in open : /\ Survivor(d, parent, c) \in open
                      /\ GroupKey(d, Survivor(d, parent, c)) = GroupKey(d, c)
                      /\ Survivor(d, parent, Survivor(d, parent, c)) = Survivor(d, parent, c)
  <2> TAKE c \in open
  <2>1. group(c) \subseteq Proposals /\ group(c) # {}
    BY DEF OpenChildren, Children
  <2>2. Survivor(d, parent, c) = Min(group(c))
    BY DEF Survivor
  <2>3. Survivor(d, parent, c) \in group(c)
    <3> HIDE DEF group
    <3>1. QED BY <2>1, <2>2, LowestProposal
  <2>4. group(Survivor(d, parent, c)) = group(c)
    BY <2>3
  <2>5. Survivor(d, parent, Survivor(d, parent, c)) = Min(group(Survivor(d, parent, c)))
    BY DEF Survivor
  <2>6. QED BY <2>2, <2>3, <2>4, <2>5
<1>2. \A c \in open : /\ c \in Proposals /\ c <= d.created /\ d.proposal[c].active /\ ~d.proposal[c].cancelled
                      /\ d.proposal[c].parent # NoParent
  BY MaxProposalsAssumption DEF OpenChildren, Children, Proposals, NoParent
<1>3. \A c \in open : d.proposal[Survivor(d, parent, c)].area = d.proposal[c].area
  BY <1>1 DEF GroupKey
<1>4. Absorbs(d, heir)
  <2>1. DOMAIN heir = merged /\ \A c \in merged : heir[c] = Survivor(d, parent, c)
    OBVIOUS
  <2>2. \A c \in merged : c \in open /\ heir[c] \in open /\ heir[c] \notin merged
    BY <1>1, <2>1
  <2>3. \A c \in merged : d.proposal[heir[c]].area = d.proposal[c].area
    BY <1>3, <2>1
  <2> HIDE DEF heir, merged, open
  <2>4. QED BY <1>2, <2>1, <2>2, <2>3 DEF Absorbs, Still
<1>5. MergeEqualStatusChildren(d, parent) = AbsorbRows(d, heir)
  BY DEF MergeEqualStatusChildren
<1> HIDE DEF heir
<1>6. QED BY <1>4, <1>5, AbsorbShapes

\* Databases that agree in each component are the same.
LEMMA SameDatabase ==
  ASSUME NEW d \in Database, NEW e \in Database,
         d.created = e.created, d.exp = e.exp, d.load = e.load, d.link = e.link,
         \A i \in Items : d.item[i] = e.item[i], \A p \in Proposals : d.proposal[p] = e.proposal[p]
  PROVE  d = e
<1>1. d.item = e.item /\ d.proposal = e.proposal
  BY DEF Database
<1>2. QED BY <1>1 DEF Database

\* The item and the row after a change of owner.
Handed(item, owner) == [item EXCEPT !.owner = owner]
Retired(row) == [row EXCEPT !.active = FALSE]

\* e is d with the children absorbed; e is d with one row set. Stated by what
\* each component is, so that the two changes can be seen to commute.
AbsorbedInto(d, heir, e) ==
  /\ e.created = d.created /\ e.exp = d.exp /\ e.load = d.load /\ e.link = d.link
  /\ \A i \in Items : e.item[i] =
       IF d.item[i].owner \in DOMAIN heir THEN Handed(d.item[i], heir[d.item[i].owner]) ELSE d.item[i]
  /\ \A p \in Proposals : e.proposal[p] = IF p \in DOMAIN heir THEN Retired(d.proposal[p]) ELSE d.proposal[p]

RowSetTo(d, p, r, e) ==
  /\ e.created = d.created /\ e.item = d.item /\ e.exp = d.exp /\ e.load = d.load /\ e.link = d.link
  /\ e.proposal[p] = r
  /\ \A q \in Proposals : q # p => e.proposal[q] = d.proposal[q]

LEMMA AbsorbRelates ==
  ASSUME NEW d \in Database, NEW heir, \A c \in DOMAIN heir : heir[c] \in Proposals
  PROVE  AbsorbRows(d, heir) \in Database /\ AbsorbedInto(d, heir, AbsorbRows(d, heir))
  BY AbsorbIsTyped DEF AbsorbedInto, Handed, Retired

LEMMA SetRowRelates ==
  ASSUME NEW d \in Database, NEW p \in Proposals, NEW r \in Proposal
  PROVE  SetRow(d, p, r) \in Database /\ RowSetTo(d, p, r, SetRow(d, p, r))
<1> DEFINE e == SetRow(d, p, r)
<1>1. /\ e \in Database /\ e.proposal = [d.proposal EXCEPT ![p] = r]
      /\ e.created = d.created /\ e.item = d.item /\ e.exp = d.exp /\ e.load = d.load /\ e.link = d.link
  BY SetRowIsTyped
<1> HIDE DEF e
<1>2. e.proposal[p] = r /\ \A q \in Proposals : q # p => e.proposal[q] = d.proposal[q]
  BY <1>1, Domains
<1>3. e \in Database /\ RowSetTo(d, p, r, e)
  BY <1>1, <1>2 DEF RowSetTo
<1>4. QED BY <1>3 DEF e

LEMMA AbsorbAndRowCommute ==
  ASSUME NEW d, NEW a, NEW g, NEW b \in Database, NEW h \in Database, NEW heir,
         NEW p \in Proposals, p \notin DOMAIN heir, NEW r,
         AbsorbedInto(d, heir, a), RowSetTo(a, p, r, h),
         RowSetTo(d, p, r, g), AbsorbedInto(g, heir, b)
  PROVE  h = b
<1>1. \A q \in Proposals : h.proposal[q] = b.proposal[q]
  <2> TAKE q \in Proposals
  <2>1. CASE q = p
    BY <2>1 DEF AbsorbedInto, RowSetTo
  <2>2. CASE q # p
    BY <2>2 DEF AbsorbedInto, RowSetTo
  <2>3. QED BY <2>1, <2>2
<1>2. \A i \in Items : h.item[i] = b.item[i]
  BY DEF AbsorbedInto, RowSetTo
<1>3. h.created = b.created /\ h.exp = b.exp /\ h.load = b.load /\ h.link = b.link
  BY DEF AbsorbedInto, RowSetTo
<1>4. QED BY <1>1, <1>2, <1>3, SameDatabase

LEMMA AbsorbThenRow ==
  ASSUME NEW d \in Database, NEW heir, \A c \in DOMAIN heir : heir[c] \in Proposals,
         NEW p \in Proposals, p \notin DOMAIN heir, NEW r \in Proposal
  PROVE  SetRow(AbsorbRows(d, heir), p, r) = AbsorbRows(SetRow(d, p, r), heir)
<1>1. AbsorbRows(d, heir) \in Database /\ AbsorbedInto(d, heir, AbsorbRows(d, heir))
  BY AbsorbRelates
<1>2. SetRow(d, p, r) \in Database /\ RowSetTo(d, p, r, SetRow(d, p, r))
  BY SetRowRelates
<1>3. /\ SetRow(AbsorbRows(d, heir), p, r) \in Database
      /\ RowSetTo(AbsorbRows(d, heir), p, r, SetRow(AbsorbRows(d, heir), p, r))
  BY <1>1, SetRowRelates
<1>4. /\ AbsorbRows(SetRow(d, p, r), heir) \in Database
      /\ AbsorbedInto(SetRow(d, p, r), heir, AbsorbRows(SetRow(d, p, r), heir))
  BY <1>2, AbsorbRelates
<1>5. QED BY <1>1, <1>2, <1>3, <1>4, AbsorbAndRowCommute

\* The mother takes the state that all her children have reached.
RebornAs(row, status) ==
  [row EXCEPT !.area = "EXPEDICAO", !.status = status, !.shipping = status, !.pending = FALSE]

RebornIn(d, p, status) ==
  [d EXCEPT !.proposal[p].area = "EXPEDICAO", !.proposal[p].status = status,
            !.proposal[p].shipping = status, !.proposal[p].pending = FALSE]

LEMMA RebornRow ==
  ASSUME NEW d \in Database, NEW p \in Proposals, NEW status
  PROVE  RebornIn(d, p, status) = SetRow(d, p, RebornAs(d.proposal[p], status))
  BY ZenonT(60), Domains DEF SetRow, RebornAs, RebornIn

LEMMA RebornIs ==
  ASSUME NEW d \in Database, NEW child, NEW parent \in Proposals, d.proposal[child].parent = parent,
         ChildrenConverge(d, parent), ItemsOf(d, parent) = {}, parent \notin OpenChildren(d, parent),
         NEW status, status = d.proposal[CHOOSE c \in OpenChildren(d, parent) : TRUE].status
  PROVE  RebornParent(d, child) =
           SetRow(AbsorbRows(d, [c \in OpenChildren(d, parent) |-> parent]), parent,
                  RebornAs(d.proposal[parent], status))
<1> DEFINE heir == [c \in OpenChildren(d, parent) |-> parent]
           a == AbsorbRows(d, heir)
<1>1. DOMAIN heir = OpenChildren(d, parent) /\ \A c \in DOMAIN heir : heir[c] \in Proposals
  OBVIOUS
<1>2. RebornParent(d, child) = RebornIn(a, parent, status)
  BY MaxProposalsAssumption DEF RebornParent, Proposals, NoParent, RebornIn
<1> HIDE DEF heir
<1>3. a \in Database /\ a.proposal[parent] = d.proposal[parent]
  BY ZenonT(60), <1>1, AbsorbIsTyped
<1> HIDE DEF a
<1>4. RebornParent(d, child) = SetRow(a, parent, RebornAs(a.proposal[parent], status))
  BY <1>2, <1>3, RebornRow
<1>5. QED BY <1>3, <1>4 DEF a, heir

\* A mother whose children agree takes their place.
LEMMA ConvergedShapes ==
  ASSUME NEW d \in Database, Family(d), NEW parent \in Proposals, ChildrenConverge(d, parent),
         NEW status, status = d.proposal[CHOOSE c \in OpenChildren(d, parent) : TRUE].status
  PROVE  /\ parent \notin OpenChildren(d, parent)
         /\ Shaped(d, SetRow(AbsorbRows(d, [c \in OpenChildren(d, parent) |-> parent]), parent,
                             RebornAs(d.proposal[parent], status)))
<1> DEFINE open == OpenChildren(d, parent)
           heir == [c \in open |-> parent]
           r == RebornAs(d.proposal[parent], status)
           g == SetRow(d, parent, r)
<1>1. open # {} /\ \A c \in open : d.proposal[c].area = "EXPEDICAO"
  BY DEF ChildrenConverge
<1>2. \A c \in open : /\ c \in Proposals /\ c <= d.created /\ d.proposal[c].active /\ ~d.proposal[c].cancelled
                      /\ d.proposal[c].parent = parent /\ c \in Children(d, parent)
  BY DEF OpenChildren, Children
<1>3. status \in ShippingStatuses
  <2>1. \A c \in open : d.proposal[c].status \in ShippingStatuses
    BY <1>1, <1>2 DEF Family, Lineage
  <2>2. QED BY <1>1, <2>1
<1>4. parent \notin open /\ parent <= d.created /\ parent # NoParent
  <2>1. \A c \in open : parent < c
    BY <1>2 DEF Family, Lineage
  <2>2. parent \in Nat /\ d.created \in Nat /\ \A c \in open : c \in Nat
    BY <1>2, MaxProposalsAssumption, Typed DEF Proposals
  <2>3. parent # NoParent
    BY MaxProposalsAssumption DEF Proposals, NoParent
  <2> HIDE DEF open
  <2>4. QED BY <1>1, <1>2, <2>1, <2>2, <2>3
<1>5. /\ r \in Proposal /\ r.parent = d.proposal[parent].parent /\ r.active = d.proposal[parent].active
      /\ r.cancelled = d.proposal[parent].cancelled /\ r.status = status /\ r.area = "EXPEDICAO"
  <2>1. d.proposal[parent] \in Proposal
    BY Typed
  <2>2. QED BY <1>3, <2>1 DEF Proposal, Areas, Statuses, RebornAs
<1> HIDE DEF r
<1>6. Shaped(d, g)
  <2>1. RowChange(d, parent, r)
    BY <1>1, <1>3, <1>5 DEF RowChange, Still, ShippingStatuses
  <2>2. QED BY <1>5, <2>1, SetRowShapes
<1>7. /\ g \in Database /\ g.proposal = [d.proposal EXCEPT ![parent] = r]
      /\ g.created = d.created /\ g.item = d.item /\ g.exp = d.exp /\ g.load = d.load /\ g.link = d.link
  BY <1>5, SetRowIsTyped
<1> HIDE DEF g
<1>8. g.proposal[parent] = r /\ \A p \in Proposals : p # parent => g.proposal[p] = d.proposal[p]
  BY <1>7, Domains
<1>9. Absorbs(g, heir)
  <2>1. \A c \in open : c # parent /\ g.proposal[c] = d.proposal[c]
    BY <1>2, <1>4, <1>8
  <2>2. open \subseteq OpenChildren(g, parent) /\ open \subseteq Children(g, parent)
    BY <1>2, <1>7, <2>1 DEF OpenChildren, Children
  <2>3. DOMAIN heir = open /\ \A c \in open : heir[c] = parent
    OBVIOUS
  <2>4. ~Still(g, parent)
    BY <1>1, <2>2 DEF Still
  <2>5. ~(g.proposal[parent].area = "FINALIZADO")
    BY <1>5, <1>8
  <2> HIDE DEF heir, open
  <2>6. QED BY <1>2, <1>4, <1>7, <2>1, <2>2, <2>3, <2>4, <2>5 DEF Absorbs
<1>10. Shaped(g, AbsorbRows(g, heir))
  <2> HIDE DEF heir
  <2>1. QED BY <1>6, <1>7, <1>9, AbsorbShapes DEF Shaped
<1>11. SetRow(AbsorbRows(d, heir), parent, r) = AbsorbRows(g, heir)
  <2>1. DOMAIN heir = open /\ \A c \in DOMAIN heir : heir[c] \in Proposals
    OBVIOUS
  <2> HIDE DEF heir, open
  <2>2. QED BY <1>4, <1>5, <2>1, AbsorbThenRow DEF g
<1>12. Shaped(d, SetRow(AbsorbRows(d, heir), parent, r))
  <2> HIDE DEF heir
  <2>1. QED BY <1>6, <1>10, <1>11, ShapedTransitive
<1>13. QED BY <1>4, <1>12 DEF r

LEMMA RebornShapes ==
  ASSUME NEW d \in Database, Family(d), NEW child \in Proposals
  PROVE  Shaped(d, RebornParent(d, child))
<1> DEFINE parent == d.proposal[child].parent
<1>1. CASE parent = NoParent \/ ~ChildrenConverge(d, parent) \/ ItemsOf(d, parent) # {}
  <2>1. RebornParent(d, child) = d
    BY <1>1 DEF RebornParent
  <2>2. QED BY <2>1, RowsShape
<1>2. CASE ~(parent = NoParent \/ ~ChildrenConverge(d, parent) \/ ItemsOf(d, parent) # {})
  <2> DEFINE status == d.proposal[CHOOSE c \in OpenChildren(d, parent) : TRUE].status
  <2>1. parent \in Proposals
    BY <1>2, Typed DEF Proposal
  <2>2. /\ d.proposal[child].parent = parent /\ ChildrenConverge(d, parent) /\ ItemsOf(d, parent) = {}
        /\ status = d.proposal[CHOOSE c \in OpenChildren(d, parent) : TRUE].status
    BY <1>2
  <2> HIDE DEF parent, status
  <2>3. parent \notin OpenChildren(d, parent)
    BY <2>1, <2>2, ConvergedShapes
  <2>4. RebornParent(d, child) =
           SetRow(AbsorbRows(d, [c \in OpenChildren(d, parent) |-> parent]), parent,
                  RebornAs(d.proposal[parent], status))
    BY <2>1, <2>2, <2>3, RebornIs
  <2>5. Shaped(d, SetRow(AbsorbRows(d, [c \in OpenChildren(d, parent) |-> parent]), parent,
                         RebornAs(d.proposal[parent], status)))
    BY <2>1, <2>2, ConvergedShapes
  <2>6. QED BY <2>4, <2>5
<1>3. QED BY <1>1, <1>2
-----------------------------------------------------------------------------
\* e is d with the items S of p divided over the new children ids.
SplitInto(d, p, S, at, ids, e) ==
  /\ ids \subseteq Proposals /\ ids # {}
  /\ \A c \in Proposals : c <= e.created <=> c <= d.created \/ c \in ids
  /\ \A c \in Proposals : c > e.created => c > d.created /\ c \notin ids
  /\ \A c \in ids : ~(c <= d.created) /\ c > d.created /\ p < c
  /\ \A i \in S : at[i] \in ids
  /\ \A c \in ids : \E i \in S : at[i] = c
  /\ e.exp = d.exp /\ e.load = d.load /\ e.link = d.link
  /\ \A i \in Items : e.item[i] = IF i \in S THEN Handed(d.item[i], at[i]) ELSE d.item[i]
  /\ \A c \in Proposals \ ids : e.proposal[c] = d.proposal[c]
  /\ \A c \in ids :
       LET r == e.proposal[c] IN
       /\ r.parent = p /\ r.active /\ ~r.cancelled
       /\ <<r.area, r.status>> \in {<<"GALVANIZACAO", "AGUARDANDO_ENVIO">>, <<"EXPEDICAO", "EM_SEPARACAO">>}

\* The numbers of the next n proposals.
NewIds(d, n) == d.created + 1 .. d.created + n

\* A proposal is split only if its items go to more than one area.
LEMMA TwoDestinations ==
  ASSUME NEW S, S \subseteq Items
  PROVE  LET groups == {Destination(i) : i \in S} IN IsFiniteSet(groups) /\ Cardinality(groups) \in Nat
<1>1. {Destination(i) : i \in S} \subseteq {"GALVANIZACAO", "EXPEDICAO"}
  BY DEF Destination
<1>2. IsFiniteSet({"GALVANIZACAO", "EXPEDICAO"})
  <2>1. IsFiniteSet({"GALVANIZACAO"} \cup {"EXPEDICAO"})
    BY FS_Singleton, FS_AddElement
  <2>2. QED BY <2>1, FS_Singleton, FS_AddElement
<1>3. QED BY <1>1, <1>2, FS_Subset, FS_CardinalityType

LEMMA HandedIsTyped ==
  ASSUME NEW x \in Item, NEW p \in Proposals
  PROVE  /\ Handed(x, p) \in Item /\ Handed(x, p).owner = p
         /\ Handed(x, p).produce = x.produce /\ Handed(x, p).galvanize = x.galvanize
         /\ Handed(x, p).produced = x.produced /\ Handed(x, p).galvanized = x.galvanized
         /\ Handed(x, p).delivered = x.delivered
  BY DEF Handed, Item

\* The database with the new rows and owners.
Moved(d, created, rows, items) == [d EXCEPT !.created = created, !.proposal = rows, !.item = items]
WithRows(d, rows) == [d EXCEPT !.proposal = rows]

LEMMA MovedIsTyped ==
  ASSUME NEW d \in Database, NEW created \in Proposals, NEW rows \in [Proposals -> Proposal],
         NEW items \in [Items -> Item]
  PROVE  LET e == Moved(d, created, rows, items) IN
         /\ e \in Database /\ e.created = created /\ e.proposal = rows /\ e.item = items
         /\ e.exp = d.exp /\ e.load = d.load /\ e.link = d.link
  BY DEF Database, Moved

LEMMA RowsIsTyped ==
  ASSUME NEW d \in Database, NEW rows \in [Proposals -> Proposal]
  PROVE  LET e == WithRows(d, rows) IN
         /\ e \in Database /\ e.created = d.created /\ e.proposal = rows /\ e.item = d.item
         /\ e.exp = d.exp /\ e.load = d.load /\ e.link = d.link
  BY DEF Database, WithRows

LEMMA NewChildIsTyped ==
  ASSUME NEW p \in Proposals
  PROVE  /\ NewChild(p) \in Proposal /\ NewChild(p).parent = p /\ NewChild(p).active
         /\ ~NewChild(p).cancelled
  BY DEF NewChild, Proposal, Areas, Statuses, ProductionStatuses, ShippingStatuses

\* Splitting does what SplitInto says, and that shapes the family.
LEMMA SplitRelates ==
  ASSUME NEW d \in Database, NEW p \in Proposals, p <= d.created, NEW S, S \subseteq Items, S # {},
         NEW n \in Nat, d.created + n <= MaxProposals,
         n = Cardinality({Destination(i) : i \in S}),
         NEW child \in Bijection({Destination(i) : i \in S}, NewIds(d, n))
  PROVE  LET e == SplitChildren(d, p, S, child)
             at == [i \in S |-> child[Destination(i)]]
         IN  /\ e \in Database /\ e.created = d.created + n
             /\ SplitInto(d, p, S, at, NewIds(d, n), e)
<1> DEFINE groups == {Destination(i) : i \in S}
           at == [i \in S |-> child[Destination(i)]]
           ids == {child[g] : g \in DOMAIN child}
           part(c) == {i \in S : child[Destination(i)] = c}
           rows == [c \in Proposals |-> IF c \in ids THEN NewChild(p) ELSE d.proposal[c]]
           items == [i \in Items |-> IF i \in S THEN Handed(d.item[i], child[Destination(i)]) ELSE d.item[i]]
           moved == Moved(d, d.created + n, rows, items)
           final(c) == FinalizeDestination(moved, c, part(c)).proposal[c]
           later == [c \in Proposals |-> IF c \in ids THEN final(c) ELSE moved.proposal[c]]
           e == WithRows(moved, later)
<1>1. /\ child \in [groups -> NewIds(d, n)] /\ \A c \in NewIds(d, n) : \E g \in groups : child[g] = c
  BY DEF Bijection, Injection, Surjection
<1>2. ids = NewIds(d, n)
  BY <1>1
<1>3. d.created \in Nat /\ d.created >= 1 /\ d.created + n \in Proposals /\ NewIds(d, n) \subseteq Proposals
  <2>1. d.created \in 1 .. MaxProposals /\ MaxProposals \in Nat
    BY Typed, MaxProposalsAssumption DEF Proposals
  <2>2. d.created + n \in 1 .. MaxProposals /\ d.created \in Nat /\ d.created >= 1
    BY <2>1
  <2>3. \A c \in d.created + 1 .. d.created + n : c \in 1 .. MaxProposals
    BY <2>1, <2>2
  <2>4. QED BY <2>2, <2>3 DEF Proposals, NewIds
<1>4. Cardinality(ids) = n
  <2>1. Cardinality(NewIds(d, n)) = n
    <3> DEFINE a == d.created + 1
               b == d.created + n
    <3>1. a \in Int /\ b \in Int /\ b - a + 1 = n /\ (a > b => n = 0)
      BY <1>3
    <3> HIDE DEF a, b
    <3>2. Cardinality(a .. b) = n
      BY <3>1, FS_Interval
    <3>3. QED BY <3>2 DEF NewIds, a, b
  <2>2. QED BY <1>2, <2>1
<1>5. \A i \in S : child[Destination(i)] \in NewIds(d, n)
  BY <1>1
<1>6. rows \in [Proposals -> Proposal]
  BY Typed, NewChildIsTyped
<1>7. items \in [Items -> Item]
  BY <1>3, <1>5, Typed, HandedIsTyped
<1>8. /\ moved \in Database /\ moved.created = d.created + n /\ moved.proposal = rows /\ moved.item = items
      /\ moved.exp = d.exp /\ moved.load = d.load /\ moved.link = d.link
  <2> HIDE DEF rows, items
  <2>1. QED BY <1>3, <1>6, <1>7, MovedIsTyped
<1>9. SplitChildren(d, p, S, child) = e
  BY <1>4 DEF SplitChildren, Handed, Moved, WithRows
<1>10. \A c \in ids : /\ moved.proposal[c].parent = p /\ moved.proposal[c].active
                      /\ ~moved.proposal[c].cancelled
  <2> HIDE DEF moved
  <2>1. QED BY <1>2, <1>3, <1>8, NewChildIsTyped
<1> HIDE DEF moved
<1>11. \A c \in ids :
         /\ final(c) \in Proposal /\ final(c).parent = p /\ final(c).active /\ ~final(c).cancelled
         /\ <<final(c).area, final(c).status>>
              \in {<<"GALVANIZACAO", "AGUARDANDO_ENVIO">>, <<"EXPEDICAO", "EM_SEPARACAO">>}
  <2> TAKE c \in ids
  <2>1. c \in Proposals
    BY <1>2, <1>3
  <2>2. PICK r \in Proposal :
           /\ FinalizeDestination(moved, c, part(c)) = SetRow(moved, c, r)
           /\ r.parent = moved.proposal[c].parent /\ r.active = moved.proposal[c].active
           /\ r.cancelled = moved.proposal[c].cancelled
           /\ <<r.area, r.status>> \in {<<"GALVANIZACAO", "AGUARDANDO_ENVIO">>, <<"EXPEDICAO", "EM_SEPARACAO">>}
    <3> HIDE DEF part
    <3>1. QED BY <1>8, <2>1, FinalizeIsRow
  <2>3. SetRow(moved, c, r).proposal[c] = r
    BY <1>8, <2>1, SetRowRelates DEF RowSetTo
  <2>4. QED BY <1>10, <2>2, <2>3
<1> HIDE DEF final, ids
<1>12. later \in [Proposals -> Proposal]
  <2>1. \A c \in Proposals : moved.proposal[c] \in Proposal
    BY <1>8, Typed
  <2>2. QED BY <1>11, <2>1
<1>13. /\ e \in Database /\ e.created = moved.created /\ e.proposal = later /\ e.item = moved.item
       /\ e.exp = moved.exp /\ e.load = moved.load /\ e.link = moved.link
  <2> HIDE DEF later
  <2>1. QED BY <1>8, <1>12, RowsIsTyped
<1>14. \A c \in Proposals : e.proposal[c] = IF c \in ids THEN final(c) ELSE d.proposal[c]
  <2>1. \A c \in Proposals : c \notin ids => moved.proposal[c] = d.proposal[c]
    BY <1>8
  <2>2. e.proposal = later
    BY <1>13
  <2> HIDE DEF e
  <2>3. QED BY <2>1, <2>2
<1>15. \A i \in Items : e.item[i] = IF i \in S THEN Handed(d.item[i], at[i]) ELSE d.item[i]
  <2>1. e.item = items
    BY <1>8, <1>13
  <2> HIDE DEF e
  <2>2. QED BY <2>1
<1>16. e.exp = d.exp /\ e.load = d.load /\ e.link = d.link /\ e.created = d.created + n /\ e \in Database
  BY <1>8, <1>13
<1>17. /\ \A i \in S : at[i] \in NewIds(d, n)
       /\ \A c \in NewIds(d, n) : \E i \in S : at[i] = c
       /\ NewIds(d, n) # {}
  BY <1>1
<1> HIDE DEF e, at
<1>18. ASSUME NEW c \in Proposals
       PROVE  /\ c <= e.created <=> c <= d.created \/ c \in ids
              /\ c > e.created => c > d.created /\ c \notin ids
              /\ c \in ids => ~(c <= d.created) /\ c > d.created /\ p < c
  <2>1. c \in Nat /\ p \in Nat
    BY MaxProposalsAssumption DEF Proposals
  <2>2. c \in ids <=> d.created < c /\ c <= d.created + n
    BY <1>2, <1>3, <2>1 DEF NewIds
  <2>3. c <= e.created <=> c <= d.created \/ c \in ids
    BY <1>3, <1>16, <2>1, <2>2
  <2>4. c > e.created => c > d.created /\ c \notin ids
    BY <1>3, <1>16, <2>1, <2>2
  <2>5. c \in ids => ~(c <= d.created) /\ c > d.created
    BY <1>3, <2>1, <2>2
  <2>6. c \in ids => p < c
    BY <1>3, <2>1, <2>2
  <2>7. QED BY <2>3, <2>4, <2>5, <2>6
<1>19. ids \subseteq Proposals /\ ids # {}
  BY <1>2, <1>3, <1>17
<1>20. SplitInto(d, p, S, at, ids, e)
  <2>1. \A i \in S : at[i] \in ids
    BY <1>2, <1>17
  <2>2. \A c \in ids : \E i \in S : at[i] = c
    BY <1>2, <1>17
  <2>3. \A c \in Proposals \ ids : e.proposal[c] = d.proposal[c]
    BY <1>14
  <2>4. \A c \in ids : e.proposal[c] = final(c)
    BY <1>14, <1>19
  <2>5. \A c \in Proposals : c \in ids => ~(c <= d.created) /\ c > d.created /\ p < c
    BY <1>18
  <2>6. \A c \in ids : ~(c <= d.created) /\ c > d.created /\ p < c
    BY <1>19, <2>5
  <2>7. \A c \in ids :
       LET r == e.proposal[c] IN
       /\ r.parent = p /\ r.active /\ ~r.cancelled
       /\ <<r.area, r.status>> \in {<<"GALVANIZACAO", "AGUARDANDO_ENVIO">>, <<"EXPEDICAO", "EM_SEPARACAO">>}
    BY <1>11, <2>4
  <2>8. QED BY <1>15, <1>16, <1>18, <1>19, <2>1, <2>2, <2>3, <2>6, <2>7 DEF SplitInto
<1>21. QED BY <1>2, <1>9, <1>16, <1>20 DEF at

LEMMA SplitShapes ==
  ASSUME NEW d \in Database, Family(d), NEW p \in Proposals, p <= d.created,
         ~d.proposal[p].cancelled, d.proposal[p].area = "PRODUCAO",
         NEW S, S \subseteq ItemsOf(d, p),
         NEW e \in Database, NEW at, NEW ids, SplitInto(d, p, S, at, ids, e)
  PROVE  Shaped(d, e)
<1>1. /\ \A c \in Proposals : c <= e.created <=> c <= d.created \/ c \in ids
      /\ \A c \in Proposals : c > e.created => c > d.created /\ c \notin ids
      /\ \A c \in ids : c \in Proposals /\ ~(c <= d.created) /\ c > d.created /\ p < c
  BY DEF SplitInto
<1>2. p \notin ids
  BY <1>1
<1>25. /\ \A i \in S : at[i] \in ids /\ at[i] \in Proposals /\ i \in Items
       /\ \A c \in ids : c \in Proposals /\ \E i \in S : at[i] = c
       /\ ids # {}
  BY DEF SplitInto, ItemsOf
<1>3. \A i \in Items : /\ d.item[i] \in Item /\ d.item[i].owner \in Proposals
                       /\ d.item[i].owner <= d.created /\ d.item[i].owner \notin ids
  BY <1>1, Typed DEF Item, Family, Lineage
<1>4. \A i \in Items : /\ i \in S => e.item[i].owner = at[i] /\ d.item[i].owner = p
                       /\ i \notin S => e.item[i] = d.item[i]
  <2> TAKE i \in Items
  <2>1. ASSUME i \in S PROVE e.item[i].owner = at[i] /\ d.item[i].owner = p
    <3>1. e.item[i] = Handed(d.item[i], at[i])
      BY <2>1 DEF SplitInto
    <3>2. QED BY <1>3, <1>25, <2>1, <3>1, HandedIsTyped DEF ItemsOf
  <2>2. i \notin S => e.item[i] = d.item[i]
    BY DEF SplitInto
  <2>3. QED BY <2>1, <2>2
<1>5. SamePieces(d, e)
  <2> SUFFICES ASSUME NEW i \in Items
               PROVE  /\ e.item[i].produce = d.item[i].produce /\ e.item[i].galvanize = d.item[i].galvanize
                      /\ e.item[i].produced = d.item[i].produced /\ e.item[i].galvanized = d.item[i].galvanized
                      /\ e.item[i].delivered = d.item[i].delivered
    BY DEF SamePieces, SplitInto
  <2>1. CASE i \in S
    <3>1. e.item[i] = Handed(d.item[i], at[i]) /\ at[i] \in Proposals
      BY <1>25, <2>1 DEF SplitInto
    <3>2. QED BY <1>3, <3>1, HandedIsTyped
  <2>2. CASE i \notin S
    BY <2>2 DEF SplitInto
  <2>3. QED BY <2>1, <2>2
<1>6. \A q \in Proposals \ ids : e.proposal[q] = d.proposal[q]
  BY DEF SplitInto
<1>7. \A c \in ids :
        /\ e.proposal[c].parent = p /\ e.proposal[c].active /\ ~e.proposal[c].cancelled
        /\ e.proposal[c].area # "FINALIZADO" /\ e.proposal[c].status # "CANCELADA"
        /\ e.proposal[c].area = "EXPEDICAO" => e.proposal[c].status \in ShippingStatuses
  BY DEF SplitInto, ShippingStatuses
<1>8. \A q \in Proposals : /\ Children(d, q) \subseteq Children(e, q)
                           /\ q # p => Children(e, q) \subseteq Children(d, q)
  BY <1>1, <1>2, <1>6, <1>7 DEF Children
<1>9. Children(e, p) # {}
  BY <1>1, <1>2, <1>25, <1>7 DEF Children
<1>10. Lineage(e)
  <2>1. ASSUME NEW q \in Proposals
        PROVE  LET r == e.proposal[q] IN
               /\ r.status = "CANCELADA" => r.cancelled
               /\ r.area = "EXPEDICAO" => r.status \in ShippingStatuses
               /\ q > e.created => ~r.cancelled /\ r.parent = NoParent
               /\ q <= e.created => r.parent < q /\ (r.parent = NoParent => r.active)
    <3>1. CASE q \in ids
      BY <1>1, <1>2, <1>7, <1>25, <3>1
    <3>2. CASE q \notin ids
      BY <1>1, <1>2, <1>6, <3>2 DEF Family, Lineage
    <3>3. QED BY <3>1, <3>2
  <2>2. \A i \in Items : e.item[i].owner <= e.created
    BY <1>1, <1>2, <1>3, <1>4, <1>25
  <2>3. QED BY <2>1, <2>2 DEF Lineage
<1>11. Orphans(e)
  <2>1. ASSUME NEW i \in Items
        PROVE  LET q == e.item[i].owner IN
               e.proposal[q].active \/ (e.proposal[q].parent # NoParent /\ Children(e, q) # {})
    <3>1. CASE i \in S
      BY <1>4, <1>7, <1>25, <3>1
    <3>2. CASE i \notin S
      <4>1. e.item[i].owner = d.item[i].owner /\ d.item[i].owner \in Proposals \ ids
        BY <1>1, <1>2, <1>3, <1>4, <3>2
      <4>2. LET q == d.item[i].owner IN
            d.proposal[q].active \/ (d.proposal[q].parent # NoParent /\ Children(d, q) # {})
        BY DEF Family, Orphans
      <4> DEFINE q == d.item[i].owner
      <4>3. /\ q \in Proposals /\ e.item[i].owner = q /\ e.proposal[q] = d.proposal[q]
            /\ d.proposal[q].active \/ (d.proposal[q].parent # NoParent /\ Children(d, q) # {})
        BY <1>6, <4>1, <4>2
      <4> HIDE DEF q
      <4>4. QED BY <1>8, <4>3
    <3>3. QED BY <3>1, <3>2
  <2>2. ASSUME NEW q \in 1 .. e.created, e.proposal[q].active
        PROVE  ItemsOf(e, q) # {} \/ Children(e, q) # {}
    <3>1. q \in Proposals
      BY Typed, MaxProposalsAssumption DEF Proposals
    <3>2. CASE q \in ids
      BY <1>4, <1>25, <3>2 DEF ItemsOf, SplitInto
    <3>3. CASE q = p
      BY <1>9, <3>3
    <3>4. CASE q \notin ids /\ q # p
      <4>1. q \in 1 .. d.created /\ d.proposal[q].active
        BY <1>1, <1>2, <1>6, <2>2, <3>1, <3>4
      <4>2. ItemsOf(d, q) \subseteq ItemsOf(e, q)
        BY <1>4, <3>4 DEF ItemsOf
      <4>3. ItemsOf(d, q) # {} \/ Children(d, q) # {}
        BY <4>1 DEF Family, Orphans
      <4>4. QED BY <1>8, <3>1, <4>2, <4>3
    <3>5. QED BY <3>2, <3>3, <3>4
  <2>3. QED BY <2>1, <2>2 DEF Orphans
<1>12. Finished(e)
  <2> SUFFICES ASSUME NEW q \in Proposals, e.proposal[q].area = "FINALIZADO"
               PROVE  /\ e.proposal[q].completed /\ ~e.proposal[q].pending
                      /\ \A i \in ItemsOf(e, q) : e.item[i].delivered
    BY DEF Finished
  <2>1. q \notin ids /\ e.proposal[q] = d.proposal[q]
    BY <1>6, <1>7
  <2>2. ItemsOf(e, q) \subseteq ItemsOf(d, q)
    BY <1>4, <1>25, <2>1 DEF ItemsOf
  <2>3. QED BY <1>5, <2>1, <2>2 DEF Family, Finished, SamePieces, ItemsOf
<1>13. Marked(e)
  <2> SUFFICES ASSUME NEW i \in Items, ReturnedQuantity(e, i) = Qty[i],
                      ~e.proposal[e.item[i].owner].cancelled
               PROVE  e.item[i].galvanized
    BY DEF Marked
  <2>1. ReturnedQuantity(d, i) = Qty[i]
    BY SameSums DEF SplitInto
  <2>2. ~d.proposal[d.item[i].owner].cancelled
    BY <1>1, <1>2, <1>3, <1>4, <1>6
  <2>3. QED BY <1>5, <2>1, <2>2 DEF Family, Marked, SamePieces
<1>14. Settled(d, e)
  <2> SUFFICES ASSUME NEW q \in Proposals, Still(d, q)
               PROVE  /\ e.proposal[q] = d.proposal[q] /\ OpenChildren(e, q) = {}
                      /\ \A i \in Items : e.item[i].owner = q <=> d.item[i].owner = q
                      /\ \A i \in Items : d.item[i].owner = q => e.item[i] = d.item[i] /\ e.exp[i] = d.exp[i]
    BY DEF Settled
  <2>1. q # p /\ q \notin ids
    BY <1>1, <1>2 DEF Still, Family, Lineage
  <2>2. e.proposal[q] = d.proposal[q]
    BY <1>6, <2>1
  <2>3. OpenChildren(e, q) = {}
    <3>1. \A c \in Children(e, q) : c \in Children(d, q) /\ c \in Proposals /\ c <= d.created
      BY <1>8, <2>1 DEF Children
    <3>3. \A c \in Children(e, q) : c \in Children(d, q) /\ c \in Proposals \ ids
      BY <1>1, <3>1
    <3>2. QED BY <1>6, <3>3 DEF OpenChildren, Still
  <2>4. \A i \in Items : /\ e.item[i].owner = q <=> d.item[i].owner = q
                         /\ d.item[i].owner = q => e.item[i] = d.item[i] /\ e.exp[i] = d.exp[i]
    BY <1>4, <2>1 DEF SplitInto
  <2>5. QED BY <2>2, <2>3, <2>4
<1>15. QED BY <1>5, <1>10, <1>11, <1>12, <1>13, <1>14 DEF Shaped, Family

\* The folds over the mothers of a family: each step shapes, so the whole does.
LEMMA ConvergeFamilyShapes ==
  ASSUME NEW d \in Database, Family(d), NEW p \in Proposals, NEW split
  PROVE  Shaped(d, ConvergeFamily(d, p, split))
<1> DEFINE own == IF split THEN MergeEqualStatusChildren(d, p) ELSE d
           parent == d.proposal[p].parent
           merged == MergeEqualStatusChildren(own, parent)
<1>1. Shaped(d, own)
  <2>1. Shaped(d, d)
    BY RowsShape
  <2>2. QED BY <2>1, MergeShapes
<1> HIDE DEF own
<1>2. CASE parent = NoParent
  BY <1>1, <1>2 DEF ConvergeFamily, own
<1>3. CASE parent # NoParent
  <2>1. parent \in Proposals
    BY <1>3, Typed DEF Proposal
  <2>2. Shaped(own, merged)
    BY <1>1, <2>1, MergeShapes DEF Shaped
  <2>3. Shaped(merged, RebornParent(merged, p))
    BY <2>2, RebornShapes DEF Shaped
  <2>4. ConvergeFamily(d, p, split) = RebornParent(merged, p)
    BY <1>3 DEF ConvergeFamily, own
  <2>5. QED BY <1>1, <2>2, <2>3, <2>4, ShapedTransitive
<1>4. QED BY <1>2, <1>3

LEMMA MergeAllShapes ==
  ASSUME NEW d \in Database, Family(d), NEW P, P \subseteq Proposals
  PROVE  Shaped(d, FoldSet(LAMBDA p, e : MergeEqualStatusChildren(e, p), d, P))
<1> DEFINE D == {e \in Database : Shaped(d, e)}
           step == [z \in P \X D |-> MergeEqualStatusChildren(z[2], z[1])]
           pick == [s \in SUBSET P |-> Pick(s)]
           Solves(h) == h = [s \in SUBSET P |-> IF s = {} THEN d
                                                ELSE MergeEqualStatusChildren(h[s \ {Pick(s)}], Pick(s))]
           iter == CHOOSE h : Solves(h)
<1>1. IsFiniteSet(P)
  <2>1. IsFiniteSet(Proposals)
    BY FS_Interval, MaxProposalsAssumption DEF Proposals
  <2>2. QED BY <2>1, FS_Subset
<1>2. d \in D
  BY RowsShape
<1>3. \A x \in P, e \in D : MergeEqualStatusChildren(e, x) \in D
  <2> SUFFICES ASSUME NEW x \in P, NEW e \in D PROVE Shaped(d, MergeEqualStatusChildren(e, x))
    BY DEF Shaped
  <2>1. Shaped(e, MergeEqualStatusChildren(e, x))
    BY MergeShapes DEF Shaped
  <2>2. QED BY <2>1, ShapedTransitive
<1>4. \A x \in P, e \in D : step[<<x, e>>] = MergeEqualStatusChildren(e, x)
  OBVIOUS
<1>5. PICK h : IsFold(h, step, d, pick, P)
  <2>1. Picks(pick, P)
    BY PickIsMember DEF Picks
  <2> HIDE DEF step, pick
  <2>2. QED BY <1>1, <2>1, FoldExists
<1>6. \A s \in SUBSET P : h[s] \in D
  <2>1. \A x \in P, e \in D : step[<<x, e>>] \in D
    <3> HIDE DEF step, D
    <3>1. QED BY <1>3, <1>4
  <2>2. Picks(pick, P)
    BY PickIsMember DEF Picks
  <2> HIDE DEF step, D, pick
  <2>3. QED BY <1>1, <1>2, <1>5, <2>1, <2>2, FoldStays
<1>7. Solves(h)
  <2>1. \A s \in SUBSET P : s # {} => Pick(s) \in P /\ h[s \ {Pick(s)}] \in D
    BY <1>6, PickIsMember
  <2>2. \A s \in SUBSET P : s # {} =>
          step[<<Pick(s), h[s \ {Pick(s)}]>>] = MergeEqualStatusChildren(h[s \ {Pick(s)}], Pick(s))
    <3> HIDE DEF D, step
    <3>1. QED BY <1>4, <2>1
  <2> HIDE DEF D, step
  <2>3. QED BY <1>5, <2>2 DEF IsFold
<1>8. Solves(iter)
  BY <1>7
<1>9. FoldSet(LAMBDA p, e : MergeEqualStatusChildren(e, p), d, P) = iter[P]
  BY DEF FoldSet, MapThenFoldSet, Pick
<1> HIDE DEF iter
<1>10. \A s \in SUBSET P : iter[s] \in D
  <2> DEFINE T == {s \in SUBSET P : iter[s] \notin D}
  <2> SUFFICES ASSUME T # {} PROVE FALSE
    OBVIOUS
  <2>1. PICK s \in T : \A t \in T : t \subseteq s => t = s
    <3>1. T \subseteq SUBSET P
      OBVIOUS
    <3> HIDE DEF T
    <3>2. QED BY <1>1, <3>1, Smallest
  <2> HIDE DEF D
  <2>2. s # {}
    BY <1>2, <1>8
  <2>3. Pick(s) \in s /\ Pick(s) \in P
    BY <2>2, PickIsMember
  <2>4. iter[s \ {Pick(s)}] \in D
    BY <2>1, <2>3
  <2>5. iter[s] = MergeEqualStatusChildren(iter[s \ {Pick(s)}], Pick(s))
    BY <1>8, <2>2
  <2>6. QED BY <1>3, <2>1, <2>3, <2>4, <2>5
<1>11. QED BY <1>9, <1>10

LEMMA RebornAllShapes ==
  ASSUME NEW d \in Database, Family(d), NEW P, P \subseteq Proposals
  PROVE  Shaped(d, FoldSet(LAMBDA p, e : RebornParent(e, p), d, P))
<1> DEFINE D == {e \in Database : Shaped(d, e)}
           step == [z \in P \X D |-> RebornParent(z[2], z[1])]
           pick == [s \in SUBSET P |-> Pick(s)]
           Solves(h) == h = [s \in SUBSET P |-> IF s = {} THEN d
                                                ELSE RebornParent(h[s \ {Pick(s)}], Pick(s))]
           iter == CHOOSE h : Solves(h)
<1>1. IsFiniteSet(P)
  <2>1. IsFiniteSet(Proposals)
    BY FS_Interval, MaxProposalsAssumption DEF Proposals
  <2>2. QED BY <2>1, FS_Subset
<1>2. d \in D
  BY RowsShape
<1>3. \A x \in P, e \in D : RebornParent(e, x) \in D
  <2> SUFFICES ASSUME NEW x \in P, NEW e \in D PROVE Shaped(d, RebornParent(e, x))
    BY DEF Shaped
  <2>1. Shaped(e, RebornParent(e, x))
    BY RebornShapes DEF Shaped
  <2>2. QED BY <2>1, ShapedTransitive
<1>4. \A x \in P, e \in D : step[<<x, e>>] = RebornParent(e, x)
  OBVIOUS
<1>5. PICK h : IsFold(h, step, d, pick, P)
  <2>1. Picks(pick, P)
    BY PickIsMember DEF Picks
  <2> HIDE DEF step, pick
  <2>2. QED BY <1>1, <2>1, FoldExists
<1>6. \A s \in SUBSET P : h[s] \in D
  <2>1. \A x \in P, e \in D : step[<<x, e>>] \in D
    <3> HIDE DEF step, D
    <3>1. QED BY <1>3, <1>4
  <2>2. Picks(pick, P)
    BY PickIsMember DEF Picks
  <2> HIDE DEF step, D, pick
  <2>3. QED BY <1>1, <1>2, <1>5, <2>1, <2>2, FoldStays
<1>7. Solves(h)
  <2>1. \A s \in SUBSET P : s # {} => Pick(s) \in P /\ h[s \ {Pick(s)}] \in D
    BY <1>6, PickIsMember
  <2>2. \A s \in SUBSET P : s # {} =>
          step[<<Pick(s), h[s \ {Pick(s)}]>>] = RebornParent(h[s \ {Pick(s)}], Pick(s))
    <3> HIDE DEF D, step
    <3>1. QED BY <1>4, <2>1
  <2> HIDE DEF D, step
  <2>3. QED BY <1>5, <2>2 DEF IsFold
<1>8. Solves(iter)
  BY <1>7
<1>9. FoldSet(LAMBDA p, e : RebornParent(e, p), d, P) = iter[P]
  BY DEF FoldSet, MapThenFoldSet, Pick
<1> HIDE DEF iter
<1>10. \A s \in SUBSET P : iter[s] \in D
  <2> DEFINE T == {s \in SUBSET P : iter[s] \notin D}
  <2> SUFFICES ASSUME T # {} PROVE FALSE
    OBVIOUS
  <2>1. PICK s \in T : \A t \in T : t \subseteq s => t = s
    <3>1. T \subseteq SUBSET P
      OBVIOUS
    <3> HIDE DEF T
    <3>2. QED BY <1>1, <3>1, Smallest
  <2> HIDE DEF D
  <2>2. s # {}
    BY <1>2, <1>8
  <2>3. Pick(s) \in s /\ Pick(s) \in P
    BY <2>2, PickIsMember
  <2>4. iter[s \ {Pick(s)}] \in D
    BY <2>1, <2>3
  <2>5. iter[s] = RebornParent(iter[s \ {Pick(s)}], Pick(s))
    BY <1>8, <2>2
  <2>6. QED BY <1>3, <2>1, <2>3, <2>4, <2>5
<1>11. QED BY <1>9, <1>10
-----------------------------------------------------------------------------
\* e is d with the rows of Expedition of the items of P reconciled.
Ensured(d, P, e) ==
  /\ e.proposal = d.proposal /\ e.created = d.created /\ e.item = d.item
  /\ e.load = d.load /\ e.link = d.link
  /\ \A i \in Items : e.exp[i] = IF d.item[i].owner \in P THEN ReconciledRow(d, i) ELSE d.exp[i]

LEMMA SourceIsTyped ==
  ASSUME NEW d \in Database, NEW i \in Items
  PROVE  ExpeditionSource(d, i) \in Nat
  BY Typed, LoadSums DEF ExpeditionSource

\* What reconciling does to one row: only its available pieces move.
LEMMA ReconciledFields ==
  ASSUME NEW d \in Database, NEW i \in Items
  PROVE  LET e == ReconciledRow(d, i)
             source == ExpeditionSource(d, i)
         IN  /\ e \in ExpeditionItem
             /\ e.sep = d.exp[i].sep /\ e.del = d.exp[i].del /\ e.rem = d.exp[i].rem
             /\ source = 0 => e = d.exp[i]
             /\ source # 0 => e.avail = MaxOf(source, e.del + e.rem)
<1>1. ExpeditionSource(d, i) \in Nat /\ d.exp[i] \in ExpeditionItem
  BY SourceIsTyped, Typed
<1>2. MaxOf(ExpeditionSource(d, i), d.exp[i].del + d.exp[i].rem) \in Nat
  BY <1>1 DEF MaxOf, ExpeditionItem
<1>3. QED BY <1>1, <1>2 DEF ReconciledRow, ExpeditionItem

\* _ensure_expedition_items does what Ensured says.
LEMMA EnsureRelates ==
  ASSUME NEW d \in Database, NEW P
  PROVE  EnsureExpeditionItems(d, P) \in Database /\ Ensured(d, P, EnsureExpeditionItems(d, P))
<1> DEFINE rows == [i \in Items |-> IF d.item[i].owner \in P THEN ReconciledRow(d, i) ELSE d.exp[i]]
           e == [d EXCEPT !.exp = rows]
<1>1. rows \in [Items -> ExpeditionItem]
  BY ReconciledFields, Typed
<1>2. EnsureExpeditionItems(d, P) = e
  BY DEF EnsureExpeditionItems
<1>3. /\ e \in Database /\ e.exp = rows /\ e.proposal = d.proposal /\ e.created = d.created
      /\ e.item = d.item /\ e.load = d.load /\ e.link = d.link
  <2> HIDE DEF rows
  <2>1. QED BY <1>1 DEF Database
<1>4. \A i \in Items : rows[i] = IF d.item[i].owner \in P THEN ReconciledRow(d, i) ELSE d.exp[i]
  OBVIOUS
<1> HIDE DEF e, rows
<1>5. QED BY <1>2, <1>3, <1>4 DEF Ensured

\* What no transaction may take back.
Kept(d, e) ==
  /\ \A i \in Items :
       /\ d.exp[i].del <= e.exp[i].del /\ d.exp[i].rem <= e.exp[i].rem
       /\ d.item[i].delivered => e.item[i].delivered
       /\ d.item[i].galvanized => e.item[i].galvanized
       /\ d.item[i].produced /\ d.item[i].produce = e.item[i].produce => e.item[i].produced
  /\ \A l \in Loads, i \in Items : d.link[l][i].returned <= e.link[l][i].returned

\* The row of an item keeps its type when it is reconciled.
LEMMA ExpTyped ==
  ASSUME NEW d \in Database, NEW i \in Items
  PROVE  d.exp[i].avail \in Nat /\ d.exp[i].sep \in Nat /\ d.exp[i].del \in Nat /\ d.exp[i].rem \in Nat
  BY Typed DEF ExpeditionItem

\* Reconciling keeps the pieces nested: what becomes available was supplied.
LEMMA EnsureKeepsPieces ==
  ASSUME NEW d \in Database, NEW r, Pieces(d, r), NEW e \in Database, NEW P, Ensured(d, P, e)
  PROVE  Pieces(e, r)
<1>1. \A i \in Items : ReturnedQuantity(e, i) = ReturnedQuantity(d, i) /\ SentQuantity(e, i) = SentQuantity(d, i)
  BY SameSums DEF Ensured
<1>2. LinksHold(e)
  BY <1>1 DEF Pieces, LinksHold, Ensured
<1>3. FlagsHold(e)
  BY <1>1 DEF Pieces, FlagsHold, Ensured
<1>4. RowsNest(e, r)
  <2> SUFFICES ASSUME NEW i \in Items
               PROVE  /\ e.exp[i].del <= e.exp[i].sep
                      /\ i \notin r => /\ e.exp[i].sep + e.exp[i].rem <= e.exp[i].avail
                                       /\ e.exp[i].avail <= SupplyIn(e, i)
                      /\ i \notin r /\ e.exp[i] # NoRow => FlowDefined(e, i) /\ e.item[i].produced
    BY DEF RowsNest
  <2>1. /\ d.exp[i].del <= d.exp[i].sep
        /\ i \notin r => d.exp[i].sep + d.exp[i].rem <= d.exp[i].avail /\ d.exp[i].avail <= SupplyIn(d, i)
        /\ i \notin r /\ d.exp[i] # NoRow => FlowDefined(d, i) /\ d.item[i].produced
    BY DEF Pieces, RowsNest
  <2>2. e.item[i] = d.item[i] /\ SupplyIn(e, i) = SupplyIn(d, i) /\ (FlowDefined(e, i) <=> FlowDefined(d, i))
    BY <1>1 DEF Ensured, SupplyIn, FlowDefined
  <2>3. CASE e.exp[i] = d.exp[i]
    BY <2>1, <2>2, <2>3
  <2>4. CASE e.exp[i] # d.exp[i]
    <3>1. e.exp[i] = ReconciledRow(d, i)
      BY <2>4 DEF Ensured
    <3>2. /\ e.exp[i].sep = d.exp[i].sep /\ e.exp[i].del = d.exp[i].del /\ e.exp[i].rem = d.exp[i].rem
          /\ ExpeditionSource(d, i) # 0
          /\ e.exp[i].avail = MaxOf(ExpeditionSource(d, i), d.exp[i].del + d.exp[i].rem)
      BY <2>4, <3>1, ReconciledFields
    <3>3. FlowDefined(d, i) /\ d.item[i].produced /\ ExpeditionSource(d, i) = SupplyIn(d, i)
      BY <3>2 DEF ExpeditionSource, SupplyIn
    <3>4. SupplyIn(d, i) \in Nat
      BY <3>3, SourceIsTyped
    <3> DEFINE s == SupplyIn(d, i)
    <3>5. i \notin r => /\ d.exp[i].sep + d.exp[i].rem <= s
                        /\ d.exp[i].del + d.exp[i].rem <= s
      <4> HIDE DEF s
      <4>1. s \in Nat
        BY <3>4 DEF s
      <4>2. i \notin r => d.exp[i].avail <= s
        BY <2>1 DEF s
      <4>3. QED BY <2>1, <4>1, <4>2, ExpTyped
    <3>6. i \notin r => e.exp[i].avail = s
      BY <3>2, <3>3, <3>4, <3>5, ExpTyped DEF MaxOf
    <3>7. QED BY <2>1, <2>2, <3>2, <3>3, <3>4, <3>5, <3>6
  <2>5. QED BY <2>3, <2>4
<1>5. QED BY <1>2, <1>3, <1>4 DEF Pieces

\* A change of the pieces that leaves the rows of the proposals alone.
LEMMA FamilyFollows ==
  ASSUME NEW d, NEW e, Family(d), e.proposal = d.proposal, e.created = d.created,
         \A i \in Items : e.item[i].owner = d.item[i].owner,
         \A i \in Items : d.item[i].delivered => e.item[i].delivered,
         Marked(e)
  PROVE  Family(e)
<1>1. \A p : ItemsOf(e, p) = ItemsOf(d, p) /\ Children(e, p) = Children(d, p)
  BY DEF ItemsOf, Children
<1>2. Lineage(e)
  BY DEF Family, Lineage
<1>3. Orphans(e)
  BY <1>1 DEF Family, Orphans
<1>4. Finished(e)
  BY <1>1 DEF Family, Finished, ItemsOf
<1>5. QED BY <1>2, <1>3, <1>4 DEF Family

LEMMA EnsureKeepsFamily ==
  ASSUME NEW d, Family(d), NEW e, NEW P, Ensured(d, P, e)
  PROVE  Family(e)
<1>1. Marked(e)
  BY SameSums DEF Family, Marked, Ensured
<1>2. QED BY <1>1, FamilyFollows DEF Ensured

LEMMA KeptTransitive ==
  ASSUME NEW d \in Database, NEW e \in Database, NEW f \in Database, Kept(d, e), Kept(e, f),
         \A i \in Items : e.item[i].produce = f.item[i].produce
  PROVE  Kept(d, f)
<1>1. ASSUME NEW i \in Items
      PROVE  d.exp[i].del <= f.exp[i].del /\ d.exp[i].rem <= f.exp[i].rem
  <2>1. /\ d.exp[i].del <= e.exp[i].del /\ d.exp[i].rem <= e.exp[i].rem
        /\ e.exp[i].del <= f.exp[i].del /\ e.exp[i].rem <= f.exp[i].rem
    BY DEF Kept
  <2>2. QED BY <2>1, ExpTyped
<1>2. ASSUME NEW l \in Loads, NEW i \in Items PROVE d.link[l][i].returned <= f.link[l][i].returned
  <2>1. d.link[l][i].returned <= e.link[l][i].returned /\ e.link[l][i].returned <= f.link[l][i].returned
    BY DEF Kept
  <2>2. d.link[l][i].returned \in Nat /\ e.link[l][i].returned \in Nat /\ f.link[l][i].returned \in Nat
    BY Typed
  <2>3. QED BY <2>1, <2>2
<1>3. ASSUME NEW i \in Items
      PROVE  /\ d.item[i].delivered => f.item[i].delivered
             /\ d.item[i].galvanized => f.item[i].galvanized
             /\ d.item[i].produced /\ d.item[i].produce = f.item[i].produce => f.item[i].produced
  BY DEF Kept
<1>4. QED BY <1>1, <1>2, <1>3 DEF Kept

LEMMA EnsureKeeps ==
  ASSUME NEW d \in Database, NEW e \in Database, NEW P, Ensured(d, P, e)
  PROVE  Kept(d, e)
<1>1. \A i \in Items : e.exp[i].del = d.exp[i].del /\ e.exp[i].rem = d.exp[i].rem
  BY ReconciledFields DEF Ensured
<1>2. \A i \in Items : d.exp[i].del <= e.exp[i].del /\ d.exp[i].rem <= e.exp[i].rem
  BY <1>1, ExpTyped
<1>3. \A l \in Loads, i \in Items : d.link[l][i].returned <= e.link[l][i].returned
  BY Typed DEF Ensured
<1>4. QED BY <1>2, <1>3 DEF Kept, Ensured

LEMMA ShapedKeeps ==
  ASSUME NEW d \in Database, NEW e, Shaped(d, e)
  PROVE  Kept(d, e)
<1>1. \A i \in Items : d.exp[i].del <= e.exp[i].del /\ d.exp[i].rem <= e.exp[i].rem
  BY ExpTyped DEF Shaped, SamePieces
<1>2. \A l \in Loads, i \in Items : d.link[l][i].returned <= e.link[l][i].returned
  BY Typed DEF Shaped, SamePieces
<1>3. QED BY <1>1, <1>2 DEF Kept, Shaped, SamePieces

LEMMA SettledTransitive ==
  ASSUME NEW d, NEW e, NEW f, Settled(d, e), Settled(e, f)
  PROVE  Settled(d, f)
  BY DEF Settled, Still
-----------------------------------------------------------------------------
\* Reconciling would change nothing.
Current(d) ==
  \A i \in Items : Operational(d, d.item[i].owner) => ReconciledRow(d, i) = d.exp[i]

\* In a current database every row is its own reconciliation.
LEMMA CurrentRows ==
  ASSUME NEW d \in Database
  PROVE  Current(d) <=> EnsureExpeditionItems(d, {p \in Proposals : Operational(d, p)}) = d
<1> DEFINE P == {p \in Proposals : Operational(d, p)}
           e == EnsureExpeditionItems(d, P)
<1>1. e \in Database /\ Ensured(d, P, e)
  BY EnsureRelates
<1>2. \A i \in Items : d.item[i].owner \in P <=> Operational(d, d.item[i].owner)
  BY Typed DEF Item
<1> HIDE DEF e, P
<1>3. Current(d) <=> \A i \in Items : e.exp[i] = d.exp[i]
  BY <1>1, <1>2 DEF Current, Ensured
<1>4. (\A i \in Items : e.exp[i] = d.exp[i]) <=> e = d
  BY <1>1, SameDatabase DEF Ensured, Database
<1>5. QED BY <1>3, <1>4 DEF e, P

\* What a row is reconciled to depends on the item and its loads alone.
LEMMA SourceFollows ==
  ASSUME NEW d, NEW e, NEW i \in Items, e.item[i] = d.item[i],
         \A l \in Loads : d.link[l][i].returned = e.link[l][i].returned
  PROVE  ExpeditionSource(e, i) = ExpeditionSource(d, i)
<1>1. ReturnedQuantity(d, i) = ReturnedQuantity(e, i)
  BY ReturnedFollowsLinks
<1>2. QED BY <1>1 DEF ExpeditionSource, FlowDefined

LEMMA SettledRow ==
  ASSUME NEW x \in ExpeditionItem, NEW n, x.avail = n
  PROVE  [x EXCEPT !.avail = n] = x
  BY DEF ExpeditionItem

\* Reconciling twice is reconciling once.
LEMMA ReconciledAgain ==
  ASSUME NEW d \in Database, NEW e \in Database, NEW i \in Items, e.item[i] = d.item[i],
         e.link = d.link, e.exp[i] = ReconciledRow(d, i)
  PROVE  ReconciledRow(e, i) = e.exp[i]
<1>1. ExpeditionSource(e, i) = ExpeditionSource(d, i)
  BY SourceFollows
<1>2. CASE ExpeditionSource(e, i) = 0
  BY <1>2 DEF ReconciledRow
<1>3. CASE ExpeditionSource(e, i) # 0
  <2>1. e.exp[i].avail = MaxOf(ExpeditionSource(e, i), e.exp[i].del + e.exp[i].rem)
    BY <1>1, <1>3, ReconciledFields
  <2>2. ReconciledRow(e, i) =
          [e.exp[i] EXCEPT !.avail = MaxOf(ExpeditionSource(e, i), e.exp[i].del + e.exp[i].rem)]
    BY <1>3 DEF ReconciledRow
  <2>3. e.exp[i] \in ExpeditionItem
    BY Typed
  <2>4. QED BY <2>1, <2>2, <2>3, SettledRow
<1>4. QED BY <1>2, <1>3

\* The pre-commit hook leaves every row current.
LEMMA HookKeepsCurrent ==
  ASSUME NEW d0 \in Database, NEW d \in Database, NEW e \in Database, NEW r, Current(d0), Pieces(d, r),
         Kept(d0, d), Ensured(d, {p \in Dirty(d0, d) : Operational(d, p)}, e)
  PROVE  Current(e)
<1> SUFFICES ASSUME NEW i \in Items, Operational(e, e.item[i].owner)
             PROVE  ReconciledRow(e, i) = e.exp[i]
  BY DEF Current
<1> DEFINE p == d.item[i].owner
<1>1. e.item[i] = d.item[i] /\ e.link = d.link /\ Operational(d, p) /\ p \in Proposals
  BY Typed DEF Ensured, Operational, Cancelled, Item
<1>2. CASE p \in Dirty(d0, d)
  <2>1. e.exp[i] = ReconciledRow(d, i)
    BY <1>1, <1>2 DEF Ensured
  <2>2. QED BY <1>1, <2>1, ReconciledAgain
<1>3. CASE p \notin Dirty(d0, d)
  <2>1. e.exp[i] = d.exp[i]
    BY <1>3 DEF Ensured
  <2>2. d0.proposal[p] = d.proposal[p]
    BY <1>1, <1>3 DEF Dirty
  <2>3. /\ d0.item[i] = d.item[i] /\ d0.exp[i] = d.exp[i]
        /\ \A l \in Loads : d0.link[l][i] # d.link[l][i] => ~(d.link[l][i].sent > 0)
    BY <1>3 DEF Dirty
  <2>4. \A l \in Loads : d0.link[l][i].returned = d.link[l][i].returned
    <3> TAKE l \in Loads
    <3>1. CASE d0.link[l][i] = d.link[l][i]
      BY <3>1
    <3>2. CASE d0.link[l][i] # d.link[l][i]
      <4>1. /\ d.link[l][i].sent \in Nat /\ d.link[l][i].returned \in Nat /\ d0.link[l][i].returned \in Nat
        BY Typed
      <4>2. d.link[l][i].returned <= d.link[l][i].sent /\ d0.link[l][i].returned <= d.link[l][i].returned
        BY DEF Pieces, LinksHold, Kept
      <4>3. QED BY <2>3, <3>2, <4>1, <4>2
    <3>3. QED BY <3>1, <3>2
  <2>5. ExpeditionSource(e, i) = ExpeditionSource(d0, i)
    BY <1>1, <2>3, <2>4, SourceFollows
  <2>6. ReconciledRow(d0, i) = d0.exp[i]
    BY <1>1, <2>2, <2>3 DEF Current, Operational, Cancelled
  <2>7. e.exp[i] = d0.exp[i]
    BY <2>1, <2>3
  <2> HIDE DEF p
  <2>8. QED BY <2>5, <2>6, <2>7 DEF ReconciledRow
<1>4. QED BY <1>2, <1>3

LEMMA EnsureSettles ==
  ASSUME NEW d \in Database, NEW e, NEW P, Ensured(d, P, e), \A p \in P : ~d.proposal[p].cancelled
  PROVE  Settled(d, e)
<1>1. \A p \in Proposals : OpenChildren(e, p) = OpenChildren(d, p)
  BY DEF Ensured, OpenChildren, Children
<1>2. \A i \in Items : d.proposal[d.item[i].owner].cancelled => e.exp[i] = d.exp[i]
  BY DEF Ensured
<1>3. QED BY <1>1, <1>2 DEF Settled, Still, Ensured

-----------------------------------------------------------------------------
\* A database a transaction on d0 may commit; r are the items reflowed by then.
Legal(d0, d, r) == d \in Database /\ Pieces(d, r) /\ Family(d) /\ Kept(d0, d) /\ Settled(d0, d)

\* A legal database stays legal when the family is shaped,
LEMMA LegalThenShaped ==
  ASSUME NEW d0 \in Database, NEW d, NEW e, NEW r, Legal(d0, d, r), Shaped(d, e)
  PROVE  Legal(d0, e, r)
<1>1. e \in Database /\ Family(e) /\ SamePieces(d, e) /\ Settled(d, e)
  BY DEF Shaped
<1>2. Pieces(e, r)
  BY <1>1, PiecesFollow DEF Legal
<1>3. Kept(d, e)
  BY ShapedKeeps DEF Legal
<1>4. Kept(d0, e)
  BY <1>1, <1>3, KeptTransitive DEF Legal, SamePieces
<1>5. Settled(d0, e)
  BY <1>1, SettledTransitive DEF Legal
<1>6. QED BY <1>1, <1>2, <1>4, <1>5 DEF Legal

\* when rows are reconciled,
LEMMA LegalThenEnsured ==
  ASSUME NEW d0 \in Database, NEW d, NEW r, Legal(d0, d, r), NEW P, \A p \in P : ~d.proposal[p].cancelled
  PROVE  Legal(d0, EnsureExpeditionItems(d, P), r)
<1> DEFINE e == EnsureExpeditionItems(d, P)
<1>1. e \in Database /\ Ensured(d, P, e)
  BY EnsureRelates DEF Legal
<1> HIDE DEF e
<1>2. Pieces(e, r) /\ Family(e) /\ Kept(d, e) /\ Settled(d, e)
  BY <1>1, EnsureKeepsPieces, EnsureKeepsFamily, EnsureKeeps, EnsureSettles DEF Legal
<1>3. Kept(d0, e)
  BY <1>1, <1>2, KeptTransitive DEF Legal, Ensured
<1>4. Settled(d0, e)
  BY <1>2, SettledTransitive DEF Legal
<1>5. Legal(d0, e, r)
  BY <1>1, <1>2, <1>3, <1>4 DEF Legal
<1>6. QED BY <1>5 DEF e

\* and every state is a legal start.
LEMMA LegalStart ==
  ASSUME FlowInv
  PROVE  db \in Database /\ Family(db) /\ Current(db) /\ Legal(db, db, reflowed)
<1>1. db \in Database /\ Family(db) /\ Pieces(db, reflowed) /\ Current(db)
  BY CurrentRows DEF FlowInv, TypeOK, RowsCurrent
<1>2. Shaped(db, db)
  BY <1>1, RowsShape
<1>3. Kept(db, db) /\ Settled(db, db)
  BY <1>1, <1>2, ShapedKeeps DEF Shaped
<1>4. QED BY <1>1, <1>3 DEF Legal

\* What the hook makes of a legal database is legal, and current.
LEMMA CommitKeeps ==
  ASSUME FlowInv, NEW d, Legal(db, d, reflowed'), reflowed' \subseteq Items, Commit(d)
  PROVE  FlowInv' /\ Kept(db, db') /\ Settled(db, db')
<1> DEFINE P == {p \in Dirty(db, d) : Operational(d, p)}
           e == EnsureExpeditionItems(d, P)
<1>1. \A p \in P : ~d.proposal[p].cancelled
  BY DEF Operational, Cancelled
<1>2. Legal(db, e, reflowed')
  <2> HIDE DEF P
  <2>1. QED BY <1>1, LegalStart, LegalThenEnsured
<1>3. Current(e)
  <2>1. e \in Database /\ Ensured(d, P, e)
    BY EnsureRelates DEF Legal
  <2> HIDE DEF e
  <2>2. QED BY <2>1, LegalStart, HookKeepsCurrent DEF Legal
<1>4. db' = e
  BY DEF Commit
<1>5. EnsureExpeditionItems(e, {p \in Proposals : Operational(e, p)}) = e
  <2>1. e \in Database
    BY <1>2 DEF Legal
  <2> HIDE DEF e
  <2>2. QED BY <1>3, <2>1, CurrentRows
<1> HIDE DEF e
<1>6. TypeOK' /\ RowsCurrent'
  BY <1>2, <1>4, <1>5 DEF TypeOK, RowsCurrent, Legal
<1>7. Pieces(db, reflowed)' /\ Family(db)'
  BY <1>2, <1>4 DEF Legal
<1>8. QED BY <1>2, <1>4, <1>6, <1>7 DEF FlowInv, Legal
-----------------------------------------------------------------------------
\* What each action has to keep.
Preserves == FlowInv' /\ Kept(db, db') /\ Settled(db, db')

\* A transaction preserves the invariant if it commits a legal database.
LEMMA CommitPreserves ==
  ASSUME FlowInv, NEW d, Legal(db, d, reflowed), Commit(d), UNCHANGED reflowed
  PROVE  Preserves
<1>1. reflowed' = reflowed /\ reflowed' \subseteq Items
  BY DEF FlowInv, TypeOK
<1>2. Legal(db, d, reflowed')
  BY <1>1
<1>3. QED BY <1>1, <1>2, CommitKeeps DEF Preserves

LEMMA MovableRow ==
  ASSUME NEW d \in Database, NEW p \in Proposals, Movable(d, p)
  PROVE  /\ p <= d.created /\ ~d.proposal[p].cancelled /\ ~Still(d, p)
         /\ d.proposal[p] \in Proposal
  BY Typed DEF Movable, Cancelled, Still

LEMMA LegalThenRow ==
  ASSUME NEW d0 \in Database, NEW d, NEW r, Legal(d0, d, r),
         NEW p \in Proposals, NEW row \in Proposal, RowChange(d, p, row)
  PROVE  Legal(d0, SetRow(d, p, row), r)
  BY SetRowShapes, LegalThenShaped DEF Legal

\* Releasing a proposal to production.
ReleasedAs(row) ==
  [row EXCEPT !.area = "PRODUCAO", !.status = "LIBERADO_PRODUCAO", !.production = "NAO_INICIADO",
              !.pending = FALSE]

LEMMA ReleasePreserves ==
  ASSUME FlowInv, NEW p \in Proposals, ReleaseToProduction(p)
  PROVE  Preserves
<1> DEFINE row == ReleasedAs(db.proposal[p])
           d == SetRow(db, p, row)
<1>1. db \in Database /\ Family(db) /\ Legal(db, db, reflowed)
  BY LegalStart
<1>2. ~Still(db, p) /\ ~db.proposal[p].cancelled /\ db.proposal[p] \in Proposal
  BY <1>1, MovableRow DEF ReleaseToProduction
<1>3. /\ row \in Proposal /\ row.area = "PRODUCAO" /\ row.status = "LIBERADO_PRODUCAO"
      /\ row.parent = db.proposal[p].parent /\ row.active = db.proposal[p].active
      /\ row.cancelled = db.proposal[p].cancelled
  BY <1>2 DEF ReleasedAs, Proposal, Areas, Statuses, ProductionStatuses
<1> HIDE DEF row
<1>4. RowChange(db, p, row)
  BY <1>2, <1>3 DEF RowChange
<1>5. Legal(db, d, reflowed)
  BY <1>1, <1>3, <1>4, LegalThenRow
<1>6. d \in Database /\ Family(d) /\ d.proposal[p] = row
  BY <1>1, <1>3, <1>5, SetRowRelates DEF Legal, RowSetTo
<1>7. d = [db EXCEPT !.proposal[p].area = "PRODUCAO",
                  !.proposal[p].status = "LIBERADO_PRODUCAO",
                  !.proposal[p].production = "NAO_INICIADO",
                  !.proposal[p].pending = FALSE]
  BY <1>1, Domains DEF SetRow, ReleasedAs, row
<1>8. Commit(RecalculateProduction(d, p)) /\ UNCHANGED reflowed
  BY <1>7 DEF ReleaseToProduction
<1> HIDE DEF d
<1>9. Shaped(d, RecalculateProduction(d, p))
  BY <1>2, <1>3, <1>6, RecalculateProductionShapes
<1>10. Legal(db, RecalculateProduction(d, p), reflowed)
  BY <1>1, <1>5, <1>9, LegalThenShaped
<1>11. QED BY <1>8, <1>10, CommitPreserves

\* Changing the status of production by hand.
LEMMA SetStatusPreserves ==
  ASSUME FlowInv, NEW p \in Proposals, InProduction(p), NEW status \in {"INICIADO", "PARADO"},
         SetProductionStatus(p, status)
  PROVE  Preserves
<1> DEFINE row == [db.proposal[p] EXCEPT !.production = status, !.status = status]
<1>1. db \in Database /\ Family(db) /\ Legal(db, db, reflowed)
  BY LegalStart
<1>2. /\ ~Still(db, p) /\ db.proposal[p] \in Proposal /\ db.proposal[p].area = "PRODUCAO"
  BY <1>1, MovableRow DEF InProduction
<1>3. /\ row \in Proposal /\ row.area = "PRODUCAO" /\ row.status = status
      /\ row.parent = db.proposal[p].parent /\ row.active = db.proposal[p].active
      /\ row.cancelled = db.proposal[p].cancelled
  BY <1>2 DEF Proposal, Statuses, ProductionStatuses
<1>4. [db EXCEPT !.proposal[p].production = status, !.proposal[p].status = status] = SetRow(db, p, row)
  BY <1>1, Domains DEF SetRow
<1> HIDE DEF row
<1>5. RowChange(db, p, row)
  BY <1>2, <1>3 DEF RowChange
<1>6. Legal(db, SetRow(db, p, row), reflowed)
  BY <1>1, <1>3, <1>5, LegalThenRow
<1>7. QED BY <1>4, <1>6, CommitPreserves DEF SetProductionStatus

LEMMA NothingPendingPreserves ==
  ASSUME FlowInv, NEW p \in Proposals, CompleteProductionWithNothingPending(p)
  PROVE  Preserves
<1> DEFINE d == FinalizeDestination(db, p, ItemsOf(db, p))
<1>1. db \in Database /\ Family(db) /\ Legal(db, db, reflowed)
  BY LegalStart
<1>2. ~db.proposal[p].cancelled
  BY <1>1, MovableRow DEF CompleteProductionWithNothingPending, CompletableProduction, InProduction
<1>3. Shaped(db, d)
  BY <1>1, <1>2, FinalizeShapes
<1>4. Legal(db, d, reflowed)
  BY <1>1, <1>3, LegalThenShaped
<1>5. Commit(d) /\ UNCHANGED reflowed
  BY DEF CompleteProductionWithNothingPending
<1> HIDE DEF d
<1>6. QED BY <1>4, <1>5, CommitPreserves

\* Cancelling a proposal with all its open children.
LEMMA CancelPreserves ==
  ASSUME FlowInv, NEW p \in Proposals, Cancel(p)
  PROVE  Preserves
<1> DEFINE row == [db.proposal[p] EXCEPT !.area = "CONTROLE_GERAL", !.status = "CANCELADA", !.cancelled = TRUE]
           d == SetRow(db, p, row)
<1>1. db \in Database /\ Family(db) /\ Legal(db, db, reflowed)
  BY LegalStart
<1>2. p <= db.created /\ ~Still(db, p) /\ db.proposal[p] \in Proposal
  BY <1>1, MovableRow DEF Cancel
<1>3. /\ row \in Proposal /\ row.area = "CONTROLE_GERAL" /\ row.cancelled
      /\ row.parent = db.proposal[p].parent /\ row.active = db.proposal[p].active
  BY <1>2 DEF Proposal, Areas, Statuses
<1>4. d = [db EXCEPT !.proposal[p].area = "CONTROLE_GERAL", !.proposal[p].status = "CANCELADA",
                     !.proposal[p].cancelled = TRUE]
  BY <1>1, Domains DEF SetRow
<1> HIDE DEF row
<1>5. d \in Database /\ RowSetTo(db, p, row, d)
  BY <1>1, <1>3, SetRowRelates
<1>6. Commit(d) /\ UNCHANGED reflowed
  BY <1>4 DEF Cancel
<1> HIDE DEF d
<1>7. \A q \in Proposals : /\ d.proposal[q].parent = db.proposal[q].parent
                           /\ d.proposal[q].active = db.proposal[q].active
                           /\ q # p => d.proposal[q] = db.proposal[q]
                           /\ db.proposal[q].cancelled => d.proposal[q].cancelled
  BY <1>3, <1>5 DEF RowSetTo
<1>8. \A q \in Proposals : /\ Children(d, q) = Children(db, q) /\ ItemsOf(d, q) = ItemsOf(db, q)
                           /\ OpenChildren(d, q) \subseteq OpenChildren(db, q)
  BY <1>5, <1>7 DEF RowSetTo, Children, ItemsOf, OpenChildren
<1>9. \A i \in Items : db.item[i].owner \in Proposals
  BY <1>1, Typed DEF Item
<1>10. Lineage(d)
  <2>1. ~(p > db.created)
    BY <1>1, <1>2, Typed, MaxProposalsAssumption DEF Proposals
  <2>2. ASSUME NEW q \in Proposals
        PROVE  LET r == d.proposal[q] IN
               /\ r.status = "CANCELADA" => r.cancelled
               /\ r.area = "EXPEDICAO" => r.status \in ShippingStatuses
               /\ q > d.created => ~r.cancelled /\ r.parent = NoParent
               /\ q <= d.created => r.parent < q /\ (r.parent = NoParent => r.active)
    <3>1. CASE q = p
      BY <1>1, <1>3, <1>5, <2>1, <3>1 DEF Family, Lineage, RowSetTo
    <3>2. CASE q # p
      BY <1>1, <1>5, <3>2 DEF Family, Lineage, RowSetTo
    <3>3. QED BY <3>1, <3>2
  <2>3. QED BY <1>1, <1>5, <2>2 DEF Family, Lineage, RowSetTo
<1>11. Orphans(d)
  <2>1. \A q \in 1 .. db.created : q \in Proposals
    BY <1>1, Typed, MaxProposalsAssumption DEF Proposals
  <2>2. QED BY <1>1, <1>5, <1>7, <1>8, <1>9, <2>1 DEF Family, Orphans, RowSetTo
<1>12. Finished(d)
  BY <1>1, <1>3, <1>5, <1>8 DEF Family, Finished, RowSetTo
<1>13. Marked(d)
  BY <1>1, <1>5, <1>7, <1>9, SameSums DEF Family, Marked, RowSetTo
<1>14. SamePieces(db, d)
  BY <1>5 DEF SamePieces, RowSetTo
<1>15. Settled(db, d)
  BY <1>2, <1>5, <1>7, <1>8 DEF Settled, Still, RowSetTo
<1>16. Shaped(db, d)
  BY <1>5, <1>10, <1>11, <1>12, <1>13, <1>14, <1>15 DEF Shaped, Family
<1>17. Legal(db, d, reflowed)
  BY <1>1, <1>16, LegalThenShaped
<1>18. QED BY <1>6, <1>17, CommitPreserves

-----------------------------------------------------------------------------
\* What Expedition may make of an available row.
ExpMove(e, x) ==
  /\ x.avail = e.avail /\ e.avail > 0
  /\ e.del <= x.del /\ e.rem <= x.rem /\ x.del <= x.sep
  /\ e.sep + e.rem <= e.avail => x.sep + x.rem <= x.avail

\* Expedition has moved pieces of proposal p.
Shipped(d, p, e) ==
  /\ e.proposal = d.proposal /\ e.created = d.created /\ e.load = d.load /\ e.link = d.link
  /\ \A i \in Items :
       /\ e.item[i].owner = d.item[i].owner
       /\ e.item[i].produce = d.item[i].produce /\ e.item[i].galvanize = d.item[i].galvanize
       /\ e.item[i].produced = d.item[i].produced /\ e.item[i].galvanized = d.item[i].galvanized
       /\ d.item[i].delivered => e.item[i].delivered
       /\ d.item[i].owner # p => e.item[i] = d.item[i] /\ e.exp[i] = d.exp[i]
       /\ e.exp[i] = d.exp[i] \/ ExpMove(d.exp[i], e.exp[i])

\* Moving pieces in Expedition keeps what a transaction has to keep.
LEMMA LegalThenShipped ==
  ASSUME NEW d0 \in Database, NEW d, NEW r, Legal(d0, d, r), NEW p \in Proposals,
         ~d.proposal[p].cancelled, NEW e \in Database, Shipped(d, p, e)
  PROVE  Legal(d0, e, r)
<1>1. d \in Database /\ Pieces(d, r) /\ Family(d) /\ Kept(d0, d) /\ Settled(d0, d)
  BY DEF Legal
<1>2. \A i \in Items : ReturnedQuantity(e, i) = ReturnedQuantity(d, i) /\ SentQuantity(e, i) = SentQuantity(d, i)
  BY SameSums DEF Shipped
<1>3. LinksHold(e)
  BY <1>1, <1>2 DEF Pieces, LinksHold, Shipped
<1>4. FlagsHold(e)
  BY <1>1, <1>2 DEF Pieces, FlagsHold, Shipped
<1>5. RowsNest(e, r)
  <2> SUFFICES ASSUME NEW i \in Items
               PROVE  /\ e.exp[i].del <= e.exp[i].sep
                      /\ i \notin r => /\ e.exp[i].sep + e.exp[i].rem <= e.exp[i].avail
                                       /\ e.exp[i].avail <= SupplyIn(e, i)
                      /\ i \notin r /\ e.exp[i] # NoRow => FlowDefined(e, i) /\ e.item[i].produced
    BY DEF RowsNest
  <2>1. /\ d.exp[i].del <= d.exp[i].sep
        /\ i \notin r => d.exp[i].sep + d.exp[i].rem <= d.exp[i].avail /\ d.exp[i].avail <= SupplyIn(d, i)
        /\ i \notin r /\ d.exp[i] # NoRow => FlowDefined(d, i) /\ d.item[i].produced
    BY <1>1 DEF Pieces, RowsNest
  <2>2. /\ SupplyIn(e, i) = SupplyIn(d, i) /\ (FlowDefined(e, i) <=> FlowDefined(d, i))
        /\ e.item[i].produced = d.item[i].produced
    BY <1>2 DEF Shipped, SupplyIn, FlowDefined
  <2>3. CASE e.exp[i] = d.exp[i]
    BY <2>1, <2>2, <2>3
  <2>4. CASE ExpMove(d.exp[i], e.exp[i])
    <3>1. d.exp[i] # NoRow
      BY <2>4 DEF ExpMove, NoRow
    <3>2. QED BY <2>1, <2>2, <2>4, <3>1 DEF ExpMove
  <2>5. QED BY <2>3, <2>4 DEF Shipped
<1>6. Family(e)
  <2>1. Marked(e)
    BY <1>1, <1>2 DEF Family, Marked, Shipped
  <2>2. QED BY <1>1, <2>1, FamilyFollows DEF Shipped
<1>7. Kept(d, e)
  <2>1. \A i \in Items : d.exp[i].del <= e.exp[i].del /\ d.exp[i].rem <= e.exp[i].rem
    BY <1>1, ExpTyped DEF Shipped, ExpMove
  <2>2. \A l \in Loads, i \in Items : d.link[l][i].returned <= e.link[l][i].returned
    BY <1>1, Typed DEF Shipped
  <2>3. QED BY <2>1, <2>2 DEF Kept, Shipped
<1>8. Settled(d, e)
  <2>1. \A q \in Proposals : OpenChildren(e, q) = OpenChildren(d, q)
    BY DEF Shipped, OpenChildren, Children
  <2>2. \A i \in Items : e.item[i].owner = d.item[i].owner
    BY DEF Shipped
  <2>3. \A i \in Items : d.item[i].owner # p => e.item[i] = d.item[i] /\ e.exp[i] = d.exp[i]
    BY DEF Shipped
  <2>4. QED BY <2>1, <2>2, <2>3 DEF Settled, Still, Shipped
<1>9. Pieces(e, r)
  BY <1>3, <1>4, <1>5 DEF Pieces
<1>10. Kept(d0, e)
  BY <1>1, <1>7, KeptTransitive DEF Shipped
<1>11. Settled(d0, e)
  BY <1>1, <1>8, SettledTransitive
<1>12. QED BY <1>6, <1>9, <1>10, <1>11 DEF Legal

\* A payload names active rows, each with a positive quantity within its limit.
LEMMA SelectionFacts ==
  ASSUME NEW d, NEW p, NEW limit, NEW q \in Selections(d, p, limit)
  PROVE  /\ DOMAIN q \subseteq ActiveRows(d, p) /\ DOMAIN q # {}
         /\ \A i \in DOMAIN q : q[i] \in Int /\ 1 <= q[i] /\ q[i] <= limit[i]
<1> DEFINE most == Max({Qty[i] : i \in Items})
<1>1. PICK S \in (SUBSET ActiveRows(d, p)) \ {{}} : q \in [S -> 1 .. most] /\ \A i \in S : q[i] <= limit[i]
  BY DEF Selections
<1> HIDE DEF most
<1>2. DOMAIN q = S /\ \A i \in S : q[i] \in 1 .. most
  BY <1>1
<1>3. QED BY <1>1, <1>2

\* The database with other rows of Expedition.
Changed(d, rows) == [d EXCEPT !.exp = rows]

LEMMA ChangedIsTyped ==
  ASSUME NEW d \in Database, NEW rows \in [Items -> ExpeditionItem]
  PROVE  LET e == Changed(d, rows) IN
         /\ e \in Database /\ e.exp = rows /\ e.proposal = d.proposal /\ e.created = d.created
         /\ e.item = d.item /\ e.load = d.load /\ e.link = d.link
  BY DEF Changed, Database

\* Moving chosen rows of a proposal moves pieces of that proposal.
LEMMA ChangedShips ==
  ASSUME NEW d \in Database, NEW p, NEW S, S \subseteq ItemsOf(d, p), NEW rows \in [Items -> ExpeditionItem],
         \A i \in Items : IF i \in S THEN ExpMove(d.exp[i], rows[i]) ELSE rows[i] = d.exp[i]
  PROVE  LET e == Changed(d, rows) IN
         /\ e \in Database /\ Shipped(d, p, e) /\ e.item = d.item /\ e.exp = rows
<1> DEFINE e == Changed(d, rows)
<1>1. /\ e \in Database /\ e.exp = rows /\ e.proposal = d.proposal /\ e.created = d.created
      /\ e.item = d.item /\ e.load = d.load /\ e.link = d.link
  BY ChangedIsTyped
<1> HIDE DEF e
<1>2. \A i \in S : i \in Items /\ d.item[i].owner = p
  BY DEF ItemsOf
<1>3. Shipped(d, p, e)
  BY <1>1, <1>2 DEF Shipped
<1>4. QED BY <1>1, <1>3 DEF e

LEMMA ActiveIsAvailable ==
  ASSUME NEW d \in Database, NEW p, NEW i \in ActiveRows(d, p)
  PROVE  /\ i \in ItemsOf(d, p) /\ i \in Items /\ d.exp[i].avail > 0
         /\ d.exp[i].avail - d.exp[i].del - d.exp[i].rem > 0
  BY ExpTyped DEF ActiveRows, Outstanding, ItemsOf

\* The movements of Expedition, row by row.
SeparatedRow(e, n) == [e EXCEPT !.sep = @ + n]
DeliveredRow(e, n) == [e EXCEPT !.del = @ + n]

LEMMA SeparatedMoves ==
  ASSUME NEW e \in ExpeditionItem, NEW n \in Int, 1 <= n, n <= e.avail - e.sep - e.rem,
         e.del <= e.sep, e.avail > 0
  PROVE  SeparatedRow(e, n) \in ExpeditionItem /\ ExpMove(e, SeparatedRow(e, n))
  BY DEF SeparatedRow, ExpeditionItem, ExpMove

LEMMA DeliveredMoves ==
  ASSUME NEW e \in ExpeditionItem, NEW n \in Int, 1 <= n, n <= e.sep - e.del,
         e.del <= e.sep, e.avail > 0
  PROVE  DeliveredRow(e, n) \in ExpeditionItem /\ ExpMove(e, DeliveredRow(e, n))
  BY DEF DeliveredRow, ExpeditionItem, ExpMove

\* Pieces returned to production are taken from those separated last.
GivenBack(e, returned, separated) == [e EXCEPT !.rem = returned, !.sep = separated]

LEMMA GivenBackMoves ==
  ASSUME NEW e \in ExpeditionItem, NEW returned \in Nat, NEW separated \in Nat, e.avail > 0,
         e.del <= separated, e.rem <= returned, separated + returned <= e.avail
  PROVE  GivenBack(e, returned, separated) \in ExpeditionItem /\ ExpMove(e, GivenBack(e, returned, separated))
<1> DEFINE x == GivenBack(e, returned, separated)
<1>1. /\ x \in ExpeditionItem /\ x.avail = e.avail /\ x.del = e.del
      /\ x.rem = returned /\ x.sep = separated
  BY DEF GivenBack, ExpeditionItem
<1>2. e.avail \in Nat
  BY DEF ExpeditionItem
<1> HIDE DEF x
<1>3. ExpMove(e, x)
  BY <1>1, <1>2, ExpTyped DEF ExpMove, ExpeditionItem
<1>4. QED BY <1>1, <1>3 DEF x

LEMMA RemanagedMoves ==
  ASSUME NEW e \in ExpeditionItem, NEW n \in Int, 1 <= n, n <= e.avail - e.del - e.rem,
         e.del <= e.sep, e.avail > 0
  PROVE  RemanageRow(e, n) \in ExpeditionItem /\ ExpMove(e, RemanageRow(e, n))
<1>1. /\ e.avail \in Nat /\ e.sep \in Nat /\ e.del \in Nat /\ e.rem \in Nat
  BY DEF ExpeditionItem
<1>2. PICK m \in Nat : m = MinOf(e.sep, e.avail - e.rem - n)
  BY <1>1 DEF MinOf
<1>3. e.del <= m /\ m <= e.avail - e.rem - n
  BY <1>1, <1>2 DEF MinOf
<1>4. PICK back \in Nat : back = e.rem + n
  BY <1>1
<1>5. e.rem <= back /\ m + back <= e.avail
  BY <1>1, <1>3, <1>4
<1>6. RemanageRow(e, n) = GivenBack(e, back, m)
  BY <1>2, <1>4 DEF RemanageRow, GivenBack
<1>7. QED BY <1>3, <1>5, <1>6, GivenBackMoves

LEMMA RefreshedIsLegal ==
  ASSUME FlowInv, NEW p \in Proposals, Movable(db, p)
  PROVE  LET d == Refreshed(p) IN
         /\ Legal(db, d, reflowed) /\ d.proposal = db.proposal /\ ~d.proposal[p].cancelled
         /\ \A i \in Items : d.exp[i].del <= d.exp[i].sep
<1>1. db \in Database /\ Legal(db, db, reflowed) /\ ~db.proposal[p].cancelled
  BY LegalStart, MovableRow
<1> DEFINE d == Refreshed(p)
<1>2. Legal(db, d, reflowed)
  BY <1>1, LegalThenEnsured DEF Refreshed
<1>3. Ensured(db, {p}, d)
  BY <1>1, EnsureRelates DEF Refreshed
<1> HIDE DEF d
<1>4. QED BY <1>1, <1>2, <1>3 DEF Ensured, Legal, Pieces, RowsNest, d

\* The row of a proposal whose separation begins.
SeparationStarted(row) ==
  [row EXCEPT !.area = "EXPEDICAO", !.status = "SEPARACAO_INICIADA", !.shipping = "SEPARACAO_INICIADA"]

LEMMA StartSeparationPreserves ==
  ASSUME FlowInv, NEW p \in Proposals, StartSeparation(p)
  PROVE  Preserves
<1> DEFINE d == Refreshed(p)
           row == SeparationStarted(d.proposal[p])
<1>1. db \in Database /\ Movable(db, p)
  BY LegalStart DEF StartSeparation
<1>2. Legal(db, d, reflowed) /\ ~d.proposal[p].cancelled
  BY <1>1, RefreshedIsLegal
<1>3. Commit([d EXCEPT !.proposal[p].area = "EXPEDICAO", !.proposal[p].status = "SEPARACAO_INICIADA",
                       !.proposal[p].shipping = "SEPARACAO_INICIADA"]) /\ UNCHANGED reflowed
  BY DEF StartSeparation
<1> HIDE DEF d
<1>4. d \in Database /\ d.proposal[p] \in Proposal
  BY <1>2, Typed DEF Legal
<1>5. [d EXCEPT !.proposal[p].area = "EXPEDICAO", !.proposal[p].status = "SEPARACAO_INICIADA",
                !.proposal[p].shipping = "SEPARACAO_INICIADA"] = SetRow(d, p, row)
  BY <1>4, Domains DEF SetRow, SeparationStarted
<1>6. /\ row \in Proposal /\ row.area = "EXPEDICAO" /\ row.status = "SEPARACAO_INICIADA"
      /\ row.parent = d.proposal[p].parent /\ row.active = d.proposal[p].active
      /\ row.cancelled = d.proposal[p].cancelled
  BY <1>4 DEF SeparationStarted, Proposal, Areas, Statuses, ShippingStatuses
<1> HIDE DEF row
<1>7. RowChange(d, p, row)
  BY <1>2, <1>6 DEF RowChange, Still, ShippingStatuses
<1>8. Legal(db, SetRow(d, p, row), reflowed)
  BY <1>1, <1>2, <1>6, <1>7, LegalThenRow
<1>9. QED BY <1>3, <1>5, <1>8, CommitPreserves

\* Both movements that keep a proposal in Expedition end alike.
LEMMA SettledInExpedition ==
  ASSUME FlowInv, NEW p \in Proposals, NEW d, Legal(db, d, reflowed), ~d.proposal[p].cancelled
  PROVE  Legal(db, RebornParent(RecalculateExpedition(d, p), p), reflowed)
<1>1. db \in Database /\ d \in Database /\ Family(d)
  BY LegalStart DEF Legal
<1>2. Shaped(d, RecalculateExpedition(d, p))
  BY <1>1, RecalculateExpeditionShapes
<1>3. Legal(db, RecalculateExpedition(d, p), reflowed)
  BY <1>1, <1>2, LegalThenShaped
<1>4. Shaped(RecalculateExpedition(d, p), RebornParent(RecalculateExpedition(d, p), p))
  BY <1>3, RebornShapes DEF Legal
<1>5. QED BY <1>1, <1>3, <1>4, LegalThenShaped

LEMMA SeparatePreserves ==
  ASSUME FlowInv, NEW p \in Proposals, SeparateItems(p)
  PROVE  Preserves
<1> DEFINE d == Refreshed(p)
<1>1. db \in Database /\ Movable(db, p)
  BY LegalStart DEF SeparateItems
<1>2. Legal(db, d, reflowed) /\ ~d.proposal[p].cancelled /\ \A i \in Items : d.exp[i].del <= d.exp[i].sep
  BY <1>1, RefreshedIsLegal
<1>3. PICK q \in Selections(d, p, SeparationLimit(d)) :
        Commit(RebornParent(RecalculateExpedition(
          ChangeRows(d, q, LAMBDA e, n : [e EXCEPT !.sep = @ + n]), p), p))
  BY DEF SeparateItems
<1>4. UNCHANGED reflowed
  BY DEF SeparateItems
<1> HIDE DEF d
<1>5. d \in Database
  BY <1>2 DEF Legal
<1> DEFINE S == DOMAIN q
           rows == [i \in Items |-> IF i \in S THEN SeparatedRow(d.exp[i], q[i]) ELSE d.exp[i]]
           e == Changed(d, rows)
<1>6. ChangeRows(d, q, LAMBDA x, n : [x EXCEPT !.sep = @ + n]) = e
  BY DEF ChangeRows, Changed, SeparatedRow
<1>7. ASSUME NEW i \in S
      PROVE  /\ i \in ItemsOf(d, p) /\ i \in Items
             /\ SeparatedRow(d.exp[i], q[i]) \in ExpeditionItem /\ ExpMove(d.exp[i], SeparatedRow(d.exp[i], q[i]))
  <2>1. i \in ActiveRows(d, p) /\ q[i] \in Int /\ 1 <= q[i] /\ q[i] <= SeparationLimit(d)[i]
    BY SelectionFacts
  <2>2. i \in ItemsOf(d, p) /\ i \in Items /\ d.exp[i].avail > 0
    BY <1>5, <2>1, ActiveIsAvailable
  <2>3. q[i] <= d.exp[i].avail - d.exp[i].sep - d.exp[i].rem /\ d.exp[i] \in ExpeditionItem
        /\ d.exp[i].del <= d.exp[i].sep
    BY <1>2, <1>5, <2>1, <2>2, Typed DEF SeparationLimit
  <2>4. QED BY <2>1, <2>2, <2>3, SeparatedMoves
<1>8. rows \in [Items -> ExpeditionItem]
  BY <1>5, <1>7, Typed
<1>9. \A i \in Items : IF i \in S THEN ExpMove(d.exp[i], rows[i]) ELSE rows[i] = d.exp[i]
  BY <1>7
<1> HIDE DEF rows
<1>10. e \in Database /\ Shipped(d, p, e)
  BY <1>5, <1>7, <1>8, <1>9, ChangedShips
<1> HIDE DEF e
<1>11. Legal(db, e, reflowed)
  BY <1>1, <1>2, <1>10, LegalThenShipped
<1>12. ~e.proposal[p].cancelled
  BY <1>2, <1>10 DEF Shipped
<1>13. Legal(db, RebornParent(RecalculateExpedition(e, p), p), reflowed)
  BY <1>11, <1>12, SettledInExpedition
<1>14. QED BY <1>3, <1>4, <1>6, <1>13, CommitPreserves

\* An item closed as delivered.
Closed(item) == [item EXCEPT !.delivered = TRUE]
WithItems(d, items) == [d EXCEPT !.item = items]

LEMMA ItemsIsTyped ==
  ASSUME NEW d \in Database, NEW items \in [Items -> Item]
  PROVE  LET e == WithItems(d, items) IN
         /\ e \in Database /\ e.created = d.created /\ e.proposal = d.proposal /\ e.item = items
         /\ e.exp = d.exp /\ e.load = d.load /\ e.link = d.link
  BY DEF Database, WithItems

LEMMA ClosedFields ==
  ASSUME NEW x \in Item
  PROVE  /\ Closed(x) \in Item /\ Closed(x).owner = x.owner
         /\ Closed(x).produce = x.produce /\ Closed(x).galvanize = x.galvanize
         /\ Closed(x).produced = x.produced /\ Closed(x).galvanized = x.galvanized /\ Closed(x).delivered
  BY DEF Closed, Item

\* Closing the items whose rows are finished moves pieces of the proposal, too.
LEMMA CloseShips ==
  ASSUME NEW d \in Database, NEW e \in Database, NEW p, NEW S, S \subseteq ItemsOf(d, p), Shipped(d, p, e),
         e.item = d.item
  PROVE  CloseDelivered(e, S) \in Database /\ Shipped(d, p, CloseDelivered(e, S))
<1> DEFINE items == [i \in Items |-> IF i \in S /\ Outstanding(e.exp[i]) <= 0 THEN Closed(e.item[i]) ELSE e.item[i]]
           f == WithItems(e, items)
<1>1. CloseDelivered(e, S) = f
  BY DEF CloseDelivered, Closed, WithItems
<1>2. items \in [Items -> Item]
  BY Typed, ClosedFields
<1>3. \A i \in Items : items[i] = e.item[i] \/ (i \in S /\ items[i] = Closed(e.item[i]))
  OBVIOUS
<1> HIDE DEF items
<1>4. /\ f \in Database /\ f.created = e.created /\ f.proposal = e.proposal /\ f.item = items
      /\ f.exp = e.exp /\ f.load = e.load /\ f.link = e.link
  BY <1>2, ItemsIsTyped
<1> HIDE DEF f
<1>5. \A i \in S : d.item[i].owner = p
  BY DEF ItemsOf
<1>6. ASSUME NEW i \in Items
      PROVE  /\ f.item[i].owner = d.item[i].owner
             /\ f.item[i].produce = d.item[i].produce /\ f.item[i].galvanize = d.item[i].galvanize
             /\ f.item[i].produced = d.item[i].produced /\ f.item[i].galvanized = d.item[i].galvanized
             /\ d.item[i].delivered => f.item[i].delivered
             /\ d.item[i].owner # p => f.item[i] = d.item[i]
  <2>1. d.item[i] \in Item
    BY Typed
  <2>2. f.item[i] = d.item[i] \/ (d.item[i].owner = p /\ f.item[i] = Closed(d.item[i]))
    BY <1>3, <1>4, <1>5
  <2>3. QED BY <2>1, <2>2, ClosedFields
<1>7. Shipped(d, p, f)
  BY <1>4, <1>6 DEF Shipped
<1>8. QED BY <1>1, <1>4, <1>7

LEMMA DeliverPreserves ==
  ASSUME FlowInv, NEW p \in Proposals, DeliverItems(p)
  PROVE  Preserves
<1> DEFINE d == Refreshed(p)
<1>1. db \in Database /\ Movable(db, p)
  BY LegalStart DEF DeliverItems
<1>2. Legal(db, d, reflowed) /\ ~d.proposal[p].cancelled /\ \A i \in Items : d.exp[i].del <= d.exp[i].sep
  BY <1>1, RefreshedIsLegal
<1>3. PICK q \in Selections(d, p, DeliveryLimit(d)) :
        Commit(RebornParent(RecalculateExpedition(CloseDelivered(
          ChangeRows(d, q, LAMBDA e, n : [e EXCEPT !.del = @ + n]), DOMAIN q), p), p))
  BY DEF DeliverItems
<1>4. UNCHANGED reflowed
  BY DEF DeliverItems
<1> HIDE DEF d
<1>5. d \in Database
  BY <1>2 DEF Legal
<1> DEFINE S == DOMAIN q
           rows == [i \in Items |-> IF i \in S THEN DeliveredRow(d.exp[i], q[i]) ELSE d.exp[i]]
           e == Changed(d, rows)
           f == CloseDelivered(e, S)
<1>6. ChangeRows(d, q, LAMBDA x, n : [x EXCEPT !.del = @ + n]) = e
  BY DEF ChangeRows, Changed, DeliveredRow
<1>7. ASSUME NEW i \in S
      PROVE  /\ i \in ItemsOf(d, p) /\ i \in Items
             /\ DeliveredRow(d.exp[i], q[i]) \in ExpeditionItem /\ ExpMove(d.exp[i], DeliveredRow(d.exp[i], q[i]))
  <2>1. i \in ActiveRows(d, p) /\ q[i] \in Int /\ 1 <= q[i] /\ q[i] <= DeliveryLimit(d)[i]
    BY SelectionFacts
  <2>2. i \in ItemsOf(d, p) /\ i \in Items /\ d.exp[i].avail > 0
    BY <1>5, <2>1, ActiveIsAvailable
  <2>3. q[i] <= d.exp[i].sep - d.exp[i].del /\ d.exp[i] \in ExpeditionItem
        /\ d.exp[i].del <= d.exp[i].sep
    BY <1>2, <1>5, <2>1, <2>2, Typed DEF DeliveryLimit
  <2>4. QED BY <2>1, <2>2, <2>3, DeliveredMoves
<1>8. rows \in [Items -> ExpeditionItem]
  BY <1>5, <1>7, Typed
<1>9. \A i \in Items : IF i \in S THEN ExpMove(d.exp[i], rows[i]) ELSE rows[i] = d.exp[i]
  BY <1>7
<1> HIDE DEF rows
<1>10. S \subseteq ItemsOf(d, p) /\ e \in Database /\ Shipped(d, p, e) /\ e.item = d.item
  BY <1>5, <1>7, <1>8, <1>9, ChangedShips
<1> HIDE DEF e
<1>11. f \in Database /\ Shipped(d, p, f)
  BY <1>5, <1>10, CloseShips
<1>12. Commit(RebornParent(RecalculateExpedition(f, p), p))
  BY <1>3, <1>6
<1> HIDE DEF f
<1>13. Legal(db, f, reflowed)
  BY <1>1, <1>2, <1>11, LegalThenShipped
<1>14. ~f.proposal[p].cancelled
  BY <1>2, <1>11 DEF Shipped
<1>15. Legal(db, RebornParent(RecalculateExpedition(f, p), p), reflowed)
  BY <1>13, <1>14, SettledInExpedition
<1>16. QED BY <1>4, <1>12, <1>15, CommitPreserves
\* The row of a proposal that returns to production, written in two places of
\* the code, columns at a time.
ReturnedAs(row, shipping) ==
  [row EXCEPT !.area = "PRODUCAO", !.status = "ITEM_PENDENTE_FABRICACAO",
              !.production = "ITEM_PENDENTE_FABRICACAO", !.shipping = shipping, !.pending = TRUE]

ReturnedIn(d, p, shipping) ==
  [d EXCEPT !.proposal[p].area = "PRODUCAO", !.proposal[p].status = "ITEM_PENDENTE_FABRICACAO",
            !.proposal[p].production = "ITEM_PENDENTE_FABRICACAO",
            !.proposal[p].shipping = shipping, !.proposal[p].pending = TRUE]

ReturnShipping(d, p) ==
  IF \E i \in ActiveRows(d, p) : d.exp[i].del > 0 THEN "ENTREGUE_PARCIAL" ELSE "EM_SEPARACAO"

\* The five columns are written as two and three.
MadePending(row) == [row EXCEPT !.area = "PRODUCAO", !.status = "ITEM_PENDENTE_FABRICACAO",
                                !.production = "ITEM_PENDENTE_FABRICACAO"]
MadePendingIn(d, p) ==
  [d EXCEPT !.proposal[p].area = "PRODUCAO", !.proposal[p].status = "ITEM_PENDENTE_FABRICACAO",
            !.proposal[p].production = "ITEM_PENDENTE_FABRICACAO"]
LeftPending(row, shipping) == [row EXCEPT !.shipping = shipping, !.pending = TRUE]
LeftPendingIn(d, p, shipping) == [d EXCEPT !.proposal[p].shipping = shipping, !.proposal[p].pending = TRUE]

LEMMA ReturnedIsRow ==
  ASSUME NEW d \in Database, NEW p \in Proposals, NEW shipping
  PROVE  ReturnedIn(d, p, shipping) = SetRow(d, p, ReturnedAs(d.proposal[p], shipping))
<1> DEFINE half == MadePending(d.proposal[p])
           e == SetRow(d, p, half)
<1>1. MadePendingIn(d, p) = e
  BY Domains DEF SetRow, MadePending, MadePendingIn
<1>2. half \in Proposal
  <2>1. d.proposal[p] \in Proposal
    BY Typed
  <2>2. QED BY <2>1 DEF MadePending, Proposal, Areas, Statuses, ProductionStatuses
<1> HIDE DEF half
<1>3. e \in Database /\ RowSetTo(d, p, half, e)
  BY <1>2, SetRowRelates
<1>4. SetRow(e, p, LeftPending(half, shipping)) = SetRow(d, p, LeftPending(half, shipping))
  BY Domains DEF SetRow
<1> HIDE DEF e
<1>5. LeftPendingIn(e, p, shipping) = SetRow(e, p, LeftPending(e.proposal[p], shipping))
  BY <1>3, Domains DEF SetRow, LeftPending, LeftPendingIn
<1>6. ReturnedIn(d, p, shipping) = LeftPendingIn(e, p, shipping)
  BY <1>1 DEF ReturnedIn, LeftPendingIn, MadePendingIn
<1>7. ReturnedAs(d.proposal[p], shipping) = LeftPending(half, shipping)
  BY DEF ReturnedAs, LeftPending, MadePending, half
<1>8. e.proposal[p] = half
  BY <1>3 DEF RowSetTo
<1>9. QED BY <1>4, <1>5, <1>6, <1>7, <1>8

LEMMA ReturnedFields ==
  ASSUME NEW row \in Proposal, NEW shipping \in {"ENTREGUE_PARCIAL", "EM_SEPARACAO"}
  PROVE  LET r == ReturnedAs(row, shipping) IN
         /\ r \in Proposal /\ r.area = "PRODUCAO" /\ r.status = "ITEM_PENDENTE_FABRICACAO"
         /\ r.parent = row.parent /\ r.active = row.active /\ r.cancelled = row.cancelled
  BY DEF ReturnedAs, Proposal, Areas, Statuses, ProductionStatuses, ShippingStatuses

LEMMA ReturnPreserves ==
  ASSUME FlowInv, NEW p \in Proposals, ReturnToProduction(p)
  PROVE  Preserves
<1> DEFINE d == Refreshed(p)
<1>1. db \in Database /\ Movable(db, p)
  BY LegalStart DEF ReturnToProduction
<1>2. Legal(db, d, reflowed) /\ ~d.proposal[p].cancelled /\ \A i \in Items : d.exp[i].del <= d.exp[i].sep
  BY <1>1, RefreshedIsLegal
<1>3. PICK q \in Selections(d, p, RemanageLimit(d)) :
        LET e == ChangeRows(d, q, RemanageRow) IN Commit(ReturnedIn(e, p, ReturnShipping(e, p)))
  BY DEF ReturnToProduction, ReturnedIn, ReturnShipping
<1>4. UNCHANGED reflowed
  BY DEF ReturnToProduction
<1>5. PICK shipping \in {"ENTREGUE_PARCIAL", "EM_SEPARACAO"} :
        Commit(ReturnedIn(ChangeRows(d, q, RemanageRow), p, shipping))
  BY <1>3 DEF ReturnShipping
<1> HIDE DEF d
<1>6. d \in Database
  BY <1>2 DEF Legal
<1> DEFINE S == DOMAIN q
           rows == [i \in Items |-> IF i \in S THEN RemanageRow(d.exp[i], q[i]) ELSE d.exp[i]]
           e == Changed(d, rows)
           row == ReturnedAs(e.proposal[p], shipping)
<1>7. ChangeRows(d, q, RemanageRow) = e
  BY DEF ChangeRows, Changed
<1>8. ASSUME NEW i \in S
      PROVE  /\ i \in ItemsOf(d, p) /\ i \in Items
             /\ RemanageRow(d.exp[i], q[i]) \in ExpeditionItem /\ ExpMove(d.exp[i], RemanageRow(d.exp[i], q[i]))
  <2>1. i \in ActiveRows(d, p) /\ q[i] \in Int /\ 1 <= q[i] /\ q[i] <= RemanageLimit(d)[i]
    BY SelectionFacts
  <2>2. i \in ItemsOf(d, p) /\ i \in Items /\ d.exp[i].avail > 0
    BY <1>6, <2>1, ActiveIsAvailable
  <2>3. q[i] <= d.exp[i].avail - d.exp[i].del - d.exp[i].rem /\ d.exp[i] \in ExpeditionItem
        /\ d.exp[i].del <= d.exp[i].sep
    BY <1>2, <1>6, <2>1, <2>2, Typed DEF RemanageLimit, Outstanding
  <2>4. QED BY <2>1, <2>2, <2>3, RemanagedMoves
<1>9. rows \in [Items -> ExpeditionItem]
  BY <1>6, <1>8, Typed
<1>10. \A i \in Items : IF i \in S THEN ExpMove(d.exp[i], rows[i]) ELSE rows[i] = d.exp[i]
  BY <1>8
<1> HIDE DEF rows
<1>11. S \subseteq ItemsOf(d, p) /\ e \in Database /\ Shipped(d, p, e)
  BY <1>6, <1>8, <1>9, <1>10, ChangedShips
<1> HIDE DEF e
<1>12. Legal(db, e, reflowed)
  BY <1>1, <1>2, <1>11, LegalThenShipped
<1>13. e.proposal[p] \in Proposal /\ ~e.proposal[p].cancelled
  BY <1>2, <1>11, Typed DEF Shipped
<1>14. ReturnedIn(e, p, shipping) = SetRow(e, p, row)
  BY <1>11, ReturnedIsRow
<1>15. /\ row \in Proposal /\ row.area = "PRODUCAO" /\ row.status = "ITEM_PENDENTE_FABRICACAO"
       /\ row.parent = e.proposal[p].parent /\ row.active = e.proposal[p].active
       /\ row.cancelled = e.proposal[p].cancelled
  BY <1>13, ReturnedFields
<1> HIDE DEF row
<1>16. RowChange(e, p, row)
  BY <1>13, <1>15 DEF RowChange, Still
<1>17. Legal(db, SetRow(e, p, row), reflowed)
  BY <1>1, <1>12, <1>15, <1>16, LegalThenRow
<1>18. QED BY <1>4, <1>5, <1>7, <1>14, <1>17, CommitPreserves
-----------------------------------------------------------------------------
\* An item marked as produced.
MadeItem(item) == [item EXCEPT !.produced = TRUE]

LEMMA MadeFields ==
  ASSUME NEW x \in Item
  PROVE  /\ MadeItem(x) \in Item /\ MadeItem(x).owner = x.owner
         /\ MadeItem(x).produce = x.produce /\ MadeItem(x).galvanize = x.galvanize
         /\ MadeItem(x).produced /\ MadeItem(x).galvanized = x.galvanized /\ MadeItem(x).delivered = x.delivered
  BY DEF MadeItem, Item

\* Items of proposal p have been marked as produced.
Made(d, p, e) ==
  /\ e.proposal = d.proposal /\ e.created = d.created /\ e.exp = d.exp
  /\ e.load = d.load /\ e.link = d.link
  /\ \A i \in Items :
       e.item[i] = d.item[i] \/ (d.item[i].owner = p /\ e.item[i] = MadeItem(d.item[i]))

LEMMA MarkProducedRelates ==
  ASSUME NEW d \in Database, NEW p, NEW S, S \subseteq ItemsOf(d, p)
  PROVE  MarkProduced(d, S) \in Database /\ Made(d, p, MarkProduced(d, S))
<1> DEFINE items == [i \in Items |-> IF i \in S THEN MadeItem(d.item[i]) ELSE d.item[i]]
           e == WithItems(d, items)
<1>1. MarkProduced(d, S) = e
  BY DEF MarkProduced, MadeItem, WithItems
<1>2. items \in [Items -> Item]
  BY Typed, MadeFields
<1>3. \A i \in Items : items[i] = d.item[i] \/ (i \in S /\ items[i] = MadeItem(d.item[i]))
  OBVIOUS
<1> HIDE DEF items
<1>4. /\ e \in Database /\ e.created = d.created /\ e.proposal = d.proposal /\ e.item = items
      /\ e.exp = d.exp /\ e.load = d.load /\ e.link = d.link
  BY <1>2, ItemsIsTyped
<1> HIDE DEF e
<1>5. \A i \in S : d.item[i].owner = p
  BY DEF ItemsOf
<1>6. QED BY <1>1, <1>3, <1>4, <1>5 DEF Made

\* Marking items as produced keeps what a transaction has to keep.
LEMMA LegalThenMade ==
  ASSUME NEW d0 \in Database, NEW d, NEW r, Legal(d0, d, r), NEW p \in Proposals,
         ~d.proposal[p].cancelled, NEW e \in Database, Made(d, p, e)
  PROVE  Legal(d0, e, r)
<1>1. d \in Database /\ Pieces(d, r) /\ Family(d) /\ Kept(d0, d) /\ Settled(d0, d)
  BY DEF Legal
<1>2. \A i \in Items : ReturnedQuantity(e, i) = ReturnedQuantity(d, i) /\ SentQuantity(e, i) = SentQuantity(d, i)
  BY SameSums DEF Made
<1>3. ASSUME NEW i \in Items
      PROVE  /\ e.item[i].owner = d.item[i].owner
             /\ e.item[i].produce = d.item[i].produce /\ e.item[i].galvanize = d.item[i].galvanize
             /\ e.item[i].galvanized = d.item[i].galvanized /\ e.item[i].delivered = d.item[i].delivered
             /\ d.item[i].produced => e.item[i].produced
             /\ d.item[i].owner # p => e.item[i] = d.item[i]
  <2>1. d.item[i] \in Item
    BY <1>1, Typed
  <2>2. e.item[i] = d.item[i] \/ (d.item[i].owner = p /\ e.item[i] = MadeItem(d.item[i]))
    BY DEF Made
  <2>3. QED BY <2>1, <2>2, MadeFields
<1>4. LinksHold(e)
  BY <1>1, <1>2, <1>3 DEF Pieces, LinksHold, Made
<1>5. FlagsHold(e)
  BY <1>1, <1>2, <1>3 DEF Pieces, FlagsHold
<1>6. RowsNest(e, r)
  BY <1>1, <1>2, <1>3 DEF Pieces, RowsNest, Made, SupplyIn, FlowDefined
<1>7. Family(e)
  <2>1. Marked(e)
    BY <1>1, <1>2, <1>3 DEF Family, Marked, Made
  <2>2. QED BY <1>1, <1>3, <2>1, FamilyFollows DEF Made
<1>8. Kept(d, e)
  <2>1. \A i \in Items : d.exp[i].del <= e.exp[i].del /\ d.exp[i].rem <= e.exp[i].rem
    BY <1>1, ExpTyped DEF Made
  <2>2. \A l \in Loads, i \in Items : d.link[l][i].returned <= e.link[l][i].returned
    BY <1>1, Typed DEF Made
  <2>3. QED BY <1>3, <2>1, <2>2 DEF Kept
<1>9. Settled(d, e)
  <2>1. \A q \in Proposals : OpenChildren(e, q) = OpenChildren(d, q)
    BY DEF Made, OpenChildren, Children
  <2>2. QED BY <1>3, <2>1 DEF Settled, Still, Made
<1>10. Pieces(e, r)
  BY <1>4, <1>5, <1>6 DEF Pieces
<1>11. Kept(d0, e)
  BY <1>1, <1>3, <1>8, KeptTransitive
<1>12. Settled(d0, e)
  BY <1>1, <1>9, SettledTransitive
<1>13. QED BY <1>7, <1>10, <1>11, <1>12 DEF Legal

\* How completion ends, with or without children.
LEMMA ProductionSettles ==
  ASSUME FlowInv, NEW p \in Proposals, NEW d, Legal(db, d, reflowed), ~d.proposal[p].cancelled,
         d.proposal[p].area = "PRODUCAO", NEW split
  PROVE  Legal(db, ConvergeFamily(SettleProduction(d, p, split), p, split), reflowed)
<1> DEFINE s == SettleProduction(d, p, split)
<1>1. db \in Database /\ d \in Database /\ Family(d)
  BY LegalStart DEF Legal
<1>2. Shaped(d, s)
  BY <1>1, SettleProductionShapes
<1> HIDE DEF s
<1>3. Legal(db, s, reflowed)
  BY <1>1, <1>2, LegalThenShaped
<1>4. Shaped(s, ConvergeFamily(s, p, split))
  BY <1>3, ConvergeFamilyShapes DEF Legal
<1>5. Legal(db, ConvergeFamily(s, p, split), reflowed)
  BY <1>1, <1>3, <1>4, LegalThenShaped
<1>6. QED BY <1>5 DEF s

\* Completing production: a split, or the next area of the proposal.
LEMMA CompletePreserves ==
  ASSUME FlowInv, NEW p \in Proposals, CompleteProductionItems(p)
  PROVE  Preserves
<1>1. db \in Database /\ Legal(db, db, reflowed)
  BY LegalStart
<1>2. p <= db.created /\ ~db.proposal[p].cancelled /\ db.proposal[p].area = "PRODUCAO"
  BY <1>1, MovableRow DEF CompleteProductionItems, CompletableProduction, InProduction
<1>3. PICK S \in (SUBSET PendingItems(db, p)) \ {{}} :
       LET d == MarkProduced(db, S)
           split == PendingItems(d, p) \ S # {} \/ Children(db, p) # {}
           groups == {Destination(i) : i \in S}
       IN  IF ~split THEN Commit(ConvergeFamily(SettleProduction(d, p, FALSE), p, FALSE))
           ELSE /\ db.created + Cardinality(groups) <= MaxProposals
                /\ \E child \in Bijection(groups, db.created + 1 .. db.created + Cardinality(groups)) :
                     LET s == SettleProduction(SplitChildren(d, p, S, child), p, TRUE)
                     IN  Commit(ConvergeFamily(s, p, TRUE))
  BY DEF CompleteProductionItems
<1>4. UNCHANGED reflowed
  BY DEF CompleteProductionItems
<1>5. S # {} /\ S \subseteq ItemsOf(db, p) /\ S \subseteq Items
  BY <1>3 DEF PendingItems, InternalItems, ItemsOf
<1> DEFINE d == MarkProduced(db, S)
           n == Cardinality({Destination(i) : i \in S})
<1>6. d \in Database /\ Made(db, p, d)
  BY <1>1, <1>5, MarkProducedRelates
<1>7. \/ Commit(ConvergeFamily(SettleProduction(d, p, FALSE), p, FALSE))
      \/ /\ db.created + n <= MaxProposals
         /\ \E child \in Bijection({Destination(i) : i \in S}, db.created + 1 .. db.created + n) :
              Commit(ConvergeFamily(SettleProduction(SplitChildren(d, p, S, child), p, TRUE), p, TRUE))
  BY <1>3
<1> HIDE DEF d
<1>8. Legal(db, d, reflowed)
  BY <1>1, <1>2, <1>6, LegalThenMade
<1>9. d.proposal = db.proposal /\ d.created = db.created /\ ItemsOf(d, p) = ItemsOf(db, p)
  <2>1. \A i \in Items : d.item[i].owner = db.item[i].owner
    BY <1>1, <1>6, Typed, MadeFields DEF Made
  <2>2. QED BY <1>6, <2>1 DEF Made, ItemsOf
<1>10. CASE Commit(ConvergeFamily(SettleProduction(d, p, FALSE), p, FALSE))
  <2>1. Legal(db, ConvergeFamily(SettleProduction(d, p, FALSE), p, FALSE), reflowed)
    BY <1>2, <1>8, <1>9, ProductionSettles
  <2>2. QED BY <1>4, <1>10, <2>1, CommitPreserves
<1>11. ASSUME db.created + n <= MaxProposals,
              NEW child \in Bijection({Destination(i) : i \in S}, db.created + 1 .. db.created + n),
              Commit(ConvergeFamily(SettleProduction(SplitChildren(d, p, S, child), p, TRUE), p, TRUE))
       PROVE  Preserves
  <2> DEFINE at == [i \in S |-> child[Destination(i)]]
             e == SplitChildren(d, p, S, child)
  <2>1. n \in Nat
    BY <1>5, TwoDestinations
  <2>2. db.created + 1 .. db.created + n = NewIds(d, n)
    BY <1>9 DEF NewIds
  <2>3. e \in Database /\ SplitInto(d, p, S, at, NewIds(d, n), e)
    <3> DEFINE m == n
    <3>1. m \in Nat /\ m = Cardinality({Destination(i) : i \in S}) /\ d.created + m <= MaxProposals
          /\ child \in Bijection({Destination(i) : i \in S}, NewIds(d, m))
      BY <1>9, <1>11, <2>1, <2>2
    <3> HIDE DEF m
    <3>2. e \in Database /\ SplitInto(d, p, S, at, NewIds(d, m), e)
      BY <1>2, <1>5, <1>6, <1>9, <3>1, SplitRelates
    <3>3. QED BY <3>2 DEF m
  <2>4. Commit(ConvergeFamily(SettleProduction(e, p, TRUE), p, TRUE))
    BY <1>11
  <2> HIDE DEF at, e, n
  <2>5. Shaped(d, e)
    <3>1. d \in Database /\ Family(d) /\ p <= d.created /\ ~d.proposal[p].cancelled
          /\ d.proposal[p].area = "PRODUCAO" /\ S \subseteq ItemsOf(d, p)
      BY <1>2, <1>5, <1>8, <1>9 DEF Legal
    <3>2. QED BY <2>3, <3>1, SplitShapes
  <2>6. Legal(db, e, reflowed)
    BY <1>1, <1>8, <2>5, LegalThenShaped
  <2>7. e.proposal[p] = d.proposal[p]
    BY <1>2, <1>9, <2>3 DEF SplitInto
  <2>8. Legal(db, ConvergeFamily(SettleProduction(e, p, TRUE), p, TRUE), reflowed)
    BY <1>2, <1>9, <2>6, <2>7, ProductionSettles
  <2>9. QED BY <1>4, <2>4, <2>8, CommitPreserves
<1>12. QED BY <1>7, <1>10, <1>11
\* The item after its flow was redefined.
ReflowedAs(item, produce, galvanize, produced) ==
  [item EXCEPT !.produce = produce, !.galvanize = galvanize, !.produced = produced]

LEMMA ReflowedFields ==
  ASSUME NEW x \in Item, NEW produce \in Flags, NEW galvanize \in Flags, NEW produced \in BOOLEAN
  PROVE  LET y == ReflowedAs(x, produce, galvanize, produced) IN
         /\ y \in Item /\ y.owner = x.owner /\ y.produce = produce /\ y.galvanize = galvanize
         /\ y.produced = produced /\ y.galvanized = x.galvanized /\ y.delivered = x.delivered
  BY DEF ReflowedAs, Item

\* What redefining the flow makes of an item.
LEMMA ReflowFields ==
  ASSUME NEW p, NEW i, db.item[i] \in Item, NEW flow \in Flags \X Flags
  PROVE  LET x == db.item[i]
             y == Reflow(p, i, flow)
         IN  /\ y \in Item /\ y.owner = x.owner /\ y.produce = flow[1] /\ y.galvanize = flow[2]
             /\ y.galvanized = x.galvanized /\ y.delivered = x.delivered
             /\ flow[1] = "NAO" => y.produced
<1> DEFINE x == db.item[i]
           produced == IF flow[1] = "NAO" THEN TRUE
                       ELSE IF x.produce = "NAO" /\ db.proposal[p].production # "FINALIZADO"
                       THEN FALSE ELSE x.produced
<1>1. x \in Item /\ flow[1] \in Flags /\ flow[2] \in Flags
  OBVIOUS
<1>2. Reflow(p, i, flow) = ReflowedAs(x, flow[1], flow[2], produced)
  BY DEF Reflow, ReflowedAs
<1>3. produced \in BOOLEAN /\ (flow[1] = "NAO" => produced)
  BY <1>1 DEF Item
<1> HIDE DEF x, produced
<1>4. QED BY <1>1, <1>2, <1>3, ReflowedFields DEF x

\* The flow of the items S of proposal p has been redefined; r are the items
\* that had an Expedition row then.
Redefined(p, S, r, d) ==
  /\ d.proposal = db.proposal /\ d.created = db.created /\ d.exp = db.exp
  /\ d.load = db.load /\ d.link = db.link
  /\ \A i \in Items : i \notin S => d.item[i] = db.item[i]
  /\ \A i \in S :
       /\ i \in Items /\ db.item[i].owner = p /\ ~FlowLocked(i)
       /\ d.item[i].owner = p /\ d.item[i].galvanized = db.item[i].galvanized
       /\ d.item[i].delivered = db.item[i].delivered
       /\ d.item[i].produce = "NAO" => d.item[i].produced
       /\ i \notin r /\ db.exp[i] # NoRow =>
            d.item[i].produce = db.item[i].produce /\ d.item[i].galvanize = db.item[i].galvanize

LEMMA RedefinedIsLegal ==
  ASSUME FlowInv, NEW p \in Proposals, ~db.proposal[p].cancelled, NEW S, NEW r, reflowed \subseteq r,
         NEW d \in Database, Redefined(p, S, r, d)
  PROVE  Legal(db, d, r)
<1>1. db \in Database /\ Pieces(db, reflowed) /\ Family(db)
  BY LegalStart DEF Legal
<1>2. \A i \in Items : ReturnedQuantity(d, i) = ReturnedQuantity(db, i) /\ SentQuantity(d, i) = SentQuantity(db, i)
  BY SameSums DEF Redefined
<1>3. \A i \in S : /\ i \in Items /\ db.item[i].owner = p /\ d.item[i].owner = p
                   /\ ~db.item[i].delivered /\ ~d.item[i].delivered
                   /\ ~db.item[i].galvanized /\ ~d.item[i].galvanized
                   /\ \A l \in Loads : ~(db.link[l][i].sent > 0)
                   /\ db.item[i].produced => db.item[i].produce = "NAO"
                   /\ d.item[i].produce = "NAO" => d.item[i].produced
  BY DEF Redefined, FlowLocked
<1>4. LinksHold(d)
  <2>1. \A l \in Loads, i \in Items : d.link[l][i].sent > 0 => d.item[i] = db.item[i]
    BY <1>3 DEF Redefined
  <2>2. QED BY <1>1, <1>2, <2>1 DEF Pieces, LinksHold, Redefined
<1>5. FlagsHold(d)
  BY <1>1, <1>2, <1>3 DEF Pieces, FlagsHold, Redefined
<1>6. RowsNest(d, r)
  <2> SUFFICES ASSUME NEW i \in Items
               PROVE  /\ d.exp[i].del <= d.exp[i].sep
                      /\ i \notin r => /\ d.exp[i].sep + d.exp[i].rem <= d.exp[i].avail
                                       /\ d.exp[i].avail <= SupplyIn(d, i)
                      /\ i \notin r /\ d.exp[i] # NoRow => FlowDefined(d, i) /\ d.item[i].produced
    BY DEF RowsNest
  <2>1. /\ d.exp[i] = db.exp[i]
        /\ db.exp[i].del <= db.exp[i].sep
        /\ i \notin r => db.exp[i].sep + db.exp[i].rem <= db.exp[i].avail /\ db.exp[i].avail <= SupplyIn(db, i)
        /\ i \notin r /\ db.exp[i] # NoRow => FlowDefined(db, i) /\ db.item[i].produced
    BY <1>1 DEF Pieces, RowsNest, Redefined
  <2>2. CASE i \notin S
    <3>1. d.item[i] = db.item[i] /\ SupplyIn(d, i) = SupplyIn(db, i) /\ (FlowDefined(d, i) <=> FlowDefined(db, i))
      BY <1>2, <2>2 DEF Redefined, SupplyIn, FlowDefined
    <3>2. QED BY <2>1, <3>1
  <2>3. CASE db.exp[i] = NoRow
    <3>1. SupplyIn(d, i) \in Nat
      BY Typed, LoadSums DEF SupplyIn
    <3> DEFINE s == SupplyIn(d, i)
    <3> HIDE DEF s
    <3>2. 0 <= s
      BY <3>1 DEF s
    <3>3. d.exp[i].avail <= s
      BY <2>1, <2>3, <3>2 DEF NoRow
    <3>4. QED BY <2>1, <2>3, <3>3 DEF s
  <2>4. CASE i \in S /\ db.exp[i] # NoRow /\ i \notin r
    <3>1. d.item[i].produce = db.item[i].produce /\ d.item[i].galvanize = db.item[i].galvanize
      BY <2>4 DEF Redefined
    <3>2. db.item[i].produced /\ d.item[i].produced
      BY <1>3, <2>1, <2>4, <3>1
    <3>3. SupplyIn(d, i) = SupplyIn(db, i) /\ (FlowDefined(d, i) <=> FlowDefined(db, i))
      BY <1>2, <3>1 DEF SupplyIn, FlowDefined
    <3>4. QED BY <2>1, <2>4, <3>2, <3>3
  <2>5. CASE i \in r
    BY <2>1, <2>5
  <2>6. QED BY <2>2, <2>3, <2>4, <2>5
<1>7. Family(d)
  <2>1. \A i \in Items : d.item[i].owner = db.item[i].owner
    BY <1>3 DEF Redefined
  <2>2. \A i \in Items : d.item[i].galvanized = db.item[i].galvanized
    BY <1>3 DEF Redefined
  <2>3. Marked(d)
    BY <1>1, <1>2, <2>1, <2>2 DEF Family, Marked, Redefined
  <2>4. \A i \in Items : db.item[i].delivered => d.item[i].delivered
    BY <1>3 DEF Redefined
  <2>5. QED BY <1>1, <2>1, <2>3, <2>4, FamilyFollows DEF Redefined
<1>8. Kept(db, d)
  <2>1. \A i \in Items : db.exp[i].del <= d.exp[i].del /\ db.exp[i].rem <= d.exp[i].rem
    BY <1>1, ExpTyped DEF Redefined
  <2>2. \A l \in Loads, i \in Items : db.link[l][i].returned <= d.link[l][i].returned
    BY <1>1, Typed DEF Redefined
  <2>3. \A i \in Items : /\ db.item[i].delivered => d.item[i].delivered
                         /\ db.item[i].galvanized => d.item[i].galvanized
                         /\ db.item[i].produced /\ db.item[i].produce = d.item[i].produce => d.item[i].produced
    BY <1>3 DEF Redefined
  <2>4. QED BY <2>1, <2>2, <2>3 DEF Kept
<1>9. Settled(db, d)
  <2>1. \A q \in Proposals : OpenChildren(d, q) = OpenChildren(db, q)
    BY DEF Redefined, OpenChildren, Children
  <2>2. \A i \in Items : d.item[i].owner = db.item[i].owner
    BY <1>3 DEF Redefined
  <2>3. \A i \in Items : db.item[i].owner # p => d.item[i] = db.item[i] /\ d.exp[i] = db.exp[i]
    BY <1>3 DEF Redefined
  <2>4. QED BY <2>1, <2>2, <2>3 DEF Settled, Still, Redefined
<1>10. QED BY <1>4, <1>5, <1>6, <1>7, <1>8, <1>9 DEF Legal, Pieces

\* Redefining the flow may leave rows that no longer nest: those of reflowed.
LEMMA UpdateFlowPreserves ==
  ASSUME FlowInv, NEW p \in Proposals, UpdateItemFlow(p)
  PROVE  Preserves
<1>1. db \in Database /\ Legal(db, db, reflowed)
  BY LegalStart
<1>2. p <= db.created /\ ~db.proposal[p].cancelled /\ db.proposal[p].area = "PRODUCAO"
  BY <1>1, MovableRow DEF UpdateItemFlow, InProduction
<1>3. PICK S \in SUBSET ItemsOf(db, p) :
        /\ \A i \in S : ~FlowLocked(i)
        /\ \E f \in [S -> Flags \X Flags] :
             /\ Commit(RecalculateProduction(
                  [db EXCEPT !.item = [i \in Items |-> IF i \in S THEN Reflow(p, i, f[i]) ELSE db.item[i]]], p))
             /\ reflowed' = reflowed \cup
                  {i \in S : db.exp[i] # NoRow /\ f[i] # <<db.item[i].produce, db.item[i].galvanize>>}
  BY DEF UpdateItemFlow
<1>4. PICK f \in [S -> Flags \X Flags] :
        /\ Commit(RecalculateProduction(
             [db EXCEPT !.item = [i \in Items |-> IF i \in S THEN Reflow(p, i, f[i]) ELSE db.item[i]]], p))
        /\ reflowed' = reflowed \cup
             {i \in S : db.exp[i] # NoRow /\ f[i] # <<db.item[i].produce, db.item[i].galvanize>>}
  BY <1>3
<1> DEFINE items == [i \in Items |-> IF i \in S THEN Reflow(p, i, f[i]) ELSE db.item[i]]
           d == WithItems(db, items)
<1>5. \A i \in S : i \in Items /\ db.item[i].owner = p /\ f[i] \in Flags \X Flags /\ db.item[i] \in Item
  BY <1>1, Typed DEF ItemsOf
<1>6. items \in [Items -> Item]
  BY <1>1, <1>5, Typed, ReflowFields
<1>7. \A i \in Items : items[i] = IF i \in S THEN Reflow(p, i, f[i]) ELSE db.item[i]
  OBVIOUS
<1>8. Commit(RecalculateProduction(d, p))
  BY <1>4 DEF WithItems
<1> HIDE DEF items
<1>9. /\ d \in Database /\ d.created = db.created /\ d.proposal = db.proposal /\ d.item = items
      /\ d.exp = db.exp /\ d.load = db.load /\ d.link = db.link
  BY <1>1, <1>6, ItemsIsTyped
<1> HIDE DEF d
<1>10. reflowed \subseteq reflowed' /\ reflowed' \subseteq Items
  BY <1>4, <1>5 DEF FlowInv, TypeOK
<1>11. Redefined(p, S, reflowed', d)
  <2>1. ASSUME NEW i \in S
        PROVE  /\ d.item[i].owner = p /\ d.item[i].galvanized = db.item[i].galvanized
               /\ d.item[i].delivered = db.item[i].delivered
               /\ d.item[i].produce = "NAO" => d.item[i].produced
               /\ i \notin reflowed' /\ db.exp[i] # NoRow =>
                    d.item[i].produce = db.item[i].produce /\ d.item[i].galvanize = db.item[i].galvanize
    <3>1. d.item[i] = Reflow(p, i, f[i])
      BY <1>5, <1>7, <1>9
    <3>2. /\ d.item[i].owner = p /\ d.item[i].galvanized = db.item[i].galvanized
          /\ d.item[i].delivered = db.item[i].delivered
          /\ d.item[i].produce = f[i][1] /\ d.item[i].galvanize = f[i][2]
          /\ f[i][1] = "NAO" => d.item[i].produced
      BY <1>5, <3>1, ReflowFields
    <3>3. i \notin reflowed' /\ db.exp[i] # NoRow => f[i] = <<db.item[i].produce, db.item[i].galvanize>>
      BY <1>4
    <3>4. QED BY <3>2, <3>3
  <2>2. QED BY <1>3, <1>5, <1>7, <1>9, <2>1 DEF Redefined
<1>12. Legal(db, d, reflowed')
  BY <1>2, <1>9, <1>10, <1>11, RedefinedIsLegal
<1>13. Shaped(d, RecalculateProduction(d, p))
  BY <1>2, <1>9, <1>12, RecalculateProductionShapes DEF Legal
<1>14. Legal(db, RecalculateProduction(d, p), reflowed')
  BY <1>1, <1>12, <1>13, LegalThenShaped
<1>15. QED BY <1>8, <1>10, <1>14, CommitKeeps DEF Preserves

-----------------------------------------------------------------------------
\* Loads have changed, but nothing has come back.
LoadsMoved(d, e) ==
  /\ e.proposal = d.proposal /\ e.created = d.created /\ e.item = d.item /\ e.exp = d.exp
  /\ \A l \in Loads, i \in Items : e.link[l][i].returned = d.link[l][i].returned
  /\ LinksHold(e)

\* Composing, releasing and closing loads keeps what a transaction has to keep.
LEMMA LegalThenLoads ==
  ASSUME NEW d0 \in Database, NEW d, NEW r, Legal(d0, d, r), NEW e \in Database, LoadsMoved(d, e)
  PROVE  Legal(d0, e, r)
<1>1. d \in Database /\ Pieces(d, r) /\ Family(d) /\ Kept(d0, d) /\ Settled(d0, d)
  BY DEF Legal
<1>2. \A i \in Items : ReturnedQuantity(e, i) = ReturnedQuantity(d, i)
  BY ReturnedFollowsLinks DEF LoadsMoved
<1>3. FlagsHold(e)
  BY <1>1, <1>2 DEF Pieces, FlagsHold, LoadsMoved
<1>4. RowsNest(e, r)
  BY <1>1, <1>2 DEF Pieces, RowsNest, LoadsMoved, SupplyIn, FlowDefined
<1>5. Pieces(e, r)
  BY <1>3, <1>4 DEF Pieces, LoadsMoved
<1>6. Family(e)
  <2>1. Marked(e)
    BY <1>1, <1>2 DEF Family, Marked, LoadsMoved
  <2>2. QED BY <1>1, <2>1, FamilyFollows DEF LoadsMoved
<1>7. Kept(d, e)
  <2>1. \A i \in Items : d.exp[i].del <= e.exp[i].del /\ d.exp[i].rem <= e.exp[i].rem
    BY <1>1, ExpTyped DEF LoadsMoved
  <2>2. \A l \in Loads, i \in Items : d.link[l][i].returned <= e.link[l][i].returned
    BY <1>1, Typed DEF LoadsMoved
  <2>3. QED BY <2>1, <2>2 DEF Kept, LoadsMoved
<1>8. Settled(d, e)
  BY DEF Settled, Still, OpenChildren, Children, LoadsMoved
<1>9. Kept(d0, e)
  BY <1>1, <1>7, KeptTransitive DEF LoadsMoved
<1>10. Settled(d0, e)
  BY <1>1, <1>8, SettledTransitive
<1>11. QED BY <1>5, <1>6, <1>9, <1>10 DEF Legal

\* Projecting the loads onto the rows of the proposals shapes the family.
LEMMA WithRowsShapes ==
  ASSUME NEW d \in Database, Family(d), NEW rows \in [Proposals -> Proposal],
         \A p \in Proposals : rows[p] = d.proposal[p] \/ RowChange(d, p, rows[p])
  PROVE  Shaped(d, WithRows(d, rows))
<1> DEFINE e == WithRows(d, rows)
<1>1. /\ e \in Database /\ e.created = d.created /\ e.proposal = rows /\ e.item = d.item
      /\ e.exp = d.exp /\ e.load = d.load /\ e.link = d.link
  BY RowsIsTyped
<1> HIDE DEF e
<1>2. Shaped(d, e)
  BY <1>1, RowsShape
<1>3. QED BY <1>2 DEF e

\* A row set to a stage of galvanization or to the start of Expedition.
LEMMA StageRow ==
  ASSUME NEW d \in Database, NEW p \in Proposals, ~d.proposal[p].cancelled, NEW row \in Proposal,
         row.parent = d.proposal[p].parent, row.active = d.proposal[p].active,
         row.cancelled = d.proposal[p].cancelled,
         \/ row.area = "GALVANIZACAO" /\ row.status # "CANCELADA"
         \/ row.area = "EXPEDICAO" /\ row.status = "EM_SEPARACAO"
  PROVE  RowChange(d, p, row)
  BY DEF RowChange, Still, ShippingStatuses

\* The two changes of which a stage of galvanization is made.
MoveTo(row, area, status) == [row EXCEPT !.area = area, !.status = status]
Ship(row, shipping) == [row EXCEPT !.shipping = shipping]

LEMMA MoveToFields ==
  ASSUME NEW row \in Proposal, NEW area \in Areas, NEW status \in Statuses
  PROVE  LET r == MoveTo(row, area, status) IN
         /\ r \in Proposal /\ r.area = area /\ r.status = status /\ r.parent = row.parent
         /\ r.active = row.active /\ r.cancelled = row.cancelled
  BY DEF MoveTo, Proposal

LEMMA ShipFields ==
  ASSUME NEW row \in Proposal, NEW shipping \in ShippingStatuses
  PROVE  LET r == Ship(row, shipping) IN
         /\ r \in Proposal /\ r.area = row.area /\ r.status = row.status /\ r.parent = row.parent
         /\ r.active = row.active /\ r.cancelled = row.cancelled
  BY DEF Ship, Proposal

\* What a load may make of a row.
Stages(row) ==
  LET stage(area, status) == MoveTo(row, area, status)
      back == stage("GALVANIZACAO", "RETORNOU_PARCIAL")
      partly == Ship(back, IF back.shipping = "NENHUM" THEN "AGUARDANDO_SEPARACAO_PARCIAL" ELSE back.shipping)
  IN  {stage("GALVANIZACAO", "EM_CARGA"), stage("GALVANIZACAO", "ENVIADO_GALVANIZACAO"), partly,
       stage("GALVANIZACAO", "AGUARDANDO_ENVIO"),
       Ship(stage("EXPEDICAO", "EM_SEPARACAO"), "EM_SEPARACAO")}

LEMMA StagesChange ==
  ASSUME NEW d \in Database, NEW p \in Proposals, ~d.proposal[p].cancelled, NEW row \in Stages(d.proposal[p])
  PROVE  row \in Proposal /\ RowChange(d, p, row)
<1> DEFINE old == d.proposal[p]
<1>1. old \in Proposal
  BY Typed
<1> HIDE DEF old
<1> DEFINE back == MoveTo(old, "GALVANIZACAO", "RETORNOU_PARCIAL")
           shipping == IF back.shipping = "NENHUM" THEN "AGUARDANDO_SEPARACAO_PARCIAL" ELSE back.shipping
<1>2. /\ back \in Proposal /\ back.area = "GALVANIZACAO" /\ back.status = "RETORNOU_PARCIAL"
      /\ back.parent = old.parent /\ back.active = old.active /\ back.cancelled = old.cancelled
  <2>1. "GALVANIZACAO" \in Areas /\ "RETORNOU_PARCIAL" \in Statuses
    BY DEF Areas, Statuses, GalvanizationStatuses
  <2>2. QED BY <1>1, <2>1, MoveToFields
<1>3. shipping \in ShippingStatuses /\ "EM_SEPARACAO" \in ShippingStatuses
  <2> HIDE DEF back
  <2>1. back.shipping \in ShippingStatuses
    BY <1>2 DEF Proposal
  <2>2. QED BY <2>1 DEF ShippingStatuses
<1>4. /\ {"GALVANIZACAO", "EXPEDICAO"} \subseteq Areas
      /\ {"EM_CARGA", "ENVIADO_GALVANIZACAO", "RETORNOU_PARCIAL", "AGUARDANDO_ENVIO", "EM_SEPARACAO"} \subseteq Statuses
  BY DEF Areas, Statuses, ShippingStatuses, GalvanizationStatuses
<1>5. \/ row \in {MoveTo(old, "GALVANIZACAO", status) : status \in {"EM_CARGA", "ENVIADO_GALVANIZACAO", "AGUARDANDO_ENVIO"}}
      \/ row = Ship(back, shipping)
      \/ row = Ship(MoveTo(old, "EXPEDICAO", "EM_SEPARACAO"), "EM_SEPARACAO")
  BY DEF Stages, old
<1> HIDE DEF shipping, back
<1>6. /\ row \in Proposal /\ row.parent = old.parent /\ row.active = old.active /\ row.cancelled = old.cancelled
      /\ \/ row.area = "GALVANIZACAO" /\ row.status # "CANCELADA"
         \/ row.area = "EXPEDICAO" /\ row.status = "EM_SEPARACAO"
  <2>1. CASE row \in {MoveTo(old, "GALVANIZACAO", status) : status \in {"EM_CARGA", "ENVIADO_GALVANIZACAO", "AGUARDANDO_ENVIO"}}
    <3>1. PICK status \in {"EM_CARGA", "ENVIADO_GALVANIZACAO", "AGUARDANDO_ENVIO"} : row = MoveTo(old, "GALVANIZACAO", status)
      BY <2>1
    <3> DEFINE m == MoveTo(old, "GALVANIZACAO", status)
    <3>2. status \in Statuses /\ status # "CANCELADA" /\ "GALVANIZACAO" \in Areas
      BY <1>4
    <3>3. /\ m \in Proposal /\ m.area = "GALVANIZACAO" /\ m.status = status /\ m.parent = old.parent
          /\ m.active = old.active /\ m.cancelled = old.cancelled
      BY <1>1, <3>2, MoveToFields
    <3> HIDE DEF m
    <3>4. QED BY <3>1, <3>2, <3>3 DEF m
  <2>2. CASE row = Ship(back, shipping)
    BY <1>2, <1>3, <2>2, ShipFields
  <2>3. CASE row = Ship(MoveTo(old, "EXPEDICAO", "EM_SEPARACAO"), "EM_SEPARACAO")
    <3> DEFINE m == MoveTo(old, "EXPEDICAO", "EM_SEPARACAO")
    <3>1. /\ m \in Proposal /\ m.area = "EXPEDICAO" /\ m.status = "EM_SEPARACAO" /\ m.parent = old.parent
          /\ m.active = old.active /\ m.cancelled = old.cancelled
      BY <1>1, <1>4, MoveToFields
    <3> HIDE DEF m
    <3>2. QED BY <1>3, <2>3, <3>1, ShipFields DEF m
  <2>4. QED BY <1>5, <2>1, <2>2, <2>3
<1>7. QED BY <1>6, StageRow DEF old

LEMMA LoadChangeIsStage ==
  ASSUME NEW d, NEW p
  PROVE  \/ RecalculateAfterLoadChange(d, p) = d.proposal[p]
         \/ ~Cancelled(d, p) /\ RecalculateAfterLoadChange(d, p) \in Stages(d.proposal[p])
<1> DEFINE links == {x \in Loads \X ItemsOf(d, p) : d.link[x[1]][x[2]].sent > 0}
           drafted == \E x \in links : d.load[x[1]].status = Draft
           away == \E x \in links : /\ d.load[x[1]].status \in Returnable
                                    /\ d.link[x[1]][x[2]].sent > d.link[x[1]][x[2]].returned
           some == \E x \in links : d.link[x[1]][x[2]].returned > 0
           eligible == \E i \in ItemsOf(d, p) : EligibleItem(d, i)
           home == GalvanizedItems(d, p) # {} /\ \A i \in GalvanizedItems(d, p) : d.item[i].galvanized
           canLeave == PendingItems(d, p) = {}
           row == d.proposal[p]
           back == MoveTo(row, "GALVANIZACAO", "RETORNOU_PARCIAL")
           r == CASE drafted -> MoveTo(row, "GALVANIZACAO", "EM_CARGA")
                  [] ~drafted /\ away /\ ~some -> MoveTo(row, "GALVANIZACAO", "ENVIADO_GALVANIZACAO")
                  [] ~drafted /\ away /\ some ->
                       Ship(back, IF back.shipping = "NENHUM" THEN "AGUARDANDO_SEPARACAO_PARCIAL" ELSE back.shipping)
                  [] ~drafted /\ ~away /\ eligible -> MoveTo(row, "GALVANIZACAO", "AGUARDANDO_ENVIO")
                  [] ~drafted /\ ~away /\ ~eligible /\ home ->
                       Ship(MoveTo(row, "EXPEDICAO", "EM_SEPARACAO"), "EM_SEPARACAO")
                  [] OTHER -> row
<1>1. RecalculateAfterLoadChange(d, p) = IF canLeave /\ ~Cancelled(d, p) THEN r ELSE d.proposal[p]
  BY DEF RecalculateAfterLoadChange, MoveTo, Ship
<1>2. r = row \/ r \in Stages(row)
  <2> HIDE DEF drafted, away, some, eligible, home, row
  <2>1. QED BY DEF Stages
<1> HIDE DEF r, canLeave
<1>3. QED BY <1>1, <1>2

LEMMA ReturnIsStage ==
  ASSUME NEW d, NEW p
  PROVE  RecalculateAfterReturn(d, p) \in Stages(d.proposal[p])
<1> DEFINE galvanized == GalvanizedItems(d, p)
           all == galvanized # {} /\ \A i \in galvanized : FullyReturned(d, i)
           part == /\ \E i \in galvanized : ReturnedQuantity(d, i) > 0
                   /\ \E i \in galvanized : ~FullyReturned(d, i)
           row == d.proposal[p]
           back == MoveTo(row, "GALVANIZACAO", "RETORNOU_PARCIAL")
           r == CASE all -> Ship(MoveTo(row, "EXPEDICAO", "EM_SEPARACAO"), "EM_SEPARACAO")
                  [] part -> Ship(back, IF back.shipping = "NENHUM" THEN "AGUARDANDO_SEPARACAO_PARCIAL" ELSE back.shipping)
                  [] OTHER -> MoveTo(row, "GALVANIZACAO", "ENVIADO_GALVANIZACAO")
<1>1. RecalculateAfterReturn(d, p) = r
  BY DEF RecalculateAfterReturn, MoveTo, Ship
<1>2. r \in Stages(row)
  <2> HIDE DEF all, part, row
  <2>1. QED BY DEF Stages
<1>3. QED BY <1>1, <1>2
\* The database with load l as composed.
Composed(d, l, load, links) == [d EXCEPT !.load[l] = load, !.link[l] = links]

LEMMA ComposedIsTyped ==
  ASSUME NEW d \in Database, NEW l \in Loads, NEW load \in Load, NEW links \in [Items -> LoadItem]
  PROVE  LET e == Composed(d, l, load, links) IN
         /\ e \in Database /\ e.created = d.created /\ e.proposal = d.proposal /\ e.item = d.item
         /\ e.exp = d.exp /\ e.load[l] = load /\ e.link[l] = links
         /\ \A m \in Loads : m # l => e.load[m] = d.load[m] /\ e.link[m] = d.link[m]
<1> DEFINE loads == [d.load EXCEPT ![l] = load]
           carried == [d.link EXCEPT ![l] = links]
           e == Composed(d, l, load, links)
<1>1. loads \in [Loads -> Load] /\ carried \in [Loads -> [Items -> LoadItem]]
  BY DEF Database
<1>2. /\ loads[l] = load /\ carried[l] = links
      /\ \A m \in Loads : m # l => loads[m] = d.load[m] /\ carried[m] = d.link[m]
  BY DEF Database
<1>3. e = [d EXCEPT !.load = loads, !.link = carried]
  BY DEF Composed
<1> HIDE DEF loads, carried, e
<1>4. /\ e \in Database /\ e.created = d.created /\ e.proposal = d.proposal /\ e.item = d.item
      /\ e.exp = d.exp /\ e.load = loads /\ e.link = carried
  BY <1>1, <1>3 DEF Database
<1>5. QED BY <1>2, <1>4 DEF e

\* What the other loads carry of an item.
LEMMA OtherLoads ==
  ASSUME NEW d \in Database, NEW e \in Database, NEW l \in Loads, NEW i \in Items,
         \A m \in Loads : m # l => e.link[m] = d.link[m]
  PROVE  LET others == SumFunction([m \in Loads \ {l} |-> d.link[m][i].sent]) IN
         /\ others \in Nat
         /\ SentQuantity(d, i) = d.link[l][i].sent + others
         /\ SentQuantity(e, i) = e.link[l][i].sent + others
<1> DEFINE f == [m \in Loads |-> d.link[m][i].sent]
           g == [m \in Loads |-> e.link[m][i].sent]
           h == [m \in Loads \ {l} |-> d.link[m][i].sent]
<1>1. /\ \A m \in Loads : f[m] \in Nat /\ g[m] \in Nat
      /\ \A m \in Loads \ {l} : h[m] = f[m] /\ h[m] = g[m] /\ h[m] \in Nat
      /\ f[l] = d.link[l][i].sent /\ g[l] = e.link[l][i].sent
  BY Typed
<1>2. /\ SentQuantity(d, i) = SumFunctionOnSet(f, Loads) /\ SentQuantity(e, i) = SumFunctionOnSet(g, Loads)
      /\ SumFunction(h) = SumFunctionOnSet(h, Loads \ {l})
  BY DEF SentQuantity, SumFunction
<1>3. IsFiniteSet(Loads) /\ IsFiniteSet(Loads \ {l})
  BY LoadsAssumption, FS_Subset
<1>4. SumFunction(h) = SumFunction([m \in Loads \ {l} |-> d.link[m][i].sent])
  OBVIOUS
<1> HIDE DEF f, g, h
<1>5. SumFunctionOnSet(f, Loads) = f[l] + SumFunctionOnSet(f, Loads \ {l})
  BY <1>1, <1>3, SumOfOneAndRest
<1>6. SumFunctionOnSet(g, Loads) = g[l] + SumFunctionOnSet(g, Loads \ {l})
  BY <1>1, <1>3, SumOfOneAndRest
<1>7. /\ SumFunctionOnSet(f, Loads \ {l}) = SumFunctionOnSet(h, Loads \ {l})
      /\ SumFunctionOnSet(g, Loads \ {l}) = SumFunctionOnSet(h, Loads \ {l})
  BY <1>1, <1>3, SumCongruence
<1>8. SumFunctionOnSet(h, Loads \ {l}) \in Nat
  BY <1>1, <1>3, SumOfNaturals
<1>9. QED BY <1>1, <1>2, <1>4, <1>5, <1>6, <1>7, <1>8
DraftLoad(load) == [load EXCEPT !.status = Draft]
DraftLinks(send) == [i \in Items |-> [sent |-> send[i], returned |-> 0]]

\* No more of an item is sent than is in no other load.
LEMMA ComposedLinksHold ==
  ASSUME NEW d \in Database, LinksHold(d), NEW e \in Database, NEW l \in Loads,
         e.item = d.item, \A m \in Loads : m # l => e.load[m] = d.load[m] /\ e.link[m] = d.link[m],
         e.load[l].status = Draft, ~e.load[l].closed,
         \A i \in Items : /\ e.link[l][i].returned = 0
                          /\ e.link[l][i].sent > 0 =>
                               EligibleItem(d, i) /\ e.link[l][i].sent <= AvailableForLoad(d, i, l)
  PROVE  LinksHold(e)
<1>1. ASSUME NEW i \in Items PROVE SentQuantity(e, i) <= Qty[i]
  <2> DEFINE others == SumFunction([m \in Loads \ {l} |-> d.link[m][i].sent])
             sent == e.link[l][i].sent
             before == d.link[l][i].sent
  <2>1. /\ others \in Nat /\ SentQuantity(d, i) = before + others
        /\ SentQuantity(e, i) = sent + others
    BY OtherLoads
  <2>2. sent \in Nat /\ before \in Nat /\ Qty[i] \in Nat
    BY Typed
  <2>3. SentQuantity(d, i) <= Qty[i]
    BY DEF LinksHold
  <2>4. sent > 0 => sent <= AtLeastZero(Qty[i] - others)
    BY DEF AvailableForLoad
  <2> HIDE DEF others, sent, before
  <2>5. others <= Qty[i]
    BY <2>1, <2>2, <2>3
  <2>6. QED BY <2>1, <2>2, <2>4, <2>5 DEF AtLeastZero
<1>2. ASSUME NEW m \in Loads, NEW i \in Items
      PROVE  LET x == e.link[m][i] IN
             /\ x.returned <= x.sent
             /\ e.load[m].status \notin {"RETORNO_PARCIAL", "RETORNADA_GALVANIZACAO"} => x.returned = 0
             /\ e.load[m].closed => x.returned = x.sent
             /\ e.load[m].closed => e.load[m].status = "RETORNADA_GALVANIZACAO"
             /\ x.sent > 0 => e.item[i].produced /\ e.item[i].galvanize = "SIM" /\ e.item[i].produce # "INDEFINIDO"
  <2>1. CASE m # l
    BY <2>1 DEF LinksHold
  <2>2. CASE m = l
    <3>1. e.link[l][i].sent \in Nat
      BY Typed
    <3>2. EligibleItem(d, i) => e.item[i].produced /\ e.item[i].galvanize = "SIM" /\ e.item[i].produce # "INDEFINIDO"
      BY DEF EligibleItem, FlowDefined
    <3>3. e.link[l][i].returned = 0 /\ 0 <= e.link[l][i].sent
      BY <3>1
    <3>4. QED BY <2>2, <3>2, <3>3
  <2>3. QED BY <2>1, <2>2
<1>3. QED BY <1>1, <1>2 DEF LinksHold

LEMMA DraftHasNothingBack ==
  ASSUME NEW d \in Database, LinksHold(d), NEW l \in Loads, d.load[l].status \in {"NENHUM", Draft}
  PROVE  ~d.load[l].closed /\ \A i \in Items : d.link[l][i].returned = 0
<1>1. d.load[l].status \notin {"RETORNO_PARCIAL", "RETORNADA_GALVANIZACAO"}
  BY DEF Draft
<1>2. \A i \in Items : /\ d.link[l][i].returned = 0
                       /\ d.load[l].closed => d.load[l].status = "RETORNADA_GALVANIZACAO"
  BY <1>1 DEF LinksHold
<1>3. QED BY <1>1, <1>2, ItemsAssumption

\* Composing a load, new or again.
LEMMA ReplacePreserves ==
  ASSUME FlowInv, NEW l \in Loads, db.load[l].status \in {"NENHUM", Draft},
         NEW send \in Compositions, ReplaceLoadItems(l, Draft, send), UNCHANGED reflowed
  PROVE  Preserves
<1> DEFINE load == DraftLoad(db.load[l])
           links == DraftLinks(send)
           d == Composed(db, l, load, links)
           affected == {db.item[i].owner : i \in {j \in Items : send[j] > 0} \cup LoadedItems(db, l)}
           rows == [p \in Proposals |-> IF p \in affected THEN RecalculateAfterLoadChange(d, p) ELSE d.proposal[p]]
<1>1. db \in Database /\ Legal(db, db, reflowed) /\ LinksHold(db)
  BY LegalStart DEF Legal, Pieces
<1>2. \A i \in Items : send[i] \in Nat
  <2> DEFINE most == Max({Qty[i] : i \in Items})
  <2>1. send \in [Items -> 0 .. most]
    BY DEF Compositions
  <2> HIDE DEF most
  <2>2. QED BY <2>1
<1>3. \A i \in Items : send[i] > 0 => EligibleItem(db, i) /\ send[i] <= AvailableForLoad(db, i, l)
  BY DEF ReplaceLoadItems
<1>4. d = [db EXCEPT !.load[l].status = Draft,
                     !.link[l] = [i \in Items |-> [sent |-> send[i], returned |-> 0]]]
  BY <1>1, Domains DEF Composed, DraftLoad, DraftLinks
<1>5. Commit(WithRows(d, rows))
  BY <1>4 DEF ReplaceLoadItems, WithRows
<1>6. /\ load \in Load /\ load.status = Draft /\ load.closed = db.load[l].closed
  <2>1. db.load[l] \in Load
    BY <1>1, Typed
  <2>2. QED BY <2>1 DEF DraftLoad, Load, LoadStatuses, Draft
<1>7. links \in [Items -> LoadItem] /\ \A i \in Items : links[i].sent = send[i] /\ links[i].returned = 0
  BY <1>2 DEF LoadItem, DraftLinks
<1> HIDE DEF load, links
<1>8. /\ d \in Database /\ d.created = db.created /\ d.proposal = db.proposal /\ d.item = db.item
      /\ d.exp = db.exp /\ d.load[l] = load /\ d.link[l] = links
      /\ \A m \in Loads : m # l => d.load[m] = db.load[m] /\ d.link[m] = db.link[m]
  BY <1>1, <1>6, <1>7, ComposedIsTyped
<1>9. rows \in [Proposals -> Proposal] /\ \A p \in Proposals : rows[p] = d.proposal[p] \/ RowChange(d, p, rows[p])
  <2> HIDE DEF d, affected
  <2>1. ASSUME NEW p \in Proposals
        PROVE  LET row == RecalculateAfterLoadChange(d, p) IN
               row \in Proposal /\ (row = d.proposal[p] \/ RowChange(d, p, row))
    BY <1>8, Typed, LoadChangeIsStage, StagesChange DEF Cancelled
  <2>2. \A p \in Proposals : d.proposal[p] \in Proposal
    BY <1>8, Typed
  <2>3. QED BY <2>1, <2>2
<1> HIDE DEF rows, d, affected
<1>10. ~db.load[l].closed /\ \A i \in Items : db.link[l][i].returned = 0
  BY <1>1, DraftHasNothingBack
<1>11. LoadsMoved(db, d)
  <2>1. LinksHold(d)
    <3>1. d.load[l].status = Draft /\ ~d.load[l].closed
      BY <1>6, <1>8, <1>10
    <3>2. \A i \in Items : /\ d.link[l][i].returned = 0
                           /\ d.link[l][i].sent > 0 =>
                                EligibleItem(db, i) /\ d.link[l][i].sent <= AvailableForLoad(db, i, l)
      BY <1>3, <1>7, <1>8
    <3>3. QED BY <1>1, <1>8, <3>1, <3>2, ComposedLinksHold
  <2>2. QED BY <1>7, <1>8, <1>10, <2>1 DEF LoadsMoved
<1>12. Legal(db, d, reflowed)
  BY <1>1, <1>8, <1>11, LegalThenLoads
<1>13. Legal(db, WithRows(d, rows), reflowed)
  BY <1>1, <1>9, <1>12, WithRowsShapes, LegalThenShaped DEF Legal
<1>14. QED BY <1>5, <1>13, CommitPreserves

LEMMA ComposePreserves ==
  ASSUME FlowInv, NEW l \in Loads, CreateGalvanizationLoad(l) \/ UpdateGalvanizationLoad(l)
  PROVE  Preserves
<1>1. /\ db.load[l].status \in {"NENHUM", Draft} /\ UNCHANGED reflowed
      /\ \E send \in Compositions : ReplaceLoadItems(l, Draft, send)
  BY DEF CreateGalvanizationLoad, UpdateGalvanizationLoad
<1>2. QED BY <1>1, ReplacePreserves
\* The database with another row of load l.
WithLoad(d, l, load) == [d EXCEPT !.load[l] = load]

LEMMA WithLoadIsTyped ==
  ASSUME NEW d \in Database, NEW l \in Loads, NEW load \in Load
  PROVE  LET e == WithLoad(d, l, load) IN
         /\ e \in Database /\ e.created = d.created /\ e.proposal = d.proposal /\ e.item = d.item
         /\ e.exp = d.exp /\ e.link = d.link /\ e.load[l] = load
         /\ \A m \in Loads : m # l => e.load[m] = d.load[m]
<1> DEFINE loads == [d.load EXCEPT ![l] = load]
           e == WithLoad(d, l, load)
<1>1. loads \in [Loads -> Load] /\ loads[l] = load /\ \A m \in Loads : m # l => loads[m] = d.load[m]
  BY DEF Database
<1>2. e = [d EXCEPT !.load = loads]
  BY DEF WithLoad
<1> HIDE DEF loads, e
<1>3. /\ e \in Database /\ e.created = d.created /\ e.proposal = d.proposal /\ e.item = d.item
      /\ e.exp = d.exp /\ e.load = loads /\ e.link = d.link
  BY <1>1, <1>2 DEF Database
<1>4. QED BY <1>1, <1>3 DEF e

LEMMA ReleaseLoadPreserves ==
  ASSUME FlowInv, NEW l \in Loads, ReleaseGalvanizationLoad(l)
  PROVE  Preserves
<1> DEFINE load == [db.load[l] EXCEPT !.status = "LIBERADA_PARA_ENVIO"]
           d == WithLoad(db, l, load)
           owners == {db.item[i].owner : i \in LoadedItems(db, l)}
           rows == [p \in Proposals |-> IF p \in owners
                      THEN MoveTo(d.proposal[p], "GALVANIZACAO", "ENVIADO_GALVANIZACAO") ELSE d.proposal[p]]
<1>1. db \in Database /\ Legal(db, db, reflowed) /\ LinksHold(db)
  BY LegalStart DEF Legal, Pieces
<1>2. /\ db.load[l].status = Draft /\ \A p \in owners : ~Cancelled(db, p)
      /\ UNCHANGED reflowed
  BY DEF ReleaseGalvanizationLoad
<1>3. load \in Load /\ load.status = "LIBERADA_PARA_ENVIO" /\ load.closed = db.load[l].closed
  <2>1. db.load[l] \in Load
    BY <1>1, Typed
  <2>2. QED BY <2>1 DEF Load, LoadStatuses
<1>4. d = [db EXCEPT !.load[l].status = "LIBERADA_PARA_ENVIO"]
  BY <1>1, Domains DEF WithLoad
<1>5. Commit([db EXCEPT
       !.load[l].status = "LIBERADA_PARA_ENVIO",
       !.proposal = [p \in Proposals |->
          IF p \in owners
          THEN MoveTo(db.proposal[p], "GALVANIZACAO", "ENVIADO_GALVANIZACAO")
          ELSE db.proposal[p]]])
  BY DEF ReleaseGalvanizationLoad, MoveTo
<1> HIDE DEF load, owners
<1>6. /\ d \in Database /\ d.created = db.created /\ d.proposal = db.proposal /\ d.item = db.item
      /\ d.exp = db.exp /\ d.link = db.link /\ d.load[l] = load
      /\ \A m \in Loads : m # l => d.load[m] = db.load[m]
  BY <1>1, <1>3, WithLoadIsTyped
<1> HIDE DEF d
<1>7. Commit(WithRows(d, rows))
  <2>1. rows = [p \in Proposals |->
          IF p \in owners
          THEN MoveTo(db.proposal[p], "GALVANIZACAO", "ENVIADO_GALVANIZACAO")
          ELSE db.proposal[p]]
    BY <1>6
  <2> HIDE DEF rows
  <2>2. QED BY <1>4, <1>5, <2>1 DEF WithRows
<1>8. rows \in [Proposals -> Proposal] /\ \A p \in Proposals : rows[p] = d.proposal[p] \/ RowChange(d, p, rows[p])
  <2>1. ASSUME NEW p \in Proposals, p \in owners
        PROVE  LET row == MoveTo(d.proposal[p], "GALVANIZACAO", "ENVIADO_GALVANIZACAO") IN
               row \in Proposal /\ RowChange(d, p, row)
    <3>1. MoveTo(d.proposal[p], "GALVANIZACAO", "ENVIADO_GALVANIZACAO") \in Stages(d.proposal[p])
      BY DEF Stages
    <3>2. ~d.proposal[p].cancelled
      BY <1>2, <1>6, <2>1 DEF Cancelled, owners
    <3>3. QED BY <1>6, <3>1, <3>2, StagesChange
  <2>2. \A p \in Proposals : d.proposal[p] \in Proposal
    BY <1>6, Typed
  <2>3. QED BY <2>1, <2>2
<1> HIDE DEF rows
<1>9. ~db.load[l].closed /\ \A i \in Items : db.link[l][i].returned = 0
  BY <1>1, <1>2, DraftHasNothingBack
<1>10. LoadsMoved(db, d)
  <2>1. \A i \in Items : SentQuantity(d, i) = SentQuantity(db, i)
    BY <1>6, SameSums
  <2>2. ASSUME NEW m \in Loads, NEW i \in Items
        PROVE  LET x == d.link[m][i] IN
               /\ x.returned <= x.sent
               /\ d.load[m].status \notin {"RETORNO_PARCIAL", "RETORNADA_GALVANIZACAO"} => x.returned = 0
               /\ d.load[m].closed => x.returned = x.sent
               /\ d.load[m].closed => d.load[m].status = "RETORNADA_GALVANIZACAO"
               /\ x.sent > 0 => d.item[i].produced /\ d.item[i].galvanize = "SIM" /\ d.item[i].produce # "INDEFINIDO"
    <3>1. CASE m # l
      BY <1>1, <1>6, <3>1 DEF LinksHold
    <3>2. CASE m = l
      BY <1>1, <1>3, <1>6, <1>9, <3>2 DEF LinksHold
    <3>3. QED BY <3>1, <3>2
  <2>3. QED BY <1>1, <1>6, <2>1, <2>2 DEF LoadsMoved, LinksHold
<1>11. Legal(db, d, reflowed)
  BY <1>1, <1>6, <1>10, LegalThenLoads
<1>12. Legal(db, WithRows(d, rows), reflowed)
  BY <1>1, <1>8, <1>11, WithRowsShapes, LegalThenShaped DEF Legal
<1>13. QED BY <1>2, <1>7, <1>12, CommitPreserves

LEMMA CloseLoadPreserves ==
  ASSUME FlowInv, NEW l \in Loads, CloseGalvanizationLoad(l)
  PROVE  Preserves
<1> DEFINE load == [db.load[l] EXCEPT !.closed = TRUE]
           d == WithLoad(db, l, load)
<1>1. db \in Database /\ Legal(db, db, reflowed) /\ LinksHold(db)
  BY LegalStart DEF Legal, Pieces
<1>2. /\ db.load[l].status = "RETORNADA_GALVANIZACAO" /\ UNCHANGED reflowed
      /\ \A i \in LoadedItems(db, l) : db.link[l][i].returned >= db.link[l][i].sent
  BY DEF CloseGalvanizationLoad
<1>3. load \in Load /\ load.status = "RETORNADA_GALVANIZACAO"
  <2>1. db.load[l] \in Load
    BY <1>1, Typed
  <2>2. QED BY <1>2, <2>1 DEF Load
<1>4. d = [db EXCEPT !.load[l].closed = TRUE]
  BY <1>1, Domains DEF WithLoad
<1>5. Commit(d)
  BY <1>4 DEF CloseGalvanizationLoad
<1> HIDE DEF load
<1>6. /\ d \in Database /\ d.created = db.created /\ d.proposal = db.proposal /\ d.item = db.item
      /\ d.exp = db.exp /\ d.link = db.link /\ d.load[l] = load
      /\ \A m \in Loads : m # l => d.load[m] = db.load[m]
  BY <1>1, <1>3, WithLoadIsTyped
<1> HIDE DEF d
<1>7. \A i \in Items : db.link[l][i].returned = db.link[l][i].sent
  <2> TAKE i \in Items
  <2> DEFINE sent == db.link[l][i].sent
             back == db.link[l][i].returned
  <2>1. sent \in Nat /\ back \in Nat /\ back <= sent
    BY <1>1, Typed DEF LinksHold
  <2>2. sent > 0 => back >= sent
    BY <1>2 DEF LoadedItems
  <2> HIDE DEF sent, back
  <2>3. back = sent
    BY <2>1, <2>2
  <2>4. QED BY <2>3 DEF back, sent
<1>8. LoadsMoved(db, d)
  <2>1. \A i \in Items : SentQuantity(d, i) = SentQuantity(db, i)
    BY <1>6, SameSums
  <2>2. ASSUME NEW m \in Loads, NEW i \in Items
        PROVE  LET x == d.link[m][i] IN
               /\ x.returned <= x.sent
               /\ d.load[m].status \notin {"RETORNO_PARCIAL", "RETORNADA_GALVANIZACAO"} => x.returned = 0
               /\ d.load[m].closed => x.returned = x.sent
               /\ d.load[m].closed => d.load[m].status = "RETORNADA_GALVANIZACAO"
               /\ x.sent > 0 => d.item[i].produced /\ d.item[i].galvanize = "SIM" /\ d.item[i].produce # "INDEFINIDO"
    <3>1. CASE m # l
      BY <1>1, <1>6, <3>1 DEF LinksHold
    <3>2. CASE m = l
      BY <1>1, <1>3, <1>6, <1>7, <3>2 DEF LinksHold
    <3>3. QED BY <3>1, <3>2
  <2>3. QED BY <1>1, <1>6, <2>1, <2>2 DEF LoadsMoved, LinksHold
<1>9. Legal(db, d, reflowed)
  BY <1>1, <1>6, <1>8, LegalThenLoads
<1>10. QED BY <1>2, <1>5, <1>9, CommitPreserves

-----------------------------------------------------------------------------
\* A return makes sums grow by what has come back, and no further than was sent.
LEMMA ReturnedGrows ==
  ASSUME NEW d \in Database, NEW e \in Database, NEW i \in Items,
         \A l \in Loads : d.link[l][i].returned <= e.link[l][i].returned
  PROVE  ReturnedQuantity(d, i) <= ReturnedQuantity(e, i)
<1> DEFINE f == [l \in Loads |-> d.link[l][i].returned]
           g == [l \in Loads |-> e.link[l][i].returned]
<1>1. \A l \in Loads : f[l] \in Int /\ g[l] \in Int /\ f[l] <= g[l]
  BY Typed
<1>2. ReturnedQuantity(d, i) = SumFunctionOnSet(f, Loads) /\ ReturnedQuantity(e, i) = SumFunctionOnSet(g, Loads)
  BY DEF ReturnedQuantity, SumFunction
<1> HIDE DEF f, g
<1>3. QED BY <1>1, <1>2, LoadsAssumption, SumIsMonotone

LEMMA ReturnedWithinSent ==
  ASSUME NEW d \in Database, NEW i \in Items, \A l \in Loads : d.link[l][i].returned <= d.link[l][i].sent
  PROVE  ReturnedQuantity(d, i) <= SentQuantity(d, i)
<1> DEFINE f == [l \in Loads |-> d.link[l][i].returned]
           g == [l \in Loads |-> d.link[l][i].sent]
<1>1. \A l \in Loads : f[l] \in Int /\ g[l] \in Int /\ f[l] <= g[l]
  BY Typed
<1>2. ReturnedQuantity(d, i) = SumFunctionOnSet(f, Loads) /\ SentQuantity(d, i) = SumFunctionOnSet(g, Loads)
  BY DEF ReturnedQuantity, SentQuantity, SumFunction
<1> HIDE DEF f, g
<1>3. QED BY <1>1, <1>2, LoadsAssumption, SumIsMonotone

\* Registering a return: the item, the line, the load's lines.
HomeItem(item) == [item EXCEPT !.galvanized = TRUE]
BackLink(x, n) == [x EXCEPT !.returned = x.returned + n]
WithLinks(d, l, links) == [d EXCEPT !.link[l] = links]

LEMMA HomeFields ==
  ASSUME NEW x \in Item
  PROVE  /\ HomeItem(x) \in Item /\ HomeItem(x).owner = x.owner
         /\ HomeItem(x).produce = x.produce /\ HomeItem(x).galvanize = x.galvanize
         /\ HomeItem(x).produced = x.produced /\ HomeItem(x).galvanized /\ HomeItem(x).delivered = x.delivered
  BY DEF HomeItem, Item

LEMMA BackFields ==
  ASSUME NEW x \in LoadItem, NEW n \in Nat
  PROVE  /\ BackLink(x, n) \in LoadItem /\ BackLink(x, n).sent = x.sent
         /\ BackLink(x, n).returned = x.returned + n
  BY DEF BackLink, LoadItem

LEMMA WithLinksIsTyped ==
  ASSUME NEW d \in Database, NEW l \in Loads, NEW links \in [Items -> LoadItem]
  PROVE  LET e == WithLinks(d, l, links) IN
         /\ e \in Database /\ e.created = d.created /\ e.proposal = d.proposal /\ e.item = d.item
         /\ e.exp = d.exp /\ e.load = d.load /\ e.link[l] = links
         /\ \A m \in Loads : m # l => e.link[m] = d.link[m]
<1> DEFINE carried == [d.link EXCEPT ![l] = links]
           e == WithLinks(d, l, links)
<1>1. /\ carried \in [Loads -> [Items -> LoadItem]] /\ carried[l] = links
      /\ \A m \in Loads : m # l => carried[m] = d.link[m]
  BY DEF Database
<1>2. e = [d EXCEPT !.link = carried]
  BY DEF WithLinks
<1> HIDE DEF carried, e
<1>3. /\ e \in Database /\ e.created = d.created /\ e.proposal = d.proposal /\ e.item = d.item
      /\ e.exp = d.exp /\ e.load = d.load /\ e.link = carried
  BY <1>1, <1>2 DEF Database
<1>4. QED BY <1>1, <1>3 DEF e

\* The quantities back of load l are registered and the items of the
\* proposals live that are home are marked.
BroughtBack(l, back, live, e) ==
  /\ e.proposal = db.proposal /\ e.created = db.created /\ e.exp = db.exp /\ e.load = db.load
  /\ \A m \in Loads : m # l => e.link[m] = db.link[m]
  /\ \A i \in Items : /\ e.link[l][i].sent = db.link[l][i].sent
                      /\ e.link[l][i].returned = db.link[l][i].returned + back[i]
  /\ \A i \in Items :
       e.item[i] = IF db.item[i].owner \in live /\ db.item[i].galvanize = "SIM" /\ ReturnedQuantity(e, i) >= Qty[i]
                   THEN HomeItem(db.item[i]) ELSE db.item[i]

\* Marking the items that are home, one after the other.
ReturnedInto(l, back) ==
  [db EXCEPT !.link[l] = [i \in Items |-> [db.link[l][i] EXCEPT !.returned = @ + back[i]]]]

LEMMA MarkRelates ==
  ASSUME db \in Database, NEW l \in Loads, NEW back \in [Items -> Nat], NEW live
  PROVE  LET e == MarkGalvanized(ReturnedInto(l, back), live) IN
         e \in Database /\ BroughtBack(l, back, live, e)
<1> DEFINE links == [i \in Items |-> BackLink(db.link[l][i], back[i])]
           d == WithLinks(db, l, links)
           items == [i \in Items |-> IF d.item[i].owner \in live /\ d.item[i].galvanize = "SIM" /\ FullyReturned(d, i)
                                     THEN HomeItem(d.item[i]) ELSE d.item[i]]
           e == WithItems(d, items)
<1>1. links \in [Items -> LoadItem]
      /\ \A i \in Items : /\ links[i].sent = db.link[l][i].sent
                          /\ links[i].returned = db.link[l][i].returned + back[i]
  BY Typed, BackFields
<1>2. ReturnedInto(l, back) = d
  BY DEF ReturnedInto, WithLinks, BackLink
<1> HIDE DEF links
<1>3. /\ d \in Database /\ d.created = db.created /\ d.proposal = db.proposal /\ d.item = db.item
      /\ d.exp = db.exp /\ d.load = db.load /\ d.link[l] = links
      /\ \A m \in Loads : m # l => d.link[m] = db.link[m]
  BY <1>1, WithLinksIsTyped
<1> HIDE DEF d
<1>4. MarkGalvanized(d, live) = e
  BY DEF MarkGalvanized, HomeItem, WithItems
<1>5. items \in [Items -> Item]
  BY <1>3, Typed, HomeFields
<1>6. \A i \in Items :
        items[i] = IF db.item[i].owner \in live /\ db.item[i].galvanize = "SIM" /\ ReturnedQuantity(d, i) >= Qty[i]
                   THEN HomeItem(db.item[i]) ELSE db.item[i]
  BY <1>3 DEF FullyReturned
<1> HIDE DEF items
<1>7. /\ e \in Database /\ e.created = d.created /\ e.proposal = d.proposal /\ e.item = items
      /\ e.exp = d.exp /\ e.load = d.load /\ e.link = d.link
  BY <1>3, <1>5, ItemsIsTyped
<1> HIDE DEF e
<1>8. \A i \in Items : ReturnedQuantity(e, i) = ReturnedQuantity(d, i)
  BY <1>7, SameSums
<1>9. BroughtBack(l, back, live, e)
  BY <1>1, <1>3, <1>6, <1>7, <1>8 DEF BroughtBack
<1>10. QED BY <1>2, <1>4, <1>7, <1>9

\* What registering a return keeps, before the load's own status follows.
LEMMA BroughtBackKeeps ==
  ASSUME FlowInv, NEW l \in Loads, NEW back \in [Items -> Nat],
         \A i \in Items : back[i] > 0 => back[i] <= db.link[l][i].sent - db.link[l][i].returned,
         NEW live, \A p \in live : ~db.proposal[p].cancelled,
         \A i \in Items : back[i] > 0 /\ ~db.proposal[db.item[i].owner].cancelled => db.item[i].owner \in live,
         NEW e \in Database, BroughtBack(l, back, live, e)
  PROVE  /\ Family(e) /\ Kept(db, e) /\ Settled(db, e)
         /\ \A m \in Loads, i \in Items : e.link[m][i].returned <= e.link[m][i].sent
         /\ \A i \in Items : ReturnedQuantity(db, i) <= ReturnedQuantity(e, i)
         /\ \A i \in Items : SentQuantity(e, i) = SentQuantity(db, i)
         /\ FlagsHold(e)
<1>1. db \in Database /\ Pieces(db, reflowed) /\ Family(db) /\ LinksHold(db)
  BY LegalStart DEF Legal, Pieces
<1>2. ASSUME NEW m \in Loads, NEW i \in Items
      PROVE  /\ e.link[m][i].sent = db.link[m][i].sent
             /\ db.link[m][i].returned <= e.link[m][i].returned
             /\ e.link[m][i].returned <= e.link[m][i].sent
             /\ back[i] = 0 => db.link[m][i].returned = e.link[m][i].returned
  <2>1. /\ db.link[m][i].returned <= db.link[m][i].sent
        /\ db.link[m][i].returned \in Nat /\ db.link[m][i].sent \in Nat /\ back[i] \in Nat
    BY <1>1, Typed DEF LinksHold
  <2>2. CASE m # l
    BY <2>1, <2>2 DEF BroughtBack
  <2>3. CASE m = l
    <3>1. e.link[m][i].sent = db.link[m][i].sent /\ e.link[m][i].returned = db.link[m][i].returned + back[i]
      BY <2>3 DEF BroughtBack
    <3>2. back[i] > 0 => back[i] <= db.link[m][i].sent - db.link[m][i].returned
      BY <2>3
    <3> DEFINE s == db.link[m][i].sent
               b == db.link[m][i].returned
               n == back[i]
    <3>3. s \in Nat /\ b \in Nat /\ n \in Nat /\ b <= s /\ (n > 0 => n <= s - b)
      BY <2>1, <3>2
    <3> HIDE DEF s, b, n
    <3>4. b <= b + n /\ b + n <= s /\ (n = 0 => b = b + n)
      BY <3>3
    <3>5. QED BY <3>1, <3>4 DEF s, b, n
  <2>4. QED BY <2>2, <2>3
<1>3. \A i \in Items : ReturnedQuantity(db, i) <= ReturnedQuantity(e, i)
  BY <1>1, <1>2, ReturnedGrows
<1>4. \A i \in Items : SentQuantity(e, i) = SentQuantity(db, i)
  BY <1>2, SentFollowsLinks
<1>5. \A i \in Items : /\ ReturnedQuantity(e, i) <= Qty[i] /\ ReturnedQuantity(e, i) \in Nat
                       /\ ReturnedQuantity(db, i) \in Nat /\ Qty[i] \in Nat
  <2> TAKE i \in Items
  <2> DEFINE b == ReturnedQuantity(e, i)
             s == SentQuantity(e, i)
  <2>1. b \in Nat /\ s \in Nat /\ b <= s /\ Qty[i] \in Nat
    BY <1>2, LoadSums, ReturnedWithinSent, Typed
  <2>2. s <= Qty[i]
    BY <1>1, <1>4 DEF LinksHold
  <2> HIDE DEF b, s
  <2>3. b <= Qty[i]
    BY <2>1, <2>2
  <2>4. QED BY <1>1, <2>1, <2>3, LoadSums DEF b
<1>6. \A i \in Items : back[i] = 0 => ReturnedQuantity(e, i) = ReturnedQuantity(db, i)
  BY <1>2, ReturnedFollowsLinks
<1>7. ASSUME NEW i \in Items
      PROVE  /\ e.item[i].owner = db.item[i].owner
             /\ e.item[i].produce = db.item[i].produce /\ e.item[i].galvanize = db.item[i].galvanize
             /\ e.item[i].produced = db.item[i].produced /\ e.item[i].delivered = db.item[i].delivered
             /\ e.item[i].galvanized <=>
                  \/ db.item[i].galvanized
                  \/ db.item[i].owner \in live /\ db.item[i].galvanize = "SIM" /\ ReturnedQuantity(e, i) >= Qty[i]
             /\ db.item[i].owner \notin live => e.item[i] = db.item[i]
  <2>1. db.item[i] \in Item
    BY <1>1, Typed
  <2>2. e.item[i] = IF db.item[i].owner \in live /\ db.item[i].galvanize = "SIM" /\ ReturnedQuantity(e, i) >= Qty[i]
                    THEN HomeItem(db.item[i]) ELSE db.item[i]
    BY DEF BroughtBack
  <2>3. QED BY <2>1, <2>2, HomeFields
<1>8. FlagsHold(e)
  <2>1. ASSUME NEW i \in Items, e.item[i].galvanized
        PROVE  ReturnedQuantity(e, i) = Qty[i] /\ e.item[i].galvanize = "SIM"
    <3>1. CASE db.item[i].galvanized
      <4>1. ReturnedQuantity(db, i) = Qty[i] /\ db.item[i].galvanize = "SIM"
        BY <1>1, <3>1 DEF Pieces, FlagsHold
      <4>2. ReturnedQuantity(db, i) <= ReturnedQuantity(e, i)
        BY <1>3
      <4> DEFINE b == ReturnedQuantity(e, i)
      <4>3. b <= Qty[i] /\ b \in Nat /\ Qty[i] \in Nat /\ Qty[i] <= b
        BY <1>5, <4>1, <4>2
      <4> HIDE DEF b
      <4>4. b = Qty[i]
        BY <4>3
      <4>5. QED BY <1>7, <4>1, <4>4 DEF b
    <3>2. CASE ~db.item[i].galvanized
      <4> DEFINE b == ReturnedQuantity(e, i)
      <4>1. db.item[i].galvanize = "SIM" /\ b >= Qty[i] /\ b <= Qty[i] /\ b \in Nat /\ Qty[i] \in Nat
        BY <1>5, <1>7, <2>1, <3>2
      <4> HIDE DEF b
      <4>2. b = Qty[i]
        BY <4>1
      <4>3. QED BY <1>7, <4>1, <4>2 DEF b
    <3>3. QED BY <3>1, <3>2
  <2>2. \A i \in Items : e.item[i].produce = "NAO" => e.item[i].produced
    BY <1>1, <1>7 DEF Pieces, FlagsHold
  <2>3. QED BY <2>1, <2>2 DEF FlagsHold
<1>9. Marked(e)
  <2> SUFFICES ASSUME NEW i \in Items, ReturnedQuantity(e, i) = Qty[i], ~e.proposal[e.item[i].owner].cancelled
               PROVE  e.item[i].galvanized
    BY DEF Marked
  <2>1. ~db.proposal[db.item[i].owner].cancelled
    BY <1>7 DEF BroughtBack
  <2>2. CASE back[i] > 0
    <3>1. db.item[i].owner \in live
      BY <2>1, <2>2
    <3>2. db.link[l][i].sent > 0
      <4> DEFINE s == db.link[l][i].sent
                 b == db.link[l][i].returned
      <4>1. s \in Nat /\ b \in Nat /\ back[i] \in Nat /\ back[i] <= s - b
        BY <1>1, <2>2, Typed
      <4> HIDE DEF s, b
      <4>2. s > 0
        BY <2>2, <4>1
      <4>3. QED BY <4>2 DEF s
    <3>3. db.item[i].galvanize = "SIM"
      BY <1>1, <3>2 DEF LinksHold
    <3>4. ReturnedQuantity(e, i) >= Qty[i]
      BY <1>5
    <3>5. QED BY <1>7, <3>1, <3>3, <3>4
  <2>3. CASE ~(back[i] > 0)
    <3>1. back[i] = 0
      BY <2>3
    <3>2. ReturnedQuantity(db, i) = Qty[i]
      BY <1>6, <3>1
    <3>3. db.item[i].galvanized
      BY <1>1, <2>1, <3>2 DEF Family, Marked
    <3>4. QED BY <1>7, <3>3
  <2>4. QED BY <2>2, <2>3
<1>10. Family(e)
  BY <1>1, <1>7, <1>9, FamilyFollows DEF BroughtBack
<1>11. Kept(db, e)
  <2>1. \A i \in Items : db.exp[i].del <= e.exp[i].del /\ db.exp[i].rem <= e.exp[i].rem
    BY <1>1, ExpTyped DEF BroughtBack
  <2>2. QED BY <1>2, <1>7, <2>1 DEF Kept
<1>12. Settled(db, e)
  <2>1. \A q \in Proposals : OpenChildren(e, q) = OpenChildren(db, q)
    BY DEF BroughtBack, OpenChildren, Children
  <2>2. QED BY <1>7, <2>1 DEF Settled, Still, BroughtBack
<1>13. QED BY <1>2, <1>3, <1>4, <1>8, <1>10, <1>11, <1>12

\* With the load's status the pieces are whole again.
LEMMA BroughtBackPieces ==
  ASSUME FlowInv, NEW l \in Loads, db.load[l].status \in Returnable, NEW back \in [Items -> Nat],
         \A i \in Items : back[i] > 0 => back[i] <= db.link[l][i].sent - db.link[l][i].returned,
         NEW live, NEW e \in Database, BroughtBack(l, back, live, e),
         \A m \in Loads, i \in Items : e.link[m][i].returned <= e.link[m][i].sent,
         \A i \in Items : ReturnedQuantity(db, i) <= ReturnedQuantity(e, i),
         \A i \in Items : SentQuantity(e, i) = SentQuantity(db, i), FlagsHold(e),
         NEW x \in Database, x.item = e.item, x.exp = e.exp, x.link = e.link,
         \A m \in Loads : m # l => x.load[m] = e.load[m],
         x.load[l].status \in {"RETORNO_PARCIAL", "RETORNADA_GALVANIZACAO"}, x.load[l].closed = e.load[l].closed
  PROVE  Pieces(x, reflowed)
<1>1. db \in Database /\ Pieces(db, reflowed) /\ LinksHold(db)
  BY LegalStart DEF Legal, Pieces
<1>2. \A i \in Items : ReturnedQuantity(x, i) = ReturnedQuantity(e, i) /\ SentQuantity(x, i) = SentQuantity(e, i)
  BY SameSums
<1>3. ASSUME NEW i \in Items
      PROVE  /\ e.item[i].produce = db.item[i].produce /\ e.item[i].galvanize = db.item[i].galvanize
             /\ e.item[i].produced = db.item[i].produced
  <2>1. db.item[i] \in Item
    BY <1>1, Typed
  <2>2. e.item[i] \in {db.item[i], HomeItem(db.item[i])}
    BY DEF BroughtBack
  <2>3. QED BY <2>1, <2>2, HomeFields
<1>4. \A i \in Items : ~db.load[l].closed
  BY <1>1 DEF LinksHold, Returnable
<1>5. ASSUME NEW m \in Loads, NEW i \in Items
      PROVE  /\ x.link[m][i].returned <= x.link[m][i].sent
             /\ x.load[m].status \notin {"RETORNO_PARCIAL", "RETORNADA_GALVANIZACAO"} => x.link[m][i].returned = 0
             /\ x.load[m].closed => x.link[m][i].returned = x.link[m][i].sent
             /\ x.load[m].closed => x.load[m].status = "RETORNADA_GALVANIZACAO"
             /\ x.link[m][i].sent > 0 =>
                  x.item[i].produced /\ x.item[i].galvanize = "SIM" /\ x.item[i].produce # "INDEFINIDO"
  <2>1. x.link[m][i].returned <= x.link[m][i].sent
    OBVIOUS
  <2>2. x.link[m][i].sent = db.link[m][i].sent
    BY DEF BroughtBack
  <2>3. x.link[m][i].sent > 0 =>
          x.item[i].produced /\ x.item[i].galvanize = "SIM" /\ x.item[i].produce # "INDEFINIDO"
    BY <1>1, <1>3, <2>2 DEF LinksHold
  <2>4. CASE m # l
    <3>1. x.load[m] = db.load[m] /\ x.link[m] = db.link[m]
      BY <2>4 DEF BroughtBack
    <3>2. QED BY <1>1, <2>1, <2>3, <3>1 DEF LinksHold
  <2>5. CASE m = l
    <3>1. ~x.load[m].closed
      BY <1>4, <2>5 DEF BroughtBack
    <3>2. QED BY <2>1, <2>3, <2>5, <3>1
  <2>6. QED BY <2>4, <2>5
<1>6. LinksHold(x)
  <2>1. \A i \in Items : SentQuantity(x, i) <= Qty[i]
    BY <1>1, <1>2 DEF LinksHold
  <2>2. QED BY <1>5, <2>1 DEF LinksHold
<1>7. FlagsHold(x)
  BY <1>2 DEF FlagsHold
<1>8. RowsNest(x, reflowed)
  <2> SUFFICES ASSUME NEW i \in Items
               PROVE  /\ x.exp[i].del <= x.exp[i].sep
                      /\ i \notin reflowed => /\ x.exp[i].sep + x.exp[i].rem <= x.exp[i].avail
                                              /\ x.exp[i].avail <= SupplyIn(x, i)
                      /\ i \notin reflowed /\ x.exp[i] # NoRow => FlowDefined(x, i) /\ x.item[i].produced
    BY DEF RowsNest
  <2>1. x.exp[i] = db.exp[i] /\ x.item[i].produced = db.item[i].produced /\ (FlowDefined(x, i) <=> FlowDefined(db, i))
    BY <1>3 DEF BroughtBack, FlowDefined
  <2>2. /\ db.exp[i].del <= db.exp[i].sep
        /\ i \notin reflowed => db.exp[i].sep + db.exp[i].rem <= db.exp[i].avail /\ db.exp[i].avail <= SupplyIn(db, i)
        /\ i \notin reflowed /\ db.exp[i] # NoRow => FlowDefined(db, i) /\ db.item[i].produced
    BY <1>1 DEF Pieces, RowsNest
  <2> DEFINE before == SupplyIn(db, i)
             after == SupplyIn(x, i)
  <2>3. before \in Nat /\ after \in Nat /\ before <= after
    BY <1>1, <1>2, <1>3, Typed, LoadSums DEF SupplyIn
  <2>4. db.exp[i].avail \in Nat
    BY <1>1, ExpTyped
  <2>5. i \notin reflowed => db.exp[i].avail <= before
    BY <2>2
  <2> HIDE DEF before, after
  <2>6. i \notin reflowed => db.exp[i].avail <= after
    BY <2>3, <2>4, <2>5
  <2>7. QED BY <2>1, <2>2, <2>6 DEF after
<1>9. QED BY <1>6, <1>7, <1>8 DEF Pieces

\* The status of a load follows from what is back.
LEMMA ReturnedStatus ==
  ASSUME NEW d \in Database, NEW l \in Loads, NEW i \in Items, d.link[l][i].returned > 0,
         d.link[l][i].returned <= d.link[l][i].sent
  PROVE  LoadAfterReturn(d, l) \in {"RETORNO_PARCIAL", "RETORNADA_GALVANIZACAO"}
<1>1. d.link[l][i].returned \in Nat /\ d.link[l][i].sent \in Nat
  BY Typed
<1>2. i \in LoadedItems(d, l)
  <2> DEFINE b == d.link[l][i].returned
             s == d.link[l][i].sent
  <2>1. b \in Nat /\ s \in Nat /\ b > 0 /\ b <= s
    BY <1>1
  <2> HIDE DEF b, s
  <2>2. s > 0
    BY <2>1
  <2>3. QED BY <2>2 DEF LoadedItems, s
<1>3. QED BY <1>2 DEF LoadAfterReturn

LEMMA RegisterReturnPreserves ==
  ASSUME FlowInv, NEW l \in Loads, RegisterGalvanizationReturn(l)
  PROVE  Preserves
<1>1. db \in Database /\ Legal(db, db, reflowed) /\ Family(db) /\ LinksHold(db)
  BY LegalStart DEF Legal, Pieces
<1>2. db.load[l].status \in Returnable /\ UNCHANGED reflowed
  BY DEF RegisterGalvanizationReturn
<1>3. PICK back \in Compositions :
       LET chosen == {i \in Items : back[i] > 0}
           affected == {db.item[i].owner : i \in chosen}
           live == {p \in affected : ~Cancelled(db, p)}
           parents == {db.proposal[p].parent : p \in affected} \ {NoParent}
           marked == MarkGalvanized(ReturnedInto(l, back), live)
           projected == [marked EXCEPT !.proposal =
             [p \in Proposals |-> IF p \in live THEN RecalculateAfterReturn(marked, p) ELSE marked.proposal[p]]]
           merged == FoldSet(LAMBDA p, d : MergeEqualStatusChildren(d, p), projected, parents)
           reborn == FoldSet(LAMBDA p, d : RebornParent(d, p), merged, affected)
       IN  /\ chosen # {}
           /\ \A i \in chosen : back[i] <= db.link[l][i].sent - db.link[l][i].returned
           /\ Commit([reborn EXCEPT !.load[l].status = LoadAfterReturn(reborn, l)])
  BY DEF RegisterGalvanizationReturn, ReturnedInto
<1> DEFINE chosen == {i \in Items : back[i] > 0}
           affected == {db.item[i].owner : i \in chosen}
           live == {p \in affected : ~Cancelled(db, p)}
           parents == {db.proposal[p].parent : p \in affected} \ {NoParent}
           marked == MarkGalvanized(ReturnedInto(l, back), live)
           rows == [p \in Proposals |-> IF p \in live THEN RecalculateAfterReturn(marked, p) ELSE marked.proposal[p]]
           projected == WithRows(marked, rows)
           merged == FoldSet(LAMBDA p, d : MergeEqualStatusChildren(d, p), projected, parents)
           reborn == FoldSet(LAMBDA p, d : RebornParent(d, p), merged, affected)
           final == [reborn EXCEPT !.load[l].status = LoadAfterReturn(reborn, l)]
<1>4. /\ chosen # {} /\ \A i \in chosen : back[i] <= db.link[l][i].sent - db.link[l][i].returned
      /\ Commit(final)
  BY <1>3 DEF WithRows
<1>5. back \in [Items -> Nat]
  <2> DEFINE most == Max({Qty[i] : i \in Items})
  <2>1. back \in [Items -> 0 .. most]
    BY DEF Compositions
  <2> HIDE DEF most
  <2>2. QED BY <2>1
<1>6. affected \subseteq Proposals /\ parents \subseteq Proposals
  <2>1. affected \subseteq Proposals
    BY <1>1, Typed DEF Item
  <2>2. \A p \in affected : db.proposal[p].parent \in {NoParent} \cup Proposals
    BY <1>1, <2>1, Typed DEF Proposal
  <2> HIDE DEF affected
  <2>3. QED BY <2>1, <2>2
<1>7. \A p \in Proposals : Cancelled(db, p) <=> db.proposal[p].cancelled
  BY <1>1 DEF Family, Lineage, Cancelled
<1>8. /\ \A p \in live : p \in Proposals /\ ~db.proposal[p].cancelled
      /\ \A i \in Items : back[i] > 0 /\ ~db.proposal[db.item[i].owner].cancelled => db.item[i].owner \in live
  BY <1>6, <1>7
<1>9. PICK i \in Items : back[i] > 0
  BY <1>4
<1>10. \A j \in Items : back[j] > 0 => back[j] <= db.link[l][j].sent - db.link[l][j].returned
  BY <1>4
<1> HIDE DEF affected, live, parents, chosen
<1>11. marked \in Database /\ BroughtBack(l, back, live, marked)
  BY <1>1, <1>5, MarkRelates
<1> HIDE DEF marked
<1>12. /\ Family(marked) /\ Kept(db, marked) /\ Settled(db, marked) /\ FlagsHold(marked)
       /\ \A m \in Loads, j \in Items : marked.link[m][j].returned <= marked.link[m][j].sent
       /\ \A j \in Items : ReturnedQuantity(db, j) <= ReturnedQuantity(marked, j)
       /\ \A j \in Items : SentQuantity(marked, j) = SentQuantity(db, j)
  BY <1>5, <1>8, <1>10, <1>11, BroughtBackKeeps
<1>13. rows \in [Proposals -> Proposal] /\ \A p \in Proposals : rows[p] = marked.proposal[p] \/ RowChange(marked, p, rows[p])
  <2>1. ASSUME NEW p \in Proposals, p \in live
        PROVE  LET row == RecalculateAfterReturn(marked, p) IN row \in Proposal /\ RowChange(marked, p, row)
    <3>1. ~marked.proposal[p].cancelled
      BY <1>8, <1>11, <2>1 DEF BroughtBack
    <3>2. QED BY <1>11, <3>1, ReturnIsStage, StagesChange
  <2>2. \A p \in Proposals : marked.proposal[p] \in Proposal
    BY <1>11, Typed
  <2>3. QED BY <2>1, <2>2
<1> HIDE DEF rows
<1>14. Shaped(marked, projected)
  BY <1>11, <1>12, <1>13, WithRowsShapes
<1> HIDE DEF projected
<1>15. Shaped(projected, merged)
  BY <1>6, <1>14, MergeAllShapes DEF Shaped
<1> HIDE DEF merged
<1>16. Shaped(merged, reborn)
  BY <1>6, <1>15, RebornAllShapes DEF Shaped
<1> HIDE DEF reborn
<1>17. Shaped(marked, reborn)
  BY <1>14, <1>15, <1>16, ShapedTransitive
<1>18. reborn \in Database /\ Family(reborn) /\ SamePieces(marked, reborn) /\ Settled(marked, reborn) /\ Kept(marked, reborn)
  BY <1>11, <1>17, ShapedKeeps DEF Shaped
<1> DEFINE status == LoadAfterReturn(reborn, l)
           load == [reborn.load[l] EXCEPT !.status = status]
           x == WithLoad(marked, l, load)
<1>19. status \in {"RETORNO_PARCIAL", "RETORNADA_GALVANIZACAO"}
  <2>1. reborn.link = marked.link
    BY <1>18 DEF SamePieces
  <2>2. reborn.link[l][i].returned > 0
    <3>1. marked.link[l][i].returned = db.link[l][i].returned + back[i]
      BY <1>11 DEF BroughtBack
    <3>2. db.link[l][i].returned \in Nat /\ back[i] \in Nat /\ back[i] > 0
      BY <1>1, <1>5, <1>9, Typed
    <3> DEFINE b == db.link[l][i].returned
               n == back[i]
    <3>3. b \in Nat /\ n \in Nat /\ n > 0
      BY <3>2
    <3> HIDE DEF b, n
    <3>4. b + n > 0
      BY <3>3
    <3>5. QED BY <2>1, <3>1, <3>4 DEF b, n
  <2>3. reborn.link[l][i].returned <= reborn.link[l][i].sent
    BY <1>12, <2>1
  <2>4. QED BY <1>18, <2>2, <2>3, ReturnedStatus
<1> HIDE DEF status
<1>20. load \in Load /\ load.status = status /\ load.closed = marked.load[l].closed
  <2>1. reborn.load[l] \in Load /\ reborn.load[l] = marked.load[l]
    BY <1>18, Typed DEF SamePieces
  <2>2. QED BY <1>19, <2>1 DEF Load, LoadStatuses
<1>21. final = WithLoad(reborn, l, load)
  BY <1>18, Domains DEF WithLoad, status
<1> HIDE DEF load, final
<1>22. /\ x \in Database /\ x.item = marked.item /\ x.exp = marked.exp /\ x.link = marked.link
       /\ x.load[l] = load /\ \A m \in Loads : m # l => x.load[m] = marked.load[m]
  BY <1>11, <1>20, WithLoadIsTyped
<1>23. /\ final \in Database /\ final.created = reborn.created /\ final.proposal = reborn.proposal
       /\ final.item = reborn.item /\ final.exp = reborn.exp /\ final.link = reborn.link
       /\ final.load[l] = load /\ \A m \in Loads : m # l => final.load[m] = reborn.load[m]
  BY <1>18, <1>20, <1>21, WithLoadIsTyped
<1> HIDE DEF x
<1>24. Pieces(x, reflowed)
  BY <1>2, <1>5, <1>10, <1>11, <1>12, <1>19, <1>20, <1>22, BroughtBackPieces
<1>25. SamePieces(x, final)
  <2>1. final.load = x.load
    <3>1. \A m \in Loads : final.load[m] = x.load[m]
      BY <1>18, <1>22, <1>23 DEF SamePieces
    <3>2. QED BY <1>22, <1>23, <3>1 DEF Database
  <2>2. QED BY <1>18, <1>22, <1>23, <2>1 DEF SamePieces
<1>26. Pieces(final, reflowed)
  BY <1>24, <1>25, PiecesFollow
<1>27. Family(final)
  <2>1. Marked(final)
    BY <1>18, <1>23, SameSums DEF Family, Marked
  <2>2. QED BY <1>18, <1>23, <2>1, FamilyFollows
<1>28. Kept(db, final)
  <2>1. Kept(db, reborn)
    BY <1>1, <1>11, <1>12, <1>18, KeptTransitive DEF SamePieces
  <2>2. QED BY <1>23, <2>1 DEF Kept
<1>29. Settled(db, final)
  <2>1. Settled(db, reborn)
    BY <1>12, <1>18, SettledTransitive
  <2>2. \A p \in Proposals : OpenChildren(final, p) = OpenChildren(reborn, p)
    BY <1>23 DEF OpenChildren, Children
  <2>3. QED BY <1>23, <2>1, <2>2 DEF Settled, Still
<1>30. Legal(db, final, reflowed)
  BY <1>23, <1>26, <1>27, <1>28, <1>29 DEF Legal
<1>31. QED BY <1>2, <1>4, <1>30, CommitPreserves

-----------------------------------------------------------------------------
\* The rows of a family just created, before the hook has seen them.
Created(flow) ==
  [proposal |-> [p \in Proposals |-> IF p = Mother THEN NewMother ELSE NotCreated],
   created |-> Mother,
   item |-> [i \in Items |-> NewItem(flow[i])],
   exp |-> [i \in Items |-> NoRow],
   load |-> [l \in Loads |-> NoLoad],
   link |-> [l \in Loads |-> [i \in Items |-> NoLink]]]

LEMMA NewRowsAreTyped ==
  /\ NewMother \in Proposal /\ NotCreated \in Proposal /\ NotCreated.active = FALSE
  /\ NotCreated.parent = NoParent /\ NotCreated.cancelled = FALSE
  /\ NotCreated.area = "CONTROLE_GERAL" /\ NotCreated.status = "AGUARDANDO_LIBERACAO"
  /\ NewMother.parent = NoParent /\ NewMother.cancelled = FALSE /\ NewMother.active = TRUE
  /\ NewMother.area = "CONTROLE_GERAL" /\ NewMother.status = "AGUARDANDO_LIBERACAO"
  BY DEF NewMother, NotCreated, Proposal, NoParent, Areas, Statuses, ProductionStatuses, ShippingStatuses

LEMMA CreatedIsTyped ==
  ASSUME NEW flow \in [Items -> Flags \X Flags]
  PROVE  LET d == Created(flow) IN
         /\ d \in Database /\ d.created = Mother
         /\ \A p \in Proposals : d.proposal[p] = IF p = Mother THEN NewMother ELSE NotCreated
         /\ \A i \in Items :
              /\ d.item[i].owner = Mother /\ ~d.item[i].galvanized /\ ~d.item[i].delivered
              /\ d.item[i].produce = "NAO" => d.item[i].produced
              /\ d.exp[i] = NoRow
         /\ \A l \in Loads : d.load[l] = NoLoad
         /\ \A l \in Loads, i \in Items : d.link[l][i] = NoLink
<1> DEFINE rows == [p \in Proposals |-> IF p = Mother THEN NewMother ELSE NotCreated]
           items == [i \in Items |-> NewItem(flow[i])]
           exps == [i \in Items |-> NoRow]
           loads == [l \in Loads |-> NoLoad]
           links == [l \in Loads |-> [i \in Items |-> NoLink]]
<1>1. Mother \in Proposals
  BY MaxProposalsAssumption DEF Mother, Proposals
<1>2. rows \in [Proposals -> Proposal]
  BY NewRowsAreTyped
<1>3. \A i \in Items : /\ items[i] \in Item /\ items[i].owner = Mother
                       /\ ~items[i].galvanized /\ ~items[i].delivered
                       /\ items[i].produce = "NAO" => items[i].produced
  <2> TAKE i \in Items
  <2>1. flow[i][1] \in Flags /\ flow[i][2] \in Flags
    OBVIOUS
  <2>2. QED BY <1>1, <2>1 DEF NewItem, Item
<1>4. items \in [Items -> Item]
  BY <1>3
<1>5. exps \in [Items -> ExpeditionItem] /\ loads \in [Loads -> Load]
  BY DEF NoRow, NoLoad, ExpeditionItem, Load, LoadStatuses
<1>6. links \in [Loads -> [Items -> LoadItem]]
  BY DEF NoLink, LoadItem
<1>7. /\ \A p \in Proposals : rows[p] = IF p = Mother THEN NewMother ELSE NotCreated
      /\ \A i \in Items : exps[i] = NoRow
      /\ \A l \in Loads : loads[l] = NoLoad
      /\ \A l \in Loads, i \in Items : links[l][i] = NoLink
  OBVIOUS
<1>8. Created(flow) = [proposal |-> rows, created |-> Mother, item |-> items, exp |-> exps,
                       load |-> loads, link |-> links]
  BY DEF Created
<1> HIDE DEF rows, items, exps, loads, links
<1>9. Created(flow) \in Database
  BY <1>1, <1>2, <1>4, <1>5, <1>6, <1>8 DEF Database
<1>10. QED BY <1>3, <1>7, <1>8, <1>9

LEMMA CreatedIsLegal ==
  ASSUME NEW flow \in [Items -> Flags \X Flags]
  PROVE  /\ Created(flow) \in Database
         /\ Pieces(Created(flow), {}) /\ Family(Created(flow))
<1> DEFINE d == Created(flow)
<1>1. /\ d \in Database /\ d.created = Mother
      /\ \A p \in Proposals : d.proposal[p] = IF p = Mother THEN NewMother ELSE NotCreated
      /\ \A i \in Items :
           /\ d.item[i].owner = Mother /\ ~d.item[i].galvanized /\ ~d.item[i].delivered
           /\ d.item[i].produce = "NAO" => d.item[i].produced
           /\ d.exp[i] = NoRow
      /\ \A l \in Loads : d.load[l] = NoLoad
      /\ \A l \in Loads, i \in Items : d.link[l][i] = NoLink
  BY CreatedIsTyped
<1> HIDE DEF d
<1>2. \A i \in Items : SentQuantity(d, i) = 0 /\ ReturnedQuantity(d, i) = 0
  <2> TAKE i \in Items
  <2> DEFINE s == [l \in Loads |-> d.link[l][i].sent]
             r == [l \in Loads |-> d.link[l][i].returned]
  <2>1. \A l \in Loads : s[l] = 0 /\ r[l] = 0
    BY <1>1 DEF NoLink
  <2>2. SentQuantity(d, i) = SumFunctionOnSet(s, Loads) /\ ReturnedQuantity(d, i) = SumFunctionOnSet(r, Loads)
    BY DEF SentQuantity, ReturnedQuantity, SumFunction
  <2> HIDE DEF s, r
  <2>3. QED BY <2>1, <2>2, SumOfZeros, LoadsAssumption
<1>3. \A i \in Items : Qty[i] \in Nat /\ Qty[i] > 0
  BY QtyAssumption
<1>4. LinksHold(d)
  BY <1>1, <1>2, <1>3 DEF LinksHold, NoLink, NoLoad
<1>5. RowsNest(d, {})
  BY <1>1, <1>2, <1>3 DEF RowsNest, NoRow, SupplyIn
<1>6. FlagsHold(d)
  BY <1>1 DEF FlagsHold
<1>7. \A p \in Proposals : p <= d.created <=> p = Mother
  BY <1>1, MaxProposalsAssumption DEF Proposals, Mother
<1>8. Lineage(d)
  <2>1. \A p \in Proposals : p > d.created <=> p # Mother
    BY <1>1, MaxProposalsAssumption DEF Proposals, Mother
  <2>2. NoParent < Mother /\ Mother <= Mother
    BY DEF NoParent, Mother
  <2>3. QED BY <1>1, <1>7, <2>1, <2>2, NewRowsAreTyped DEF Lineage
<1>9. Orphans(d)
  <2>1. Mother \in Proposals /\ 1 .. d.created = {Mother}
    BY <1>1, MaxProposalsAssumption DEF Proposals, Mother
  <2>2. d.proposal[Mother].active
    BY <1>1, <2>1, NewRowsAreTyped
  <2>3. ItemsOf(d, Mother) # {}
    BY <1>1, ItemsAssumption DEF ItemsOf
  <2>4. QED BY <1>1, <2>1, <2>2, <2>3 DEF Orphans
<1>10. Finished(d)
  BY <1>1, NewRowsAreTyped DEF Finished
<1>11. Marked(d)
  BY <1>2, <1>3 DEF Marked
<1>12. d \in Database /\ Pieces(d, {}) /\ Family(d)
  BY <1>1, <1>4, <1>5, <1>6, <1>8, <1>9, <1>10, <1>11 DEF Pieces, Family
<1>13. QED BY <1>12 DEF d

\* A family is created with its invariant: the rows are in step from the start.
LEMMA InitHolds ==
  ASSUME Init
  PROVE  FlowInv
<1>1. PICK flow \in [Items -> Flags \X Flags] : db = EnsureExpeditionItems(Created(flow), {Mother})
  BY DEF Init, Created
<1>2. reflowed = {}
  BY DEF Init
<1> DEFINE d == Created(flow)
<1>3. d \in Database /\ Pieces(d, {}) /\ Family(d)
  BY CreatedIsLegal
<1>4. \A i \in Items : d.item[i].owner = Mother
  BY CreatedIsTyped
<1> HIDE DEF d
<1>5. db \in Database /\ Ensured(d, {Mother}, db)
  BY <1>1, <1>3, EnsureRelates DEF d
<1>6. Pieces(db, {}) /\ Family(db)
  BY <1>3, <1>5, EnsureKeepsPieces, EnsureKeepsFamily
<1>7. Current(db)
  <2> SUFFICES ASSUME NEW i \in Items PROVE ReconciledRow(db, i) = db.exp[i]
    BY DEF Current
  <2>1. db.item[i] = d.item[i] /\ db.link = d.link /\ db.exp[i] = ReconciledRow(d, i)
    BY <1>4, <1>5 DEF Ensured
  <2>2. QED BY <1>3, <1>5, <2>1, ReconciledAgain
<1>8. RowsCurrent
  BY <1>5, <1>7, CurrentRows DEF RowsCurrent
<1>9. QED BY <1>2, <1>5, <1>6, <1>8 DEF FlowInv, TypeOK

-----------------------------------------------------------------------------
\* Each action preserves the invariant.
LEMMA StepPreserves ==
  ASSUME FlowInv, Next
  PROVE  Preserves
<1>1. ASSUME NEW p \in Proposals, ProposalStep(p) PROVE Preserves
  <2>1. CASE ReleaseToProduction(p)
    BY <2>1, ReleasePreserves
  <2>2. CASE StartProduction(p)
    BY <2>2, SetStatusPreserves DEF StartProduction
  <2>3. CASE PauseProduction(p)
    BY <2>3, SetStatusPreserves DEF PauseProduction
  <2>4. CASE ResumeProduction(p)
    BY <2>4, SetStatusPreserves DEF ResumeProduction
  <2>5. CASE UpdateItemFlow(p)
    BY <2>5, UpdateFlowPreserves
  <2>6. CASE CompleteProductionItems(p)
    BY <2>6, CompletePreserves
  <2>7. CASE CompleteProductionWithNothingPending(p)
    BY <2>7, NothingPendingPreserves
  <2>8. CASE StartSeparation(p)
    BY <2>8, StartSeparationPreserves
  <2>9. CASE SeparateItems(p)
    BY <2>9, SeparatePreserves
  <2>10. CASE DeliverItems(p)
    BY <2>10, DeliverPreserves
  <2>11. CASE ReturnToProduction(p)
    BY <2>11, ReturnPreserves
  <2>12. CASE Cancel(p)
    BY <2>12, CancelPreserves
  <2>13. QED
    BY <1>1, <2>1, <2>2, <2>3, <2>4, <2>5, <2>6, <2>7, <2>8, <2>9, <2>10, <2>11, <2>12 DEF ProposalStep
<1>2. ASSUME NEW l \in Loads, LoadStep(l) PROVE Preserves
  <2>1. CASE CreateGalvanizationLoad(l) \/ UpdateGalvanizationLoad(l)
    BY <2>1, ComposePreserves
  <2>2. CASE ReleaseGalvanizationLoad(l)
    BY <2>2, ReleaseLoadPreserves
  <2>3. CASE RegisterGalvanizationReturn(l)
    BY <2>3, RegisterReturnPreserves
  <2>4. CASE CloseGalvanizationLoad(l)
    BY <2>4, CloseLoadPreserves
  <2>5. QED BY <1>2, <2>1, <2>2, <2>3, <2>4 DEF LoadStep
<1>3. QED BY <1>1, <1>2 DEF Next

LEMMA StutterPreserves ==
  ASSUME FlowInv, UNCHANGED vars
  PROVE  FlowInv' /\ Kept(db, db') /\ Settled(db, db')
<1>1. db' = db /\ reflowed' = reflowed
  BY DEF vars
<1>2. FlowInv'
  BY <1>1 DEF FlowInv, TypeOK, RowsCurrent
<1>3. Kept(db, db') /\ Settled(db, db')
  BY <1>1, LegalStart DEF Legal
<1>4. QED BY <1>2, <1>3

\* For any family of items, loads and quantities, the inductive invariant holds
\* in every state that committed transactions of the flow can reach.
THEOREM FlowInvHolds == Spec => []FlowInv
<1>1. Init => FlowInv
  BY InitHolds
<1>2. FlowInv /\ [Next]_vars => FlowInv'
  BY StepPreserves, StutterPreserves DEF Preserves
<1>3. QED BY <1>1, <1>2, PTL DEF Spec

\* For any items, loads and quantities, the tables keep their types: no row has a
\* status, an area or a quantity that its columns do not allow.
THEOREM FlowTypeCorrect == Spec => []TypeOK
<1>1. FlowInv => TypeOK
  BY DEF FlowInv
<1>2. QED BY <1>1, FlowInvHolds, PTL

\* After every transaction the rows of Expedition are what the pre-commit hook
\* derives from production and galvanization, for any items, loads and quantities.
THEOREM RowsStayCurrent == Spec => []RowsCurrent
<1>1. FlowInv => RowsCurrent
  BY DEF FlowInv
<1>2. QED BY <1>1, FlowInvHolds, PTL

\* In Expedition no more is delivered than separated, no more separated or given
\* back than available, and no more available than made or back from galvanization,
\* whatever transactions of the stages interleave; but for items redefined late.
THEOREM QuantitiesStayNested == Spec => []QuantitiesNest
<1>1. FlowInv => QuantitiesNest
  BY DEF FlowInv, Pieces, RowsNest, QuantitiesNest, Supply, SupplyIn
<1>2. QED BY <1>1, FlowInvHolds, PTL

\* Over all loads together, however many, no item is sent in more pieces than
\* ordered, and a load never gives back more than it took.
THEOREM LoadsConservePieces == Spec => []LoadsConserve
<1>1. FlowInv => LoadsConserve
  BY DEF FlowInv, Pieces, LinksHold, LoadsConserve
<1>2. QED BY <1>1, FlowInvHolds, PTL

\* An item is marked as galvanized exactly if all its pieces are back, over any
\* number of loads, but for cancelled proposals.
THEOREM GalvanizedIsHome == Spec => []GalvanizedMeansHome
<1>1. FlowInv => GalvanizedMeansHome
  <2>1. SUFFICES ASSUME FlowInv PROVE GalvanizedMeansHome
    OBVIOUS
  <2>2. QED BY <2>1 DEF FlowInv, Pieces, FlagsHold, Family, Marked, GalvanizedMeansHome, Cancelled
<1>2. QED BY <1>1, FlowInvHolds, PTL

\* However often proposals are split, merged and reborn, each item has an active
\* proposal, or one merged away after it was split itself, and no active proposal
\* is left with nothing.
THEOREM NothingIsOrphaned == Spec => []NothingOrphaned
<1>1. FlowInv => NothingOrphaned
  BY DEF FlowInv, Family, Lineage, Orphans, NothingOrphaned
<1>2. QED BY <1>1, FlowInvHolds, PTL

\* A proposal is finished only when every item of it is delivered and nothing of
\* it is pending in production.
THEOREM FinishedIsDelivered == Spec => []FinishedMeansDelivered
<1>1. FlowInv => FinishedMeansDelivered
  BY DEF FlowInv, Family, Finished, FinishedMeansDelivered
<1>2. QED BY <1>1, FlowInvHolds, PTL

-----------------------------------------------------------------------------
\* The status says that a proposal is cancelled exactly if it is marked so.
LEMMA CancelledIsMarked ==
  ASSUME FlowInv, NEW p \in Proposals
  PROVE  Cancelled(db, p) => db.proposal[p].cancelled
  BY DEF FlowInv, Family, Lineage, Cancelled

\* No transaction, of the proposal's own, of its relatives or of the hook, changes
\* anything of a cancelled proposal without open children.
THEOREM CancelledStays == Spec => CancelledStaysPut
<1> DEFINE Stays ==
      \A p \in Proposals :
        Cancelled(db, p) /\ OpenChildren(db, p) = {} =>
          /\ db'.proposal[p] = db.proposal[p]
          /\ ItemsOf(db', p) = ItemsOf(db, p)
          /\ \A i \in ItemsOf(db, p) : db'.item[i] = db.item[i] /\ db'.exp[i] = db.exp[i]
<1>1. ASSUME FlowInv, [Next]_vars, NEW p \in Proposals, Cancelled(db, p), OpenChildren(db, p) = {}
      PROVE  /\ db'.proposal[p] = db.proposal[p]
             /\ ItemsOf(db', p) = ItemsOf(db, p)
             /\ \A i \in ItemsOf(db, p) : db'.item[i] = db.item[i] /\ db'.exp[i] = db.exp[i]
  <2>1. Settled(db, db')
    BY <1>1, StepPreserves, StutterPreserves DEF Preserves
  <2>2. Still(db, p)
    BY <1>1, CancelledIsMarked DEF Still
  <2>3. QED BY <2>1, <2>2 DEF Settled, ItemsOf
<1>2. FlowInv /\ [Next]_vars => [Stays]_vars
  BY <1>1
<1>3. QED BY <1>2, FlowInvHolds, PTL DEF Spec, CancelledStaysPut

\* No transaction, splits, merges and the hook included, takes back what was
\* delivered, returned by the galvanizer or to production, or made under one flow.
THEOREM HistoryKept == Spec => HistoryIsKept
<1> DEFINE Keeps ==
      \A i \in Items :
        /\ db.exp[i].del <= db'.exp[i].del /\ db.exp[i].rem <= db'.exp[i].rem
        /\ ReturnedQuantity(db, i) <= ReturnedQuantity(db', i)
        /\ db.item[i].delivered => db'.item[i].delivered
        /\ db.item[i].galvanized => db'.item[i].galvanized
        /\ db.item[i].produced /\ db.item[i].produce = db'.item[i].produce => db'.item[i].produced
<1>1. ASSUME FlowInv, [Next]_vars, NEW i \in Items
      PROVE  /\ db.exp[i].del <= db'.exp[i].del /\ db.exp[i].rem <= db'.exp[i].rem
             /\ ReturnedQuantity(db, i) <= ReturnedQuantity(db', i)
             /\ db.item[i].delivered => db'.item[i].delivered
             /\ db.item[i].galvanized => db'.item[i].galvanized
             /\ db.item[i].produced /\ db.item[i].produce = db'.item[i].produce => db'.item[i].produced
  <2>1. FlowInv' /\ Kept(db, db')
    BY <1>1, StepPreserves, StutterPreserves DEF Preserves
  <2>2. db \in Database /\ db' \in Database
    BY <1>1, <2>1 DEF FlowInv, TypeOK
  <2>3. ReturnedQuantity(db, i) <= ReturnedQuantity(db', i)
    BY <2>1, <2>2, ReturnedGrows DEF Kept
  <2>4. QED BY <2>1, <2>3 DEF Kept
<1>2. FlowInv /\ [Next]_vars => [Keeps]_vars
  BY <1>1
<1>3. QED BY <1>2, FlowInvHolds, PTL DEF Spec, HistoryIsKept

-----------------------------------------------------------------------------
\* What is sent of an item is sent in some load.
LEMMA SentIsSomewhere ==
  ASSUME NEW d \in Database, NEW i \in Items, SentQuantity(d, i) # 0
  PROVE  \E l \in Loads : d.link[l][i].sent > 0
<1> SUFFICES ASSUME \A l \in Loads : ~(d.link[l][i].sent > 0)
             PROVE  SentQuantity(d, i) = 0
  OBVIOUS
<1> DEFINE s == [l \in Loads |-> d.link[l][i].sent]
<1>1. \A l \in Loads : s[l] = 0
  BY Typed
<1>2. SentQuantity(d, i) = SumFunctionOnSet(s, Loads)
  BY DEF SentQuantity, SumFunction
<1> HIDE DEF s
<1>3. QED BY <1>1, <1>2, SumOfZeros, LoadsAssumption

\* What the rows of an item say of one another when the ledger is read.
Balanced(d, i) ==
  LET e == d.exp[i]
      n == SentQuantity(d, i)
      r == ReturnedQuantity(d, i)
  IN  /\ r <= n /\ n <= Qty[i] /\ e.del <= e.avail /\ e.rem = 0
      /\ n # 0 => FlowDefined(d, i) /\ d.item[i].produced /\ Galvanizes(d, i)
      /\ ~FlowDefined(d, i) \/ ~d.item[i].produced => e = NoRow
      /\ FlowDefined(d, i) /\ d.item[i].produced =>
           e.avail = (IF Galvanizes(d, i) THEN r ELSE Qty[i])
      /\ ~d.item[i].produced => d.item[i].produce # "NAO"

\* An item whose flow was not redefined late is in balance,
LEMMA OpenItemBalances ==
  ASSUME FlowInv, NEW i \in Items \ reflowed, Operational(db, db.item[i].owner),
         ~db.item[i].delivered, db.exp[i].rem = 0
  PROVE  Balanced(db, i)
<1> DEFINE e == db.exp[i]
           n == SentQuantity(db, i)
           r == ReturnedQuantity(db, i)
           s == SupplyIn(db, i)
<1>1. db \in Database /\ LinksHold(db) /\ RowsNest(db, reflowed) /\ FlagsHold(db) /\ Current(db)
  BY LegalStart DEF Legal, Pieces
<1>2. n \in Nat /\ r \in Nat /\ Qty[i] \in Nat /\ Qty[i] > 0
  BY <1>1, LoadSums, Typed
<1>3. r <= n /\ n <= Qty[i]
  BY <1>1, ReturnedWithinSent DEF LinksHold
<1>4. /\ e.del \in Nat /\ e.sep \in Nat /\ e.avail \in Nat /\ s \in Nat
      /\ e.del <= e.sep /\ e.sep + 0 <= e.avail /\ e.avail <= s
      /\ e # NoRow => FlowDefined(db, i) /\ db.item[i].produced
  BY <1>1, <1>2, ExpTyped DEF RowsNest, SupplyIn
<1>5. n # 0 => FlowDefined(db, i) /\ db.item[i].produced /\ Galvanizes(db, i)
  <2>1. SUFFICES ASSUME n # 0 PROVE FlowDefined(db, i) /\ db.item[i].produced /\ Galvanizes(db, i)
    OBVIOUS
  <2>2. PICK l \in Loads : db.link[l][i].sent > 0
    BY <1>1, <2>1, SentIsSomewhere
  <2>3. QED BY <1>1, <2>2 DEF LinksHold, FlowDefined, Galvanizes
<1>6. FlowDefined(db, i) /\ db.item[i].produced => e.avail = s
  <2>1. SUFFICES ASSUME FlowDefined(db, i), db.item[i].produced PROVE e.avail = s
    OBVIOUS
  <2>2. ExpeditionSource(db, i) = s
    BY <2>1 DEF ExpeditionSource, SupplyIn
  <2>3. ReconciledRow(db, i) = e
    BY <1>1 DEF Current
  <2>4. s # 0 => e.avail = MaxOf(s, e.del + 0)
    BY <1>1, <2>2, <2>3, ReconciledFields
  <2> HIDE DEF s, e
  <2>5. CASE s = 0
    BY <1>4, <2>5
  <2>6. CASE s # 0
    BY <1>4, <2>4, <2>6 DEF MaxOf
  <2>7. QED BY <2>5, <2>6
<1>7. s = IF Galvanizes(db, i) THEN r ELSE Qty[i]
  BY DEF SupplyIn, Galvanizes
<1>8. e.del <= e.avail
  <2> HIDE DEF e, s
  <2>1. QED BY <1>4
<1>9. ~db.item[i].produced => db.item[i].produce # "NAO"
  BY <1>1 DEF FlagsHold
<1>10. QED BY <1>3, <1>4, <1>5, <1>6, <1>7, <1>8, <1>9 DEF Balanced

\* and the ledger finds no anomaly in such an item.
LEMMA BalancedHasNoAnomalies ==
  ASSUME NEW d \in Database, NEW i \in Items, Balanced(d, i)
  PROVE  Anomalies(d, i) = {}
<1> DEFINE e == d.exp[i]
           n == SentQuantity(d, i)
           r == ReturnedQuantity(d, i)
           q == Qty[i]
           made == FlowDefined(d, i) /\ d.item[i].produced
<1>1. n \in Nat /\ r \in Nat /\ q \in Nat /\ q > 0 /\ e.avail \in Nat /\ e.del \in Nat /\ e.rem = 0
  BY LoadSums, Typed, ExpTyped DEF Balanced
<1>2. /\ r <= n /\ n <= q /\ e.del <= e.avail
      /\ n # 0 => made /\ Galvanizes(d, i)
      /\ ~made => e = NoRow
      /\ made => e.avail = (IF Galvanizes(d, i) THEN r ELSE q)
      /\ FlowDefined(d, i) /\ ~d.item[i].produced => d.item[i].produce = "SIM"
  BY Typed DEF Balanced, FlowDefined, Item, Flags
<1>3. NoRow.avail = 0 /\ NoRow.del = 0 /\ NoRow.rem = 0
  BY DEF NoRow
<1> DEFINE ready == Ready(d, i)
<1>4. ready = e.avail - e.del
  <2>1. ready = AtLeastZero(e.avail - e.del - 0)
    BY <1>1 DEF Ready
  <2> HIDE DEF e, ready
  <2>2. QED BY <1>1, <1>2, <2>1 DEF AtLeastZero
<1>5. DerivedAvailable(d, i) = e.avail
  <2> DEFINE source == IF made THEN IF Galvanizes(d, i) THEN r ELSE q ELSE 0
  <2>1. DerivedAvailable(d, i) = MaxOf(source, e.del + 0)
    BY <1>1 DEF DerivedAvailable
  <2>2. source = e.avail
    BY <1>2, <1>3
  <2> HIDE DEF e, source
  <2>3. QED BY <1>1, <1>2, <2>1, <2>2 DEF MaxOf
<1>6. AwaitingGalvanization(d, i) = IF made /\ Galvanizes(d, i) THEN q - n ELSE 0
  <2>1. CASE made /\ Galvanizes(d, i)
    BY <2>1 DEF AwaitingGalvanization, Unflowed
  <2>2. CASE ~(made /\ Galvanizes(d, i))
    <3>1. n = 0
      BY <1>2, <2>2
    <3>2. ~Unflowed(d, i) /\ Galvanizes(d, i) => ~d.item[i].produced
      BY <2>2, <3>1 DEF Unflowed
    <3>3. AtLeastZero(-n) = 0
      <4> HIDE DEF n
      <4>1. n \in Int /\ -n = 0 - n
        BY <1>1
      <4>2. -n = 0
        BY <3>1, <4>1
      <4>3. QED BY <4>2 DEF AtLeastZero
    <3>4. QED BY <2>2, <3>2, <3>3 DEF AwaitingGalvanization
  <2>3. QED BY <2>1, <2>2
<1>7. AwaitingGalvanization(d, i) >= 0
  <2> HIDE DEF n, q, made
  <2>1. QED BY <1>1, <1>2, <1>6
<1>8. Gap(d, i) = 0
  <2>1. Gap(d, i) = q - UndefinedFlow(d, i) - ToProduce(d, i) - AwaitingGalvanization(d, i)
                      - InGalvanization(d, i) - ready - e.del
    BY DEF Gap, Delivered
  <2>2. CASE ~FlowDefined(d, i)
    <3>1. n = 0 /\ e.avail = 0 /\ e.del = 0 /\ ready = 0
      BY <1>2, <1>3, <1>4, <2>2
    <3>2. Unflowed(d, i)
      BY <2>2, <3>1 DEF Unflowed
    <3>3. UndefinedFlow(d, i) = AtLeastZero(q - e.del - ready)
      BY <3>2 DEF UndefinedFlow, Delivered
    <3>4. ToProduce(d, i) = 0 /\ InGalvanization(d, i) = 0
      BY <3>2 DEF ToProduce, InGalvanization
    <3>5. AwaitingGalvanization(d, i) = 0
      BY <1>6, <2>2
    <3> HIDE DEF q, e, ready
    <3>6. UndefinedFlow(d, i) = q
      BY <1>1, <3>1, <3>3 DEF AtLeastZero
    <3>7. QED BY <1>1, <2>1, <3>1, <3>4, <3>5, <3>6
  <2>3. CASE FlowDefined(d, i) /\ ~d.item[i].produced
    <3>1. n = 0 /\ e.avail = 0 /\ e.del = 0 /\ ready = 0
      BY <1>2, <1>3, <1>4, <2>3
    <3>2. ~Unflowed(d, i) /\ r = 0
      BY <1>1, <1>2, <2>3, <3>1 DEF Unflowed
    <3>3. UndefinedFlow(d, i) = 0
      BY <3>2 DEF UndefinedFlow
    <3>4. InGalvanization(d, i) = 0
      BY <3>1, <3>2 DEF InGalvanization, AtLeastZero
    <3>5. ToProduce(d, i) = q
      <4>1. ProductionPending(d, i) = q
        BY <1>1, <1>2, <2>3, <3>1 DEF ProductionPending
      <4>2. QED BY <2>3, <3>2, <4>1 DEF ToProduce
    <3>6. AwaitingGalvanization(d, i) = 0
      BY <1>6, <2>3
    <3> HIDE DEF q, e, ready
    <3>7. QED BY <1>1, <2>1, <3>1, <3>3, <3>4, <3>5, <3>6
  <2>4. CASE made /\ ~Galvanizes(d, i)
    <3>1. n = 0 /\ e.avail = q /\ ~Unflowed(d, i)
      BY <1>2, <2>4 DEF Unflowed
    <3>2. UndefinedFlow(d, i) = 0 /\ InGalvanization(d, i) = 0 /\ AwaitingGalvanization(d, i) = 0
      BY <1>6, <2>4, <3>1 DEF UndefinedFlow, InGalvanization
    <3>3. ToProduce(d, i) = 0
      <4>1. CASE d.item[i].produce # "SIM"
        BY <2>4, <3>1, <4>1 DEF ToProduce, ProductionPending
      <4>2. CASE d.item[i].produce = "SIM"
        <5>1. e.avail + e.rem > 0
          <6> HIDE DEF e, q
          <6>1. QED BY <1>1, <3>1
        <5>2. ToProduce(d, i) = AtLeastZero(q - e.avail + e.rem)
          BY <2>4, <3>1, <4>2, <5>1 DEF ToProduce, ProductionPending
        <5> HIDE DEF e, q
        <5>3. QED BY <1>1, <3>1, <5>2 DEF AtLeastZero
      <4>3. QED BY <4>1, <4>2
    <3> HIDE DEF q, e, ready
    <3>4. QED BY <1>1, <1>4, <2>1, <3>1, <3>2, <3>3
  <2>5. CASE made /\ Galvanizes(d, i)
    <3>1. e.avail = r /\ ~Unflowed(d, i)
      BY <1>2, <2>5 DEF Unflowed
    <3>2. UndefinedFlow(d, i) = 0 /\ AwaitingGalvanization(d, i) = q - n /\ ToProduce(d, i) = 0
      BY <1>6, <2>5, <3>1 DEF UndefinedFlow, ToProduce
    <3>3. InGalvanization(d, i) = AtLeastZero(n - r)
      BY <2>5, <3>1 DEF InGalvanization
    <3> HIDE DEF q, e, ready, n, r
    <3>4. InGalvanization(d, i) = n - r
      BY <1>1, <1>2, <3>3 DEF AtLeastZero
    <3>5. QED BY <1>1, <1>4, <2>1, <3>1, <3>2, <3>4
  <2>6. QED BY <2>2, <2>3, <2>4, <2>5
<1>9. e = NoRow => DerivedAvailable(d, i) = 0
  BY <1>3, <1>5
<1>10. ~(e.del + e.rem > e.avail) /\ ~(e.rem > 0)
  <2> HIDE DEF e
  <2>1. QED BY <1>1, <1>2
<1>11. ~(d.item[i].galvanize = "NAO" /\ n > 0)
  BY <1>1, <1>2 DEF Galvanizes
<1>12. ~(AwaitingGalvanization(d, i) < 0)
  <2> DEFINE a == AwaitingGalvanization(d, i)
  <2>1. a \in Int
    BY <1>1, <1>6
  <2> HIDE DEF a
  <2>2. QED BY <1>7, <2>1 DEF a
<1> HIDE DEF made, q, r
<1>13. QED BY <1>5, <1>8, <1>9, <1>10, <1>11, <1>12 DEF Anomalies

\* The stage ledger of an open item adds up to the pieces ordered and agrees with
\* Expedition, for any quantities and loads; but for items with pieces returned to
\* production and items redefined late.
THEOREM LedgerStaysClosed == Spec => []LedgerCloses
<1>1. FlowInv => LedgerCloses
  <2>1. SUFFICES ASSUME FlowInv, NEW i \in Items \ reflowed,
                        Operational(db, db.item[i].owner), ~db.item[i].delivered, db.exp[i].rem = 0
                 PROVE  Anomalies(db, i) = {}
    BY DEF LedgerCloses
  <2>2. db \in Database /\ Balanced(db, i)
    BY <2>1, OpenItemBalances DEF FlowInv, TypeOK
  <2>3. QED BY <2>2, BalancedHasNoAnomalies
<1>2. QED BY <1>1, FlowInvHolds, PTL
=============================================================================
