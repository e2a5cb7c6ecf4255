--------------------------- MODULE ProposalFamily ---------------------------
(***************************************************************************)
(* How a family changes shape: equivalent children are merged, and a mother *)
(* whose children have all converged in Expedition takes their items back. *)
(* These run inside the transactions of Production, Galvanization and      *)
(* Expedition.                                                             *)
(***************************************************************************)
EXTENDS ProposalState

\* Mutant: children already merged away still count.
AllChildren(d, p) == {c \in Children(d, p) : ~d.proposal[c].cancelled}

OpenChildren(d, p) ==
  {c \in Children(d, p) : d.proposal[c].active /\ ~d.proposal[c].cancelled}

LoadsOf(d, p) == {l \in Loads : \E i \in ItemsOf(d, p) : d.link[l][i].sent > 0}

\* Mutant: the state of the children is not compared.
GroupByLoads(d, p) == LoadsOf(d, p)

\* Children are equivalent when they agree on area, status and set of loads.
GroupKey(d, p) == <<d.proposal[p].area, d.proposal[p].status, LoadsOf(d, p)>>

\* Children are numbered in the order they are created, so the survivor of a
\* group, the lowest partial number, is the lowest id.
Survivor(d, parent, c) ==
  Min({e \in OpenChildren(d, parent) : GroupKey(d, e) = GroupKey(d, c)})

\* Hand the items of each absorbed proposal p to heir[p], with their rows in
\* Expedition and in the loads (those belong to the item, see Item.owner).
AbsorbRows(d, heir) ==
  LET absorbed == DOMAIN heir IN
  [d EXCEPT
     !.item = [i \in Items |->
                 IF d.item[i].owner \in absorbed
                 THEN [d.item[i] EXCEPT !.owner = heir[d.item[i].owner]] ELSE d.item[i]],
     !.proposal = [p \in Proposals |->
                     IF p \in absorbed THEN [@[p] EXCEPT !.active = FALSE] ELSE @[p]]]

MergeEqualStatusChildren(d, parent) ==
  LET merged == {c \in OpenChildren(d, parent) : Survivor(d, parent, c) # c}
  IN  AbsorbRows(d, [c \in merged |-> Survivor(d, parent, c)])

ChildrenConverge(d, parent) ==
  LET open == OpenChildren(d, parent) IN
  /\ open # {}
  /\ \A c \in open : d.proposal[c].area = "EXPEDICAO"
  /\ Cardinality({d.proposal[c].status : c \in open}) = 1

\* A mother that still has items of her own is operational and is not reborn.
RebornParent(d, child) ==
  LET parent == d.proposal[child].parent IN
  IF parent = NoParent \/ ~ChildrenConverge(d, parent) \/ ItemsOf(d, parent) # {} THEN d
  ELSE LET open == OpenChildren(d, parent)
           status == d.proposal[CHOOSE c \in open : TRUE].status
       IN  [AbsorbRows(d, [c \in open |-> parent])
              EXCEPT !.proposal[parent].area = "EXPEDICAO",
                     !.proposal[parent].status = status,
                     !.proposal[parent].shipping = status,
                     !.proposal[parent].pending = FALSE]
=============================================================================
