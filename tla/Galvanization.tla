--------------------------- MODULE Galvanization ---------------------------
(***************************************************************************)
(* Galvanization loads: composing and editing a draft, releasing it to the *)
(* galvanizer, registering what comes back, closing it. A load may carry   *)
(* items of several proposals and projects its state back onto them.       *)
(***************************************************************************)
EXTENDS ProposalFamily

Draft == "AGUARDANDO_LIBERACAO"
Returnable == {"LIBERADA_PARA_ENVIO", "RETORNO_PARCIAL"}

LoadedItems(d, l) == {i \in Items : d.link[l][i].sent > 0}

EligibleItem(d, i) ==
  LET r == d.item[i] IN
  r.produced /\ r.galvanize = "SIM" /\ FlowDefined(d, i) /\ ~r.galvanized

\* Mutant: each load may carry the whole item.
AvailablePerLoad(d, i, l) == Qty[i]

\* What of item i is in no load but l.
AvailableForLoad(d, i, l) ==
  AtLeastZero(Qty[i] - SumFunction([m \in Loads \ {l} |-> d.link[m][i].sent]))

\* _recalculate_proposal_after_load_change: project the loads onto proposal p.
RecalculateAfterLoadChange(d, p) ==
  LET links == {x \in Loads \X ItemsOf(d, p) : d.link[x[1]][x[2]].sent > 0}
      drafted == \E x \in links : d.load[x[1]].status = Draft
      away == \E x \in links : /\ d.load[x[1]].status \in Returnable
                               /\ d.link[x[1]][x[2]].sent > d.link[x[1]][x[2]].returned
      some == \E x \in links : d.link[x[1]][x[2]].returned > 0
      eligible == \E i \in ItemsOf(d, p) : EligibleItem(d, i)
      home == GalvanizedItems(d, p) # {} /\ \A i \in GalvanizedItems(d, p) : d.item[i].galvanized
      move(area, status) == [d.proposal[p] EXCEPT !.area = area, !.status = status]
      \* A proposal that still owes production stays there.
      canLeave == PendingItems(d, p) = {}
      r == CASE drafted -> move("GALVANIZACAO", "EM_CARGA")
             [] ~drafted /\ away /\ ~some -> move("GALVANIZACAO", "ENVIADO_GALVANIZACAO")
             [] ~drafted /\ away /\ some ->
                  [move("GALVANIZACAO", "RETORNOU_PARCIAL") EXCEPT
                     !.shipping = IF @ = "NENHUM" THEN "AGUARDANDO_SEPARACAO_PARCIAL" ELSE @]
             [] ~drafted /\ ~away /\ eligible -> move("GALVANIZACAO", "AGUARDANDO_ENVIO")
             [] ~drafted /\ ~away /\ ~eligible /\ home ->
                  [move("EXPEDICAO", "EM_SEPARACAO") EXCEPT !.shipping = "EM_SEPARACAO"]
             [] OTHER -> d.proposal[p]
  IN  IF canLeave /\ ~Cancelled(d, p) THEN r ELSE d.proposal[p]

(***************************************************************************)
(* create_galvanization_load, update_galvanization_load: send maps the     *)
(* items of the payload to quantities, zero for those left out             *)
(***************************************************************************)
ReplaceLoadItems(l, status, send) ==
  LET chosen == {i \in Items : send[i] > 0}
      d == [db EXCEPT
              !.load[l].status = status,
              !.link[l] = [i \in Items |-> [sent |-> send[i], returned |-> 0]]]
      affected == {db.item[i].owner : i \in chosen \cup LoadedItems(db, l)}
  IN  /\ \A i \in chosen : /\ Operational(db, db.item[i].owner)
                           /\ EligibleItem(db, i)
                           /\ send[i] <= AvailableForLoad(db, i, l)
      /\ Commit([d EXCEPT !.proposal =
           [p \in Proposals |-> IF p \in affected THEN RecalculateAfterLoadChange(d, p) ELSE @[p]]])

\* Every composition a payload may ask for.
Compositions == {send \in [Items -> 0 .. Max({Qty[i] : i \in Items})] : \A i \in Items : send[i] <= Qty[i]}

CreateGalvanizationLoad(l) ==
  /\ db.load[l].status = "NENHUM"
  /\ \E send \in Compositions :
       /\ \E i \in Items : send[i] > 0
       /\ ReplaceLoadItems(l, Draft, send)
  /\ UNCHANGED reflowed

\* Mutant: a load may be recomposed after it has left.
RecomposeLoad(l) ==
  /\ db.load[l].status \in {Draft} \cup Returnable
  /\ \E send \in Compositions : ReplaceLoadItems(l, db.load[l].status, send)
  /\ UNCHANGED reflowed

UpdateGalvanizationLoad(l) ==
  /\ db.load[l].status = Draft
  /\ \E send \in Compositions : ReplaceLoadItems(l, Draft, send)
  /\ UNCHANGED reflowed

(***************************************************************************)
(* release_galvanization_load                                              *)
(***************************************************************************)
ReleaseGalvanizationLoad(l) ==
  LET owners == {db.item[i].owner : i \in LoadedItems(db, l)} IN
  /\ db.load[l].status = Draft
  /\ owners # {}
  /\ \A p \in owners : ~Cancelled(db, p)
  /\ Commit([db EXCEPT
       !.load[l].status = "LIBERADA_PARA_ENVIO",
       !.proposal = [p \in Proposals |->
          IF p \in owners
          THEN [@[p] EXCEPT !.area = "GALVANIZACAO", !.status = "ENVIADO_GALVANIZACAO"]
          ELSE @[p]]])
  /\ UNCHANGED reflowed

(***************************************************************************)
(* register_galvanization_return                                           *)
(***************************************************************************)
\* Mutant: what was sent is taken for what was ordered.
SentIsBack(d, i) == ReturnedQuantity(d, i) >= SentQuantity(d, i)

FullyReturned(d, i) == ReturnedQuantity(d, i) >= Qty[i]

\* _recalculate_galvanization_proposal_state, for the items and then the row.
MarkGalvanized(d, P) ==
  [d EXCEPT !.item = [i \in Items |->
     IF d.item[i].owner \in P /\ d.item[i].galvanize = "SIM" /\ FullyReturned(d, i)
     THEN [@[i] EXCEPT !.galvanized = TRUE] ELSE @[i]]]

RecalculateAfterReturn(d, p) ==
  LET galvanized == GalvanizedItems(d, p)
      r == d.proposal[p]
  IN  CASE galvanized # {} /\ \A i \in galvanized : FullyReturned(d, i) ->
             [r EXCEPT !.area = "EXPEDICAO", !.status = "EM_SEPARACAO", !.shipping = "EM_SEPARACAO"]
        [] /\ \E i \in galvanized : ReturnedQuantity(d, i) > 0
           /\ \E i \in galvanized : ~FullyReturned(d, i) ->
             [r EXCEPT !.area = "GALVANIZACAO", !.status = "RETORNOU_PARCIAL",
                       !.shipping = IF @ = "NENHUM" THEN "AGUARDANDO_SEPARACAO_PARCIAL" ELSE @]
        [] OTHER -> [r EXCEPT !.area = "GALVANIZACAO", !.status = "ENVIADO_GALVANIZACAO"]

LoadAfterReturn(d, l) ==
  LET loaded == LoadedItems(d, l) IN
  CASE \A i \in loaded : d.link[l][i].returned >= d.link[l][i].sent -> "RETORNADA_GALVANIZACAO"
    [] OTHER -> IF \E i \in loaded : d.link[l][i].returned > 0 THEN "RETORNO_PARCIAL"
                ELSE d.load[l].status

\* Every affected proposal is recalculated before any family changes shape;
\* then each family is merged, and last each mother may be reborn.
RegisterGalvanizationReturn(l) ==
  /\ db.load[l].status \in Returnable
  /\ \E back \in Compositions :
       LET chosen == {i \in Items : back[i] > 0}
           affected == {db.item[i].owner : i \in chosen}
           live == {p \in affected : ~Cancelled(db, p)}
           parents == {db.proposal[p].parent : p \in affected} \ {NoParent}
           returned == [db EXCEPT !.link[l] =
                          [i \in Items |-> [db.link[l][i] EXCEPT !.returned = @ + back[i]]]]
           marked == MarkGalvanized(returned, live)
           projected == [marked EXCEPT !.proposal =
             [p \in Proposals |-> IF p \in live THEN RecalculateAfterReturn(marked, p) ELSE @[p]]]
           merged == FoldSet(LAMBDA p, d : MergeEqualStatusChildren(d, p), projected, parents)
           reborn == FoldSet(LAMBDA p, d : RebornParent(d, p), merged, affected)
       IN  /\ chosen # {}
           /\ \A i \in chosen : back[i] <= db.link[l][i].sent - db.link[l][i].returned
           /\ Commit([reborn EXCEPT !.load[l].status = LoadAfterReturn(reborn, l)])
  /\ UNCHANGED reflowed

\* close_galvanization_load only stamps closed_at.
CloseGalvanizationLoad(l) ==
  /\ db.load[l].status = "RETORNADA_GALVANIZACAO"
  /\ \A i \in LoadedItems(db, l) : db.link[l][i].returned >= db.link[l][i].sent
  /\ Commit([db EXCEPT !.load[l].closed = TRUE])
  /\ UNCHANGED reflowed
=============================================================================
