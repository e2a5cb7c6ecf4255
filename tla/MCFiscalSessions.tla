-------------------------- MODULE MCFiscalSessions --------------------------
(***************************************************************************)
(* An instance of FiscalSessions for TLC: the records of a mother and a    *)
(* child with an item of two pieces each; a draft without number over both *)
(* records, one over them in the other order, and one of each record alone *)
(* with the same invoice number and series.                                *)
(***************************************************************************)
EXTENDS FiscalSessions

CONSTANTS mother, child, beam, rail, s1, s2, d1, d2, d3, d4

TwoRecords == {mother, child}
TwoItems == {beam, rail}
FirstHome == [i \in TwoItems |-> IF i = beam THEN mother ELSE child]
PiecesOrdered == [i \in TwoItems |-> 2]
TwoSessions == {s1, s2}
FourDrafts == {d1, d2, d3, d4}
OrderOf == [d \in FourDrafts |->
  CASE d = d1 -> <<mother, child>> [] d = d2 -> <<child, mother>>
    [] d = d3 -> <<mother>> [] OTHER -> <<child>>]
PiecesOf == [d \in FourDrafts |-> IF d = d4 THEN 0 ELSE 1]
NumberOf == [d \in FourDrafts |-> IF d = d2 THEN 2 ELSE 1]
FirstIsUnnumbered == {d1}
LastTwoSeried == {d3, d4}
FirstIsKept == {d1}
=============================================================================
