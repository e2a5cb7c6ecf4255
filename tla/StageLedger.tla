---------------------------- MODULE StageLedger ----------------------------
(***************************************************************************)
(* stage_ledger.py: the read-only account that says, for each item, how    *)
(* many pieces are in each stage, and the anomalies it reports when the    *)
(* numbers of Production, Galvanization and Expedition disagree. The       *)
(* remanagement terms of its formulas are zero here.                       *)
(***************************************************************************)
EXTENDS ProposalState

Unflowed(d, i) == ~FlowDefined(d, i) /\ SentQuantity(d, i) = 0
Galvanizes(d, i) == d.item[i].galvanize = "SIM"

Ready(d, i) == LET e == d.exp[i] IN AtLeastZero(e.avail - e.del - e.rem)
Delivered(d, i) == d.exp[i].del

UndefinedFlow(d, i) ==
  IF Unflowed(d, i) THEN AtLeastZero(Qty[i] - Delivered(d, i) - Ready(d, i)) ELSE 0

ToProduce(d, i) ==
  IF Unflowed(d, i) \/ (Galvanizes(d, i) /\ d.item[i].produced) THEN 0 ELSE ProductionPending(d, i)

AwaitingGalvanization(d, i) ==
  IF ~Unflowed(d, i) /\ Galvanizes(d, i)
  THEN IF d.item[i].produced THEN Qty[i] - SentQuantity(d, i) ELSE AtLeastZero(-SentQuantity(d, i))
  ELSE 0

InGalvanization(d, i) ==
  IF ~Unflowed(d, i) /\ Galvanizes(d, i)
  THEN AtLeastZero(SentQuantity(d, i) - ReturnedQuantity(d, i)) ELSE 0

Gap(d, i) ==
  Qty[i] - UndefinedFlow(d, i) - ToProduce(d, i) - AwaitingGalvanization(d, i)
         - InGalvanization(d, i) - Ready(d, i) - Delivered(d, i)

\* derived_expedition_available, with the floor find_anomalies puts under it.
DerivedAvailable(d, i) ==
  LET source == IF ~FlowDefined(d, i) \/ ~d.item[i].produced THEN 0
                ELSE IF Galvanizes(d, i) THEN ReturnedQuantity(d, i) ELSE Qty[i]
  IN  MaxOf(source, d.exp[i].del + d.exp[i].rem)

Anomalies(d, i) ==
  LET e == d.exp[i]
      when(code, condition) == IF condition THEN {code} ELSE {}
  IN  when("NEGATIVE_STAGE", AwaitingGalvanization(d, i) < 0) \cup
      when("STAGE_GAP", Gap(d, i) # 0) \cup
      when("OVERCOMMITTED", e.del + e.rem > e.avail) \cup
      when("EXPEDITION_AVAILABLE_MISMATCH", e # NoRow /\ DerivedAvailable(d, i) # e.avail) \cup
      when("EXPEDITION_ROW_MISSING", e = NoRow /\ DerivedAvailable(d, i) > 0) \cup
      when("REMANAGED_WITHOUT_RECORD", e.rem > 0) \cup
      when("GALVANIZATION_ON_SIMPLE_ITEM", d.item[i].galvanize = "NAO" /\ SentQuantity(d, i) > 0)
=============================================================================
