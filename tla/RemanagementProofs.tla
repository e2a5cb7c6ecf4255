------------------------ MODULE RemanagementProofs ------------------------
(***************************************************************************)
(* Theorems about Remanagement: an operation is written once; the pieces   *)
(* of an item nest in what was ordered, made and exchanged, and so none is *)
(* delivered twice, the ledger closes and honest plans balance.            *)
(***************************************************************************)
EXTENDS Remanagement, SumTheorems

\* Between transactions every operation has been written at most once.
WrittenAtMostOnce == applied \in [Operations -> {0, 1}]

LEMMA ItemsAndLoadsKeepApplied ==
  ASSUME (\E i \in Items : ItemStep(i)) \/ (\E l \in Loads : LoadStep(l))
  PROVE  applied' = applied
BY DEF ItemStep, LoadStep, DefineFlow, CompleteProduction, SeparateItem, DeliverItem, ReturnToProduction,
       ComposeLoad, ReleaseLoad, RegisterReturn, KeepRequests

LEMMA WrittenAtMostOnceStep == WrittenAtMostOnce /\ [Next]_vars => WrittenAtMostOnce'
<1> SUFFICES ASSUME WrittenAtMostOnce, [Next]_vars PROVE WrittenAtMostOnce'
  OBVIOUS
<1>1. CASE applied' = applied
  BY <1>1 DEF WrittenAtMostOnce
<1>2. ASSUME NEW s \in Sessions, ConfirmRemanagement(s) PROVE WrittenAtMostOnce'
  <2> DEFINE o == request[s].operation
  <2>1. ~(applied[o] > 0) /\ applied' = [applied EXCEPT ![o] = @ + 1]
    BY <1>2 DEF ConfirmRemanagement, AlreadyApplied
  <2>2. CASE o \in Operations
    BY <2>1, <2>2 DEF WrittenAtMostOnce
  <2>3. CASE o \notin Operations
    BY <2>1, <2>3 DEF WrittenAtMostOnce
  <2> QED
    BY <2>2, <2>3
<1>3. \/ applied' = applied
      \/ \E s \in Sessions : ConfirmRemanagement(s)
  <2>1. CASE UNCHANGED vars
    BY <2>1 DEF vars
  <2>2. ASSUME NEW q \in Reviewed, NEW s \in Sessions, NEW o \in Operations, LookUp(s, o, q)
        PROVE  applied' = applied
    BY <2>2 DEF LookUp
  <2>3. ASSUME NEW s \in Sessions, Replay(s) \/ RefuseRemanagement(s) PROVE applied' = applied
    BY <2>3 DEF Replay, RefuseRemanagement
  <2> QED
    BY <2>1, <2>2, <2>3, ItemsAndLoadsKeepApplied DEF Next, RemanagementStep
<1> QED
  BY <1>1, <1>2, <1>3

\* However many sessions look an operation up and retry it, and whatever the
\* other handlers do meanwhile, it is written at most once.
THEOREM AppliedAtMostOnce == Spec => []AppliedOnce
<1>1. Init => WrittenAtMostOnce
  BY DEF Init, WrittenAtMostOnce
<1>2. WrittenAtMostOnce => AppliedOnce
  BY DEF WrittenAtMostOnce, AppliedOnce
<1> QED
  BY <1>1, <1>2, WrittenAtMostOnceStep, PTL DEF Spec

(***************************************************************************)
(* The inductive invariant of the pieces                                   *)
(***************************************************************************)
\* Pieces of item i that were returned from Expedition to production.
Undone(d, i) == d.exp[i].rem - d.swap[i].given

\* The most Expedition can have of item i.
Supply(d, i) ==
  LET x == d.swap[i] IN
  IF Galvanizes(d, i) THEN Back(d, i) + x.received
  ELSE x.completed + (IF d.item[i].produced THEN Qty[i] + Undone(d, i) ELSE x.received)

\* Only what was sent comes back, and only from a load that is away.
LinksNest(d) ==
  \A l \in Loads, i \in Items :
    LET k == d.link[l][i] IN k.returned <= k.sent /\ (~d.away[l] => k.returned = 0)

\* Every ready piece was exchanged for an obligation or a fabricated piece, and
\* what an item's flow does not foresee has not happened to it.
Swapped(d, i) ==
  LET x == d.swap[i] IN
  /\ x.received = x.out + x.fabOut
  /\ x.given = x.pending + x.completed + x.fabIn
  /\ ~Galvanizes(d, i) => x.fabIn = 0 /\ x.fabOut = 0 /\ Sent(d, i) = 0
  /\ ~FlowDefined(d, i) => ~d.item[i].produced /\ x.given = 0

\* What left Expedition was there, what is there arrived, and no more was handed
\* out to be produced than there was to produce.
Stocked(d, i) ==
  LET e == d.exp[i]
      x == d.swap[i] IN
  /\ e.del + e.rem <= e.avail
  /\ x.given <= e.rem
  /\ x.out <= Qty[i] + Undone(d, i)
  /\ ~(Galvanizes(d, i) /\ d.item[i].produced) => x.out + x.fabIn <= e.avail
  /\ e.avail <= Supply(d, i)

\* No more is sent to galvanization than goes through it; an item not produced
\* itself sends what it received, and has got back what it received in excess.
Piped(d, i) ==
  LET x == d.swap[i] IN
  Galvanizes(d, i) =>
    IF d.item[i].produced THEN Sent(d, i) <= Pipeline(d, i) + Undone(d, i)
    ELSE Sent(d, i) + x.fabOut <= x.completed + x.fabIn /\ x.fabIn <= x.fabOut + Back(d, i)

Fit(d, i) == Swapped(d, i) /\ Stocked(d, i) /\ Piped(d, i)

\* An item without pieces returned to production: what Expedition marks as
\* taken away was given in exchanges, and only an item that has nothing left to
\* produce itself makes or gets anything for others.
Even(d, i) ==
  LET e == d.exp[i]
      x == d.swap[i] IN
  /\ e.rem = x.given
  /\ ~d.item[i].produced => x.out = Qty[i] \/ (x.completed = 0 /\ x.fabIn = 0)
  /\ d.item[i].delivered => e.avail > 0

\* No more is separated than is there, and the row of an item that was never
\* delivered whole is up to date.
Open(d, i) ==
  LET e == d.exp[i] IN
  /\ e.sep + e.rem <= e.avail
  /\ ~d.item[i].delivered => e.avail = DerivedAvailable(d, i)

Given(d) == SumFunction([i \in Items |-> d.swap[i].given])
Received(d) == SumFunction([i \in Items |-> d.swap[i].received])

\* What a transaction leaves behind before the hook, r being the items with
\* pieces returned to production.
Drafted(d, r) ==
  /\ d \in Database
  /\ LinksNest(d)
  /\ \A i \in Items : Fit(d, i)
  /\ \A i \in Items \ r : Even(d, i)
  /\ Given(d) = Received(d)

PieceInv ==
  /\ TypeOK
  /\ Drafted(db, returned)
  /\ \A i \in Items : Open(db, i)

-----------------------------------------------------------------------------
\* What the sums over loads depend on, and that they are quantities.
LEMMA ItemRows ==
  ASSUME NEW d \in Database, NEW i \in Items
  PROVE  /\ d.item[i] \in Item /\ d.exp[i] \in ExpeditionItem /\ d.swap[i] \in Exchanged
         /\ d.item[i].flow \in Flows /\ d.item[i].produced \in BOOLEAN
         /\ d.item[i].galvanized \in BOOLEAN /\ d.item[i].delivered \in BOOLEAN
         /\ d.exp[i].avail \in Nat /\ d.exp[i].sep \in Nat /\ d.exp[i].del \in Nat
         /\ d.exp[i].rem \in Nat /\ d.exp[i].closed \in BOOLEAN
         /\ d.swap[i].out \in Nat /\ d.swap[i].pending \in Nat /\ d.swap[i].completed \in Nat
         /\ d.swap[i].fabIn \in Nat /\ d.swap[i].fabOut \in Nat
         /\ d.swap[i].given \in Nat /\ d.swap[i].received \in Nat
         /\ \A l \in Loads : /\ d.link[l][i] \in LoadItem
                             /\ d.link[l][i].sent \in Nat /\ d.link[l][i].returned \in Nat
<1>1. d.item[i] \in Item /\ d.exp[i] \in ExpeditionItem /\ d.swap[i] \in Exchanged
  BY DEF Database
<1>2. \A l \in Loads : d.link[l][i] \in LoadItem
  BY DEF Database
<1>3. QED BY <1>1, <1>2 DEF Item, ExpeditionItem, Exchanged, LoadItem

LEMMA Numbers ==
  ASSUME NEW d \in Database, NEW i \in Items
  PROVE  /\ d.exp[i].avail \in Nat /\ d.exp[i].sep \in Nat /\ d.exp[i].del \in Nat
         /\ d.exp[i].rem \in Nat
         /\ d.swap[i].out \in Nat /\ d.swap[i].pending \in Nat /\ d.swap[i].completed \in Nat
         /\ d.swap[i].fabIn \in Nat /\ d.swap[i].fabOut \in Nat
         /\ d.swap[i].given \in Nat /\ d.swap[i].received \in Nat
         /\ Qty[i] \in Nat /\ Qty[i] > 0
BY ItemRows, QtyAssumption

LEMMA FlowCases ==
  ASSUME NEW d \in Database, NEW i \in Items
  PROVE  \/ Galvanizes(d, i) /\ d.item[i].flow = "SIM" /\ FlowDefined(d, i)
         \/ ~Galvanizes(d, i) /\ d.item[i].flow = "NAO" /\ FlowDefined(d, i)
         \/ ~Galvanizes(d, i) /\ d.item[i].flow = "INDEFINIDO" /\ ~FlowDefined(d, i)
BY ItemRows DEF Galvanizes, FlowDefined, Flows

LEMMA SumIsOnDomain ==
  ASSUME NEW S, NEW f, DOMAIN f = S
  PROVE  SumFunction(f) = SumFunctionOnSet(f, S)
BY DEF SumFunction

LEMMA LoadSums ==
  ASSUME NEW d \in Database, NEW i \in Items
  PROVE  /\ Sent(d, i) \in Nat /\ Back(d, i) \in Nat
         /\ LinksNest(d) => Back(d, i) <= Sent(d, i)
<1> DEFINE sent == [l \in Loads |-> d.link[l][i].sent]
           back == [l \in Loads |-> d.link[l][i].returned]
<1>1. Sent(d, i) = SumFunctionOnSet(sent, Loads) /\ Back(d, i) = SumFunctionOnSet(back, Loads)
  BY DEF Sent, Back, SumFunction
<1>2. \A l \in Loads : sent[l] \in Nat /\ back[l] \in Nat
  BY ItemRows
<1>3. LinksNest(d) => \A l \in Loads : back[l] <= sent[l]
  BY DEF LinksNest
<1> HIDE DEF sent, back
<1>4. SumFunctionOnSet(sent, Loads) \in Nat /\ SumFunctionOnSet(back, Loads) \in Nat
  BY <1>2, LoadsAssumption, SumOfNaturals
<1>5. ASSUME LinksNest(d) PROVE Back(d, i) <= Sent(d, i)
  <2>1. \A l \in Loads : back[l] \in Int /\ sent[l] \in Int /\ back[l] <= sent[l]
    BY <1>2, <1>3, <1>5
  <2>2. IsFiniteSet(Loads)
    BY LoadsAssumption
  <2>3. SumFunctionOnSet(back, Loads) <= SumFunctionOnSet(sent, Loads)
    BY <2>1, <2>2, SumIsMonotone
  <2>4. QED BY <1>1, <2>3
<1>6. QED BY <1>1, <1>4, <1>5

LEMMA LinksDecide ==
  ASSUME NEW d, NEW e, NEW i
  PROVE  /\ (\A l \in Loads : e.link[l][i].sent = d.link[l][i].sent) => Sent(e, i) = Sent(d, i)
         /\ (\A l \in Loads : e.link[l][i].returned = d.link[l][i].returned) => Back(e, i) = Back(d, i)
BY DEF Sent, Back

-----------------------------------------------------------------------------
\* The hook: it leaves an item that is fit fit, and an open one up to date.
LEMMA HookColumns ==
  \A d \in Database : \A S \in SUBSET Items :
    LET e == EnsureExpeditionItems(d, S) IN
    /\ e.item = d.item /\ e.link = d.link /\ e.away = d.away /\ e.swap = d.swap
    /\ e.exp = [i \in Items |-> IF i \in S THEN ReconciledRow(d, i) ELSE d.exp[i]]
BY DEF EnsureExpeditionItems, Database

LEMMA DerivedType ==
  ASSUME NEW d \in Database, NEW i \in Items
  PROVE  /\ DerivedAvailable(d, i) \in Nat /\ ExpeditionSource(d, i) \in Nat
         /\ ReadyAvailable(d, i) \in Nat
<1>1. Back(d, i) \in Nat /\ Sent(d, i) \in Nat
  BY LoadSums
<1>2. Qty[i] \in Nat
  BY QtyAssumption
<1>3. DerivedAvailable(d, i) \in Nat
  BY <1>1, <1>2, ItemRows DEF DerivedAvailable, AtLeastZero
<1>4. ReadyAvailable(d, i) \in Nat
  BY ItemRows DEF ReadyAvailable, AtLeastZero
<1>5. QED BY <1>3, <1>4 DEF ExpeditionSource

LEMMA ReconciledColumns ==
  ASSUME NEW d \in Database, NEW i \in Items, NEW r, r = ReconciledRow(d, i)
  PROVE  /\ r \in ExpeditionItem
         /\ r.sep = d.exp[i].sep /\ r.del = d.exp[i].del /\ r.rem = d.exp[i].rem
         /\ r.closed = d.exp[i].closed
         /\ r.avail = IF ExpeditionSource(d, i) = 0 THEN d.exp[i].avail
                      ELSE MaxOf(ExpeditionSource(d, i), d.exp[i].del + d.exp[i].rem)
<1>1. d.exp[i] \in ExpeditionItem
  BY ItemRows
<1>2. MaxOf(ExpeditionSource(d, i), d.exp[i].del + d.exp[i].rem) \in Nat
  BY DerivedType, ItemRows DEF MaxOf
<1>3. QED BY <1>1, <1>2 DEF ReconciledRow, ExpeditionItem

LEMMA HookTypes ==
  ASSUME NEW d \in Database, NEW S \in SUBSET Items
  PROVE  EnsureExpeditionItems(d, S) \in Database
<1> DEFINE e == EnsureExpeditionItems(d, S)
<1>1. e.exp \in [Items -> ExpeditionItem]
  <2>1. e.exp = [i \in Items |-> IF i \in S THEN ReconciledRow(d, i) ELSE d.exp[i]]
    BY HookColumns
  <2>2. \A i \in Items : ReconciledRow(d, i) \in ExpeditionItem /\ d.exp[i] \in ExpeditionItem
    BY ReconciledColumns, ItemRows
  <2> HIDE DEF e
  <2>3. QED BY <2>1, <2>2
<1>4. e = [d EXCEPT !.exp = e.exp]
  BY DEF EnsureExpeditionItems, Database
<1> HIDE DEF e
<1>3. e \in Database
  BY <1>1, <1>4 DEF Database
<1>5. QED BY <1>3 DEF e

LEMMA SameDerived ==
  ASSUME NEW d, NEW e, NEW i, e.item[i].flow = d.item[i].flow, e.swap[i] = d.swap[i],
         e.item[i].produced = d.item[i].produced, Back(e, i) = Back(d, i)
  PROVE  DerivedAvailable(e, i) = DerivedAvailable(d, i)
BY DEF DerivedAvailable, Galvanizes

\* As long as nothing was returned to production and the item is open, what the
\* hook derives is the supply; and never more than it.
LEMMA DerivedIsSupply ==
  ASSUME NEW d \in Database, NEW i \in Items, LinksNest(d), Fit(d, i)
  PROVE  /\ DerivedAvailable(d, i) <= Supply(d, i)
         /\ Even(d, i) => DerivedAvailable(d, i) = Supply(d, i)
<1>1. Back(d, i) \in Nat /\ Sent(d, i) \in Nat /\ Back(d, i) <= Sent(d, i)
  BY LoadSums
<1>2. Undone(d, i) \in Nat /\ d.swap[i].out <= Qty[i] + Undone(d, i)
  BY Numbers DEF Fit, Stocked, Undone
<1>3. Even(d, i) => Undone(d, i) = 0
  BY Numbers DEF Even, Undone
<1>4. CASE Galvanizes(d, i) /\ d.item[i].flow = "SIM"
  <2>1. CASE d.item[i].produced
    BY <1>1, <1>4, <2>1, Numbers DEF Supply, DerivedAvailable
  <2>2. CASE ~d.item[i].produced
    <3>1. Sent(d, i) + d.swap[i].fabOut <= d.swap[i].completed + d.swap[i].fabIn
      BY <1>4, <2>2 DEF Fit, Piped
    <3>2. Even(d, i) => d.swap[i].out = Qty[i] \/ (d.swap[i].completed = 0 /\ d.swap[i].fabIn = 0)
      BY <2>2 DEF Even
    <3>3. d.swap[i].received = d.swap[i].out + d.swap[i].fabOut
      BY DEF Fit, Swapped
    <3>4. Even(d, i) /\ d.swap[i].completed + d.swap[i].received = 0 => Back(d, i) = 0
      BY <1>1, <3>1, <3>2, <3>3, Numbers
    <3>5. QED BY <1>1, <1>4, <2>2, <3>4, Numbers DEF Supply, DerivedAvailable
  <2>3. QED BY <2>1, <2>2
<1>5. CASE ~Galvanizes(d, i) /\ d.item[i].flow = "NAO"
  <2>1. d.swap[i].received = d.swap[i].out
    BY <1>5, Numbers DEF Fit, Swapped
  <2>2. QED BY <1>2, <1>3, <1>5, <2>1, Numbers DEF Supply, DerivedAvailable, AtLeastZero
<1>6. CASE ~Galvanizes(d, i) /\ d.item[i].flow = "INDEFINIDO" /\ ~FlowDefined(d, i)
  <2>1. ~d.item[i].produced /\ d.swap[i].completed = 0
    BY <1>6, Numbers DEF Fit, Swapped
  <2>2. QED BY <1>6, <2>1, Numbers DEF Supply, DerivedAvailable
<1>7. QED BY <1>4, <1>5, <1>6, FlowCases

LEMMA HookKeepsItem ==
  ASSUME NEW d \in Database, LinksNest(d), NEW i \in Items, Fit(d, i),
         NEW e \in Database, e.item = d.item, e.link = d.link, e.swap = d.swap,
         e.exp[i] = ReconciledRow(d, i)
  PROVE  Fit(e, i) /\ (Even(d, i) => Even(e, i))
<1> DEFINE a == e.exp[i].avail
           source == ExpeditionSource(d, i)
<1>1. e.exp[i].del = d.exp[i].del /\ e.exp[i].rem = d.exp[i].rem
  BY ReconciledColumns
<1>2. a = IF source = 0 THEN d.exp[i].avail ELSE MaxOf(source, d.exp[i].del + d.exp[i].rem)
  BY ReconciledColumns
<1>3. /\ e.item[i] = d.item[i] /\ e.swap[i] = d.swap[i]
      /\ Sent(e, i) = Sent(d, i) /\ Back(e, i) = Back(d, i)
  BY LinksDecide
<1>4. /\ Undone(e, i) = Undone(d, i) /\ Pipeline(e, i) = Pipeline(d, i)
      /\ (Galvanizes(e, i) <=> Galvanizes(d, i)) /\ (FlowDefined(e, i) <=> FlowDefined(d, i))
  BY <1>1, <1>3 DEF Undone, Pipeline, Galvanizes, FlowDefined
<1>5. Supply(e, i) = Supply(d, i)
  BY <1>3, <1>4 DEF Supply
<1>6. Swapped(e, i) /\ Piped(e, i)
  BY <1>3, <1>4 DEF Fit, Swapped, Piped
<1>7. a \in Nat /\ source \in Nat /\ DerivedAvailable(d, i) \in Nat
  BY DerivedType, Numbers
<1>8. source # 0 => source = DerivedAvailable(d, i)
  BY DEF ExpeditionSource
<1>9. d.swap[i].received = d.swap[i].out + d.swap[i].fabOut
  BY DEF Fit, Swapped
<1>10. Stocked(e, i)
  <2> HIDE DEF a, source
  <2>1. CASE source = 0
    BY <1>1, <1>2, <1>3, <1>4, <1>5, <2>1 DEF Fit, Stocked, a
  <2>2. CASE source # 0
    <3>1. source <= Supply(d, i)
      BY <1>8, <2>2, DerivedIsSupply
    <3>2. d.exp[i].del + d.exp[i].rem <= Supply(d, i) /\ Supply(d, i) \in Int
      <4>1. Supply(d, i) \in Int
        BY Numbers, LoadSums DEF Supply, Undone
      <4>2. QED BY <4>1, Numbers DEF Fit, Stocked
    <3>3. a <= Supply(d, i)
      BY <1>2, <1>7, <2>2, <3>1, <3>2, Numbers DEF MaxOf
    <3>4. d.exp[i].del + d.exp[i].rem <= a /\ source <= a
      BY <1>2, <1>7, <2>2, Numbers DEF MaxOf
    <3>5. ~(Galvanizes(d, i) /\ d.item[i].produced) => d.swap[i].out + d.swap[i].fabIn <= source
      <4>0. Back(d, i) \in Nat
        BY LoadSums
      <4>1. CASE Galvanizes(d, i) /\ d.item[i].flow = "SIM" /\ ~d.item[i].produced
        <5>1. d.swap[i].fabIn <= d.swap[i].fabOut + Back(d, i)
          BY <4>1 DEF Fit, Piped
        <5>2. source = Back(d, i) + d.swap[i].received
          BY <1>8, <2>2, <4>1 DEF DerivedAvailable
        <5>3. QED BY <1>9, <4>0, <5>1, <5>2, Numbers
      <4>2. CASE ~Galvanizes(d, i) /\ d.item[i].flow = "NAO"
        <5>1. d.swap[i].fabIn = 0 /\ d.swap[i].fabOut = 0
          BY <4>2 DEF Fit, Swapped
        <5>2. source = (IF d.item[i].produced THEN AtLeastZero(Qty[i] - d.swap[i].out) ELSE 0)
                         + d.swap[i].completed + d.swap[i].received
          BY <1>8, <2>2, <4>2 DEF DerivedAvailable
        <5>3. QED BY <1>9, <5>1, <5>2, Numbers DEF AtLeastZero
      <4>3. CASE ~Galvanizes(d, i) /\ d.item[i].flow = "INDEFINIDO"
        <5>1. d.swap[i].fabIn = 0 /\ d.swap[i].fabOut = 0
          BY <4>3 DEF Fit, Swapped
        <5>2. source = d.swap[i].received
          BY <1>8, <2>2, <4>3 DEF DerivedAvailable
        <5>3. QED BY <1>9, <5>1, <5>2, Numbers
      <4>4. QED BY <4>1, <4>2, <4>3, FlowCases
    <3>6. d.swap[i].given <= d.exp[i].rem /\ d.swap[i].out <= Qty[i] + Undone(d, i)
      BY DEF Fit, Stocked
    <3>7. ~(Galvanizes(d, i) /\ d.item[i].produced) => d.swap[i].out + d.swap[i].fabIn <= a
      BY <1>7, <3>4, <3>5, Numbers
    <3>8. QED BY <1>1, <1>3, <1>4, <1>5, <3>3, <3>4, <3>6, <3>7 DEF Stocked, a
  <2>3. QED BY <2>1, <2>2
<1>11. ASSUME Even(d, i) PROVE Even(e, i)
  <2>1. d.item[i].delivered => source = 0
    BY DEF ExpeditionSource
  <2> HIDE DEF a, source
  <2>2. d.item[i].delivered => a > 0
    BY <1>2, <1>11, <2>1 DEF Even
  <2>3. QED BY <1>1, <1>3, <1>11, <2>2 DEF Even, a
<1>12. QED BY <1>6, <1>10, <1>11 DEF Fit

\* An item whose row the hook brings up to date, or leaves as it is once the item
\* was delivered.
Ready(d, i) ==
  LET e == d.exp[i]
      source == DerivedAvailable(d, i) IN
  /\ d.item[i].delivered => e.sep + e.rem <= e.avail
  /\ ~d.item[i].delivered => /\ e.del + e.rem <= source /\ e.sep + e.rem <= source
                             /\ source = 0 => e.avail = 0

LEMMA OpenIsReady ==
  ASSUME NEW d \in Database, NEW i \in Items, Fit(d, i), Open(d, i)
  PROVE  Ready(d, i)
BY DEF Fit, Stocked, Open, Ready

LEMMA HookOpensItem ==
  ASSUME NEW d \in Database, NEW i \in Items, Ready(d, i),
         NEW e \in Database, e.item = d.item, e.link = d.link, e.swap = d.swap,
         e.exp[i] = ReconciledRow(d, i)
  PROVE  Open(e, i)
<1> DEFINE source == DerivedAvailable(d, i)
<1>0. CASE d.item[i].delivered
  <2>1. ExpeditionSource(d, i) = 0
    BY <1>0 DEF ExpeditionSource
  <2>2. e.exp[i] = d.exp[i]
    BY <2>1 DEF ReconciledRow
  <2>3. QED BY <1>0, <2>2 DEF Open, Ready
<1> SUFFICES ASSUME ~d.item[i].delivered PROVE Open(e, i)
  BY <1>0
<1>1. e.exp[i].sep = d.exp[i].sep /\ e.exp[i].rem = d.exp[i].rem
  BY ReconciledColumns
<1>2. e.exp[i].avail = IF source = 0 THEN d.exp[i].avail ELSE MaxOf(source, d.exp[i].del + d.exp[i].rem)
  BY ReconciledColumns DEF ExpeditionSource
<1>3. Back(e, i) = Back(d, i)
  BY LinksDecide
<1>4. DerivedAvailable(e, i) = source
  BY <1>3, SameDerived
<1>5. source \in Nat
  BY DerivedType
<1>6. /\ d.exp[i].del + d.exp[i].rem <= source /\ d.exp[i].sep + d.exp[i].rem <= source
      /\ source = 0 => d.exp[i].avail = 0
  BY DEF Ready
<1> HIDE DEF source
<1>7. e.exp[i].avail = source
  BY <1>2, <1>5, <1>6, Numbers DEF MaxOf
<1>8. QED BY <1>1, <1>4, <1>6, <1>7 DEF Open

LEMMA SameSums ==
  ASSUME NEW d, NEW e, e.swap = d.swap
  PROVE  Given(e) = Given(d) /\ Received(e) = Received(d)
BY DEF Given, Received

LEMMA HookKeeps ==
  ASSUME NEW d, NEW r, Drafted(d, r), NEW S \in SUBSET Items
  PROVE  /\ Drafted(EnsureExpeditionItems(d, S), r)
         /\ \A i \in Items : /\ i \in S /\ Ready(d, i) => Open(EnsureExpeditionItems(d, S), i)
                             /\ i \notin S /\ Open(d, i) => Open(EnsureExpeditionItems(d, S), i)
<1> DEFINE e == EnsureExpeditionItems(d, S)
<1>0. d \in Database /\ LinksNest(d)
  BY DEF Drafted
<1>1. e \in Database
  BY <1>0, HookTypes
<1>2. e.item = d.item /\ e.link = d.link /\ e.away = d.away /\ e.swap = d.swap
  BY <1>0, HookColumns
<1>3. \A i \in Items : e.exp[i] = IF i \in S THEN ReconciledRow(d, i) ELSE d.exp[i]
  <2>1. e.exp = [i \in Items |-> IF i \in S THEN ReconciledRow(d, i) ELSE d.exp[i]]
    BY <1>0, HookColumns
  <2> HIDE DEF e
  <2>2. QED BY <2>1
<1> HIDE DEF e
<1>4. LinksNest(e)
  BY <1>0, <1>2 DEF LinksNest
<1>5. Given(e) = Given(d) /\ Received(e) = Received(d)
  BY <1>2, SameSums
<1>6. ASSUME NEW i \in Items, i \notin S
      PROVE  (Fit(d, i) => Fit(e, i)) /\ (Even(d, i) => Even(e, i)) /\ (Open(d, i) => Open(e, i))
  <2>1. e.item[i] = d.item[i] /\ e.exp[i] = d.exp[i] /\ e.swap[i] = d.swap[i]
    BY <1>2, <1>3, <1>6
  <2>2. Sent(e, i) = Sent(d, i) /\ Back(e, i) = Back(d, i)
    BY <1>2, LinksDecide
  <2>3. /\ Undone(e, i) = Undone(d, i) /\ Pipeline(e, i) = Pipeline(d, i)
        /\ (Galvanizes(e, i) <=> Galvanizes(d, i)) /\ (FlowDefined(e, i) <=> FlowDefined(d, i))
    BY <2>1 DEF Undone, Pipeline, Galvanizes, FlowDefined
  <2>4. Supply(e, i) = Supply(d, i)
    BY <2>1, <2>2, <2>3 DEF Supply
  <2>5. Fit(d, i) => Fit(e, i)
    BY <2>1, <2>2, <2>3, <2>4 DEF Fit, Swapped, Stocked, Piped
  <2>6. Even(d, i) => Even(e, i)
    BY <2>1 DEF Even
  <2>7. DerivedAvailable(e, i) = DerivedAvailable(d, i)
    BY <2>1, <2>2, SameDerived
  <2>8. QED BY <2>1, <2>5, <2>6, <2>7 DEF Open
<1>7. ASSUME NEW i \in Items PROVE Fit(e, i) /\ (Even(d, i) => Even(e, i))
  <2>1. Fit(d, i)
    BY DEF Drafted
  <2>2. CASE i \in S
    BY <1>0, <1>1, <1>2, <1>3, <2>1, <2>2, HookKeepsItem
  <2>3. QED BY <1>6, <2>1, <2>2
<1>8. Drafted(e, r)
  BY <1>1, <1>4, <1>5, <1>7 DEF Drafted
<1>9. ASSUME NEW i \in Items, i \in S, Ready(d, i) PROVE Open(e, i)
  BY <1>0, <1>1, <1>2, <1>3, <1>9, HookOpensItem
<1>10. QED BY <1>6, <1>8, <1>9 DEF e

\* What the hook looks at: items that differ from the committed ones.
Changed(d, b) ==
  {j \in Items : \/ d.item[j] # b.item[j] \/ d.exp[j] # b.exp[j] \/ d.swap[j] # b.swap[j]
                 \/ \E l \in Loads : d.link[l][j] # b.link[l][j] /\ d.link[l][j].sent > 0}
Reconciled(d, b) == EnsureExpeditionItems(d, ItemsOf({Owner[i] : i \in Changed(d, b)}))

LEMMA CommitIsReconciled == ASSUME NEW d, Commit(d) PROVE db' = Reconciled(d, db)
BY DEF Commit, Reconciled, Changed

LEMMA ChangedAreReconciled ==
  ASSUME NEW d, NEW b
  PROVE  /\ ItemsOf({Owner[i] : i \in Changed(d, b)}) \in SUBSET Items
         /\ Changed(d, b) \subseteq ItemsOf({Owner[i] : i \in Changed(d, b)})
BY DEF ItemsOf, Changed

\* A commit keeps what its transaction kept, and brings what it changed up to date.
LEMMA CommitKeeps ==
  ASSUME NEW d, NEW r, Drafted(d, r), NEW b, \A i \in Items : Ready(d, i),
         \A i \in Items : i \notin Changed(d, b) => Open(d, i)
  PROVE  Drafted(Reconciled(d, b), r) /\ \A i \in Items : Open(Reconciled(d, b), i)
<1> DEFINE S == ItemsOf({Owner[i] : i \in Changed(d, b)})
<1>1. S \in SUBSET Items /\ Changed(d, b) \subseteq S
  BY ChangedAreReconciled
<1>2. Reconciled(d, b) = EnsureExpeditionItems(d, S)
  BY DEF Reconciled
<1> HIDE DEF S
<1>3. QED BY <1>1, <1>2, HookKeeps

-----------------------------------------------------------------------------
\* Transactions that change one item.
LEMMA SameRow ==
  ASSUME NEW d, NEW e, NEW i, e.item[i] = d.item[i], e.exp[i] = d.exp[i], e.swap[i] = d.swap[i],
         Sent(e, i) = Sent(d, i), Back(e, i) = Back(d, i)
  PROVE  /\ Fit(d, i) => Fit(e, i)
         /\ Even(d, i) => Even(e, i)
         /\ Open(d, i) => Open(e, i)
<1>1. /\ Undone(e, i) = Undone(d, i) /\ Pipeline(e, i) = Pipeline(d, i)
      /\ (Galvanizes(e, i) <=> Galvanizes(d, i)) /\ (FlowDefined(e, i) <=> FlowDefined(d, i))
  BY DEF Undone, Pipeline, Galvanizes, FlowDefined
<1>2. Supply(e, i) = Supply(d, i)
  BY <1>1 DEF Supply
<1>3. Fit(d, i) => Fit(e, i)
  BY <1>1, <1>2 DEF Fit, Swapped, Stocked, Piped
<1>4. Even(d, i) => Even(e, i)
  BY DEF Even
<1>5. DerivedAvailable(e, i) = DerivedAvailable(d, i)
  BY SameDerived
<1>6. QED BY <1>3, <1>4, <1>5 DEF Open

LEMMA OneItemChanges ==
  ASSUME NEW c, \A j \in Items : Open(c, j),
         NEW b, NEW r, Drafted(b, r), \A j \in Items : Open(b, j), b.link = c.link,
         NEW i \in Items,
         NEW d \in Database, d.link = b.link, d.away = b.away,
         \A j \in Items : j # i => /\ d.item[j] = b.item[j] /\ d.exp[j] = b.exp[j]
                                   /\ d.swap[j] = b.swap[j],
         d.swap[i].given = b.swap[i].given, d.swap[i].received = b.swap[i].received,
         Fit(d, i), Ready(d, i), NEW s, r \subseteq s, i \notin s => Even(d, i)
  PROVE  Drafted(Reconciled(d, c), s) /\ \A j \in Items : Open(Reconciled(d, c), j)
<1>0. b \in Database
  BY DEF Drafted
<1>1. \A j \in Items : /\ Sent(d, j) = Sent(b, j) /\ Back(d, j) = Back(b, j)
                       /\ Sent(d, j) = Sent(c, j) /\ Back(d, j) = Back(c, j)
  BY DEF Sent, Back
<1>2. ASSUME NEW j \in Items, j # i
      PROVE  Fit(d, j) /\ (Even(b, j) => Even(d, j)) /\ Open(d, j) /\ Ready(d, j)
  <2>1. Fit(b, j)
    BY DEF Drafted
  <2>2. Fit(d, j) /\ (Even(b, j) => Even(d, j)) /\ Open(d, j)
    BY <1>1, <1>2, <2>1, SameRow
  <2>3. QED BY <2>2, OpenIsReady
<1>3. LinksNest(d)
  BY DEF Drafted, LinksNest
<1>4. \A j \in Items : d.swap[j].given = b.swap[j].given /\ d.swap[j].received = b.swap[j].received
  OBVIOUS
<1>5. Given(d) = Given(b) /\ Received(d) = Received(b)
  BY <1>4 DEF Given, Received
<1>6. Drafted(d, s)
  <2>1. \A j \in Items : Fit(d, j)
    BY <1>2
  <2>2. \A j \in Items \ s : Even(d, j)
    BY <1>2 DEF Drafted
  <2>3. QED BY <1>3, <1>5, <2>1, <2>2 DEF Drafted
<1>7. \A j \in Items : Ready(d, j)
  BY <1>2
<1>8. \A j \in Items : j \notin Changed(d, c) => Open(d, j)
  <2>1. i \notin Changed(d, c) => Open(d, i)
    <3>1. i \notin Changed(d, c) => d.item[i] = c.item[i] /\ d.exp[i] = c.exp[i] /\ d.swap[i] = c.swap[i]
      BY DEF Changed
    <3>2. QED BY <1>1, <3>1, SameRow
  <2>2. QED BY <1>2, <2>1
<1>9. QED BY <1>6, <1>7, <1>8, CommitKeeps

LEMMA ReadyIfStocked ==
  ASSUME NEW d \in Database, NEW i \in Items, Fit(d, i),
         ~d.item[i].delivered => d.exp[i].avail <= DerivedAvailable(d, i),
         d.exp[i].sep + d.exp[i].rem <= d.exp[i].avail
  PROVE  Ready(d, i)
<1>1. d.exp[i].del + d.exp[i].rem <= d.exp[i].avail
  BY DEF Fit, Stocked
<1>2. DerivedAvailable(d, i) \in Nat
  BY DerivedType
<1>3. QED BY <1>1, <1>2, Numbers DEF Ready

LEMMA FlowIsDefined ==
  ASSUME PieceInv, NEW i \in Items, NEW flow \in {"SIM", "NAO"}, DefineFlow(i, flow)
  PROVE  Drafted(db', returned) /\ \A j \in Items : Open(db', j)
<1> DEFINE d == [db EXCEPT !.item[i].flow = flow]
<1>1. db \in Database /\ LinksNest(db) /\ Fit(db, i) /\ Open(db, i) /\ Drafted(db, returned)
  BY DEF PieceInv, Drafted
<1>2. db' = Reconciled(d, db) /\ ~FlowDefined(db, i) /\ ~db.item[i].delivered
  BY CommitIsReconciled DEF DefineFlow
<1>3. d \in Database
  <2> DEFINE v == [db.item[i] EXCEPT !.flow = flow]
  <2>1. v \in Item
    BY <1>1, ItemRows DEF Item, Flows
  <2>2. d = [db EXCEPT !.item[i] = v]
    OBVIOUS
  <2> HIDE DEF v
  <2>3. QED BY <1>1, <2>1, <2>2 DEF Database
<1>4. /\ d.link = db.link /\ d.away = db.away /\ d.exp = db.exp /\ d.swap = db.swap
      /\ d.item[i].flow = flow /\ d.item[i].produced = db.item[i].produced
      /\ d.item[i].delivered = db.item[i].delivered
      /\ \A j \in Items : j # i => d.item[j] = db.item[j]
  BY <1>1 DEF Database, Item
<1> HIDE DEF d
<1>5. /\ Sent(d, i) = Sent(db, i) /\ Back(d, i) = Back(db, i)
  BY <1>4 DEF Sent, Back
<1>6. ~Galvanizes(db, i) /\ db.item[i].flow = "INDEFINIDO"
  BY <1>1, <1>2, FlowCases
<1>7. /\ ~db.item[i].produced /\ db.swap[i].given = 0
      /\ db.swap[i].received = db.swap[i].out + db.swap[i].fabOut
      /\ db.swap[i].given = db.swap[i].pending + db.swap[i].completed + db.swap[i].fabIn
      /\ db.swap[i].fabIn = 0 /\ db.swap[i].fabOut = 0 /\ Sent(db, i) = 0
  BY <1>1, <1>2, <1>6 DEF Fit, Swapped
<1>8. /\ db.swap[i].pending = 0 /\ db.swap[i].completed = 0 /\ Back(db, i) = 0
  BY <1>1, <1>7, Numbers, LoadSums
<1>9. /\ db.exp[i].avail = db.swap[i].received /\ db.exp[i].sep + db.exp[i].rem <= db.exp[i].avail
  BY <1>1, <1>2, <1>6 DEF Open, DerivedAvailable
<1>10. Swapped(d, i) /\ Piped(d, i)
  BY <1>1, <1>4, <1>5, <1>7, <1>8, Numbers DEF Swapped, Piped, Galvanizes, FlowDefined
<1>11. Stocked(d, i)
  <2>1. Supply(d, i) = db.swap[i].received
    BY <1>1, <1>4, <1>5, <1>7, <1>8, Numbers DEF Supply, Galvanizes
  <2>2. Undone(d, i) = Undone(db, i)
    BY <1>4 DEF Undone
  <2>3. Stocked(db, i)
    BY <1>1 DEF Fit
  <2>4. QED BY <1>1, <1>4, <1>6, <1>7, <1>9, <2>1, <2>2, <2>3, Numbers DEF Stocked
<1>12. Fit(d, i)
  BY <1>10, <1>11 DEF Fit
<1>13. DerivedAvailable(d, i) = db.swap[i].received
  BY <1>1, <1>4, <1>5, <1>7, <1>8, Numbers DEF DerivedAvailable, Galvanizes
<1>14. Ready(d, i)
  BY <1>1, <1>3, <1>4, <1>9, <1>12, <1>13, Numbers, ReadyIfStocked
<1>15. i \notin returned => Even(d, i)
  <2>1. i \notin returned => Even(db, i)
    BY <1>1 DEF Drafted
  <2>2. QED BY <1>2, <1>4, <1>7, <1>8, <2>1 DEF Even
<1>16. \A j \in Items : Open(db, j)
  BY DEF PieceInv
<1>17. QED BY <1>1, <1>2, <1>3, <1>4, <1>12, <1>14, <1>15, <1>16, OneItemChanges

\* The columns of a completed item.
LEMMA CompletedColumns ==
  ASSUME NEW b \in Database, NEW i \in Items
  PROVE  LET d == Completed(b, i) IN
         /\ d \in Database
         /\ d.link = b.link /\ d.away = b.away
         /\ \A j \in Items : j # i => /\ d.item[j] = b.item[j] /\ d.exp[j] = b.exp[j]
                                      /\ d.swap[j] = b.swap[j]
         /\ d.item[i].flow = b.item[i].flow /\ d.item[i].delivered = b.item[i].delivered
         /\ d.item[i].produced = (b.item[i].produced \/ ReallocatableProduction(b, i) > 0)
         /\ d.exp[i].avail = b.exp[i].avail + (IF Galvanizes(b, i) THEN 0 ELSE b.swap[i].pending)
         /\ d.exp[i].sep = b.exp[i].sep /\ d.exp[i].del = b.exp[i].del /\ d.exp[i].rem = b.exp[i].rem
         /\ d.swap[i] = [b.swap[i] EXCEPT !.pending = 0, !.completed = @ + b.swap[i].pending]
<1> DEFINE d == Completed(b, i)
           x == b.swap[i]
           v == [b.item[i] EXCEPT !.produced = @ \/ ReallocatableProduction(b, i) > 0,
                                  !.galvanized = @ /\ ~(Galvanizes(b, i) /\ x.pending > 0)]
           r == [b.exp[i] EXCEPT !.avail = IF Galvanizes(b, i) THEN @ ELSE @ + x.pending]
           w == [x EXCEPT !.pending = 0, !.completed = @ + x.pending]
<1>1. v \in Item /\ v.flow = b.item[i].flow /\ v.delivered = b.item[i].delivered
      /\ v.produced = (b.item[i].produced \/ ReallocatableProduction(b, i) > 0)
  BY ItemRows DEF Item
<1>2. r \in ExpeditionItem /\ r.sep = b.exp[i].sep /\ r.del = b.exp[i].del /\ r.rem = b.exp[i].rem
      /\ r.avail = b.exp[i].avail + (IF Galvanizes(b, i) THEN 0 ELSE x.pending)
  BY ItemRows DEF ExpeditionItem
<1>3. w \in Exchanged
  <2>1. x \in Exchanged /\ x.completed + x.pending \in Nat
    BY ItemRows, Numbers
  <2>2. QED BY <2>1 DEF Exchanged
<1>4. /\ d.item = [b.item EXCEPT ![i] = v] /\ d.exp = [b.exp EXCEPT ![i] = r]
      /\ d.swap = [b.swap EXCEPT ![i] = w]
      /\ d = [b EXCEPT !.item = d.item, !.exp = d.exp, !.swap = d.swap]
  <2> DEFINE made == b.item[i].produced \/ ReallocatableProduction(b, i) > 0
             still == b.item[i].galvanized /\ ~(Galvanizes(b, i) /\ x.pending > 0)
             there == IF Galvanizes(b, i) THEN b.exp[i].avail ELSE b.exp[i].avail + x.pending
             made2 == x.completed + x.pending
  <2>1. d = [b EXCEPT !.item[i].produced = made, !.item[i].galvanized = still,
                      !.exp[i].avail = there, !.swap[i].pending = 0, !.swap[i].completed = made2]
    BY DEF Completed
  <2>2. /\ v = [b.item[i] EXCEPT !.produced = made, !.galvanized = still]
        /\ r = [b.exp[i] EXCEPT !.avail = there]
        /\ w = [x EXCEPT !.pending = 0, !.completed = made2]
    OBVIOUS
  <2>3. x = b.swap[i]
    OBVIOUS
  <2> HIDE DEF d, v, r, w, x, made, still, there, made2
  <2>4. /\ d.item = [b.item EXCEPT ![i].produced = made, ![i].galvanized = still]
        /\ d.exp = [b.exp EXCEPT ![i].avail = there]
        /\ d.swap = [b.swap EXCEPT ![i].pending = 0, ![i].completed = made2]
        /\ d = [b EXCEPT !.item = d.item, !.exp = d.exp, !.swap = d.swap]
    BY ZenonT(60), <2>1 DEF Database
  <2>5. d.item = [b.item EXCEPT ![i] = v] /\ d.exp = [b.exp EXCEPT ![i] = r]
    BY <2>2, <2>4 DEF Database
  <2>6. d.swap = [b.swap EXCEPT ![i] = w]
    BY <2>2, <2>3, <2>4 DEF Database
  <2>7. QED BY <2>4, <2>5, <2>6
<1> HIDE DEF d, v, r, w
<1>5. /\ d \in Database /\ d.link = b.link /\ d.away = b.away
      /\ d.item[i] = v /\ d.exp[i] = r /\ d.swap[i] = w
      /\ \A j \in Items : j # i => /\ d.item[j] = b.item[j] /\ d.exp[j] = b.exp[j]
                                   /\ d.swap[j] = b.swap[j]
  <2>1. d.item \in [Items -> Item] /\ d.exp \in [Items -> ExpeditionItem] /\ d.swap \in [Items -> Exchanged]
    BY <1>1, <1>2, <1>3, <1>4 DEF Database
  <2>2. d \in Database /\ d.link = b.link /\ d.away = b.away
    BY <1>4, <2>1 DEF Database
  <2>3. QED BY <1>4, <2>2 DEF Database
<1>6. QED BY <1>1, <1>2, <1>5 DEF w, d

\* What an item still has to produce: what was ordered and not made for it, with
\* what was returned, as far as Expedition does not have it.
Missing(d, i) == Qty[i] + Undone(d, i) + d.swap[i].fabIn - d.exp[i].avail

LEMMA ReallocatableIsMissing ==
  ASSUME NEW d \in Database, NEW i \in Items, Fit(d, i)
  PROVE  /\ Missing(d, i) \in Int
         /\ ReallocatableProduction(d, i) \in Nat
         /\ ReallocatableProduction(d, i) <= AtLeastZero(Missing(d, i))
         /\ (~d.item[i].produced \/ d.exp[i].avail > 0) =>
              ReallocatableProduction(d, i) = AtLeastZero(Missing(d, i))
<1> DEFINE e == d.exp[i]
           x == d.swap[i]
           p == d.item[i].produced
           raw == Qty[i] - e.avail + e.rem + x.out - x.pending - x.completed
           native == NativePending(d, i)
<1>1. /\ e.avail \in Nat /\ e.rem \in Nat /\ x.out \in Nat /\ x.pending \in Nat
      /\ x.completed \in Nat /\ x.fabIn \in Nat /\ x.given \in Nat /\ Qty[i] \in Nat /\ Qty[i] > 0
  BY Numbers
<1>2. x.given = x.pending + x.completed + x.fabIn /\ x.given <= e.rem
  BY DEF Fit, Swapped, Stocked
<1>3. ~p => x.out + x.fabIn <= e.avail
  BY DEF Fit, Stocked
<1>4. native = IF e.avail > 0 \/ e.rem > 0 THEN AtLeastZero(raw) ELSE IF p THEN 0 ELSE Qty[i]
  BY DEF NativePending
<1>5. ReallocatableProduction(d, i) = AtLeastZero(native - x.out)
  BY DEF ReallocatableProduction
<1>6. Missing(d, i) = Qty[i] + (e.rem - x.given) + x.fabIn - e.avail
  BY DEF Missing, Undone
<1> HIDE DEF e, x, native, p
<1>7. Missing(d, i) = raw - x.out /\ raw \in Int
  BY <1>1, <1>2, <1>6
<1> HIDE DEF raw
<1>8. CASE e.avail > 0 \/ e.rem > 0
  <2>1. AtLeastZero(AtLeastZero(raw) - x.out) = AtLeastZero(raw - x.out)
    BY <1>1, <1>7 DEF AtLeastZero
  <2>2. QED BY <1>1, <1>4, <1>5, <1>7, <1>8, <2>1 DEF AtLeastZero
<1>9. CASE ~(e.avail > 0 \/ e.rem > 0)
  <2>1. e.avail = 0 /\ e.rem = 0 /\ x.given = 0 /\ x.fabIn = 0 /\ x.pending = 0 /\ x.completed = 0
    <3>1. e.avail = 0 /\ e.rem = 0
      BY <1>1, <1>9
    <3>2. x.given = 0
      BY <1>1, <1>2, <3>1
    <3>3. \A k, l, m \in Nat : 0 = k + l + m => k = 0 /\ l = 0 /\ m = 0
      OBVIOUS
    <3>4. 0 = x.pending + x.completed + x.fabIn
      BY <1>2, <3>2
    <3>5. QED BY <1>1, <3>1, <3>2, <3>3, <3>4
  <2>2. Missing(d, i) = Qty[i]
    BY <1>1, <1>6, <2>1
  <2>3. CASE p
    <3>1. ReallocatableProduction(d, i) = 0
      BY <1>1, <1>4, <1>5, <1>9, <2>3 DEF AtLeastZero
    <3>2. QED BY <1>1, <2>1, <2>2, <2>3, <3>1 DEF AtLeastZero, e, p
  <2>4. CASE ~p
    <3>1. x.out = 0
      BY <1>1, <1>3, <2>1, <2>4
    <3>2. ReallocatableProduction(d, i) = Qty[i]
      BY <1>1, <1>4, <1>5, <1>9, <2>4, <3>1 DEF AtLeastZero
    <3>3. QED BY <1>1, <2>2, <3>2 DEF AtLeastZero
  <2>5. QED BY <2>3, <2>4
<1>10. QED BY <1>8, <1>9

LEMMA ProductionIsCompleted ==
  ASSUME PieceInv, NEW i \in Items, CompleteProduction(i)
  PROVE  Drafted(db', returned) /\ \A j \in Items : Open(db', j)
<1> DEFINE d == Completed(db, i)
           x == db.swap[i]
           e == db.exp[i]
           p == db.item[i].produced
           q == d.item[i].produced
           more == x.pending
<1>1. db \in Database /\ LinksNest(db) /\ Fit(db, i) /\ Open(db, i) /\ Drafted(db, returned)
  BY DEF PieceInv, Drafted
<1>2. db' = Reconciled(d, db) /\ FlowDefined(db, i)
  BY CommitIsReconciled DEF CompleteProduction
<1>3. /\ d \in Database /\ d.link = db.link /\ d.away = db.away
      /\ \A j \in Items : j # i => /\ d.item[j] = db.item[j] /\ d.exp[j] = db.exp[j]
                                   /\ d.swap[j] = db.swap[j]
  BY <1>1, CompletedColumns
<1>4. /\ d.item[i].flow = db.item[i].flow /\ d.item[i].delivered = db.item[i].delivered
      /\ q = (p \/ ReallocatableProduction(db, i) > 0)
      /\ d.exp[i].avail = e.avail + (IF Galvanizes(db, i) THEN 0 ELSE more)
      /\ d.exp[i].sep = e.sep /\ d.exp[i].del = e.del /\ d.exp[i].rem = e.rem
  BY <1>1, CompletedColumns
<1>5. /\ d.swap[i].pending = 0 /\ d.swap[i].completed = x.completed + more
      /\ d.swap[i].out = x.out /\ d.swap[i].fabIn = x.fabIn /\ d.swap[i].fabOut = x.fabOut
      /\ d.swap[i].given = x.given /\ d.swap[i].received = x.received
  <2>1. d.swap[i] = [x EXCEPT !.pending = 0, !.completed = @ + x.pending] /\ x \in Exchanged
    BY <1>1, CompletedColumns, ItemRows
  <2> HIDE DEF d
  <2>2. QED BY <2>1 DEF Exchanged
<1> HIDE DEF d
<1>6. Sent(d, i) = Sent(db, i) /\ Back(d, i) = Back(db, i)
  BY <1>3 DEF Sent, Back
<1>7. /\ (Galvanizes(d, i) <=> Galvanizes(db, i)) /\ FlowDefined(d, i)
      /\ Undone(d, i) = Undone(db, i)
  BY <1>2, <1>4, <1>5 DEF Galvanizes, FlowDefined, Undone
<1>8. /\ e.avail \in Nat /\ e.sep \in Nat /\ e.del \in Nat /\ e.rem \in Nat
      /\ x.out \in Nat /\ more \in Nat /\ x.completed \in Nat /\ x.fabIn \in Nat /\ x.fabOut \in Nat
      /\ x.given \in Nat /\ x.received \in Nat /\ Qty[i] \in Nat /\ Qty[i] > 0
  BY <1>1, Numbers
<1>9. /\ Back(db, i) \in Nat /\ Sent(db, i) \in Nat /\ Back(db, i) <= Sent(db, i)
      /\ Undone(db, i) = e.rem - x.given
  BY <1>1, LoadSums DEF Undone
<1>10. /\ x.received = x.out + x.fabOut /\ x.given = more + x.completed + x.fabIn
       /\ ~Galvanizes(db, i) => x.fabIn = 0 /\ x.fabOut = 0 /\ Sent(db, i) = 0
  BY <1>1 DEF Fit, Swapped
<1>11. /\ e.del + e.rem <= e.avail /\ x.given <= e.rem
       /\ x.out <= Qty[i] + Undone(db, i)
       /\ ~(Galvanizes(db, i) /\ p) => x.out + x.fabIn <= e.avail
       /\ e.avail <= Supply(db, i)
  BY <1>1 DEF Fit, Stocked
<1> HIDE DEF x, e, p, q, more
<1>12. Swapped(d, i)
  BY <1>4, <1>5, <1>6, <1>7, <1>8, <1>10 DEF Swapped
<1>13. Stocked(d, i)
  <2>0. p => q
    BY <1>4
  <2>1. CASE Galvanizes(db, i)
    <3>1. Supply(d, i) = Supply(db, i)
      BY <1>5, <1>6, <1>7, <2>1 DEF Supply, x
    <3>2. QED BY <1>4, <1>5, <1>7, <1>8, <1>11, <2>0, <2>1, <3>1 DEF Stocked, q
  <2>2. CASE ~Galvanizes(db, i)
    <3>1. Supply(db, i) = x.completed + (IF p THEN Qty[i] + Undone(db, i) ELSE x.received)
      BY <2>2 DEF Supply, x, p
    <3>2. Supply(d, i) = x.completed + more + (IF q THEN Qty[i] + Undone(db, i) ELSE x.received)
      BY <1>5, <1>7, <2>2 DEF Supply, q
    <3>3. e.avail + more <= Supply(d, i)
      <4>1. e.avail <= x.completed + (IF p THEN Qty[i] + Undone(db, i) ELSE x.received)
        BY <1>11, <3>1
      <4>2. x.received <= Qty[i] + Undone(db, i) /\ Undone(db, i) \in Int
        BY <1>8, <1>9, <1>10, <1>11, <2>2
      <4>3. QED BY <1>8, <2>0, <3>2, <4>1, <4>2
    <3>4. d.exp[i].avail = e.avail + more
      BY <1>4, <2>2
    <3>5. QED BY <1>4, <1>5, <1>7, <1>8, <1>11, <2>2, <3>3, <3>4 DEF Stocked
  <2>3. QED BY <2>1, <2>2
<1>14. Piped(d, i)
  <2> SUFFICES ASSUME Galvanizes(db, i) PROVE Piped(d, i)
    BY <1>7 DEF Piped
  <2>1. IF p THEN Sent(db, i) <= Pipeline(db, i) + Undone(db, i)
        ELSE Sent(db, i) + x.fabOut <= x.completed + x.fabIn /\ x.fabIn <= x.fabOut + Back(db, i)
    BY <1>1 DEF Fit, Piped, p, x
  <2>2. /\ Pipeline(db, i) = Qty[i] - x.out + x.completed + x.fabIn - x.fabOut
        /\ Pipeline(d, i) = Qty[i] - x.out + (x.completed + more) + x.fabIn - x.fabOut
    BY <1>5 DEF Pipeline, x
  <2>3. p => q
    BY <1>4
  <2>4. IF q THEN Sent(db, i) <= Pipeline(d, i) + Undone(db, i)
        ELSE Sent(db, i) + x.fabOut <= x.completed + more + x.fabIn /\ x.fabIn <= x.fabOut + Back(db, i)
    BY <1>8, <1>9, <1>11, <2>1, <2>2, <2>3
  <2>5. QED BY <1>5, <1>6, <1>7, <2>4 DEF Piped, q
<1>15. Fit(d, i)
  BY <1>12, <1>13, <1>14 DEF Fit
<1>16. Ready(d, i)
  <2>0. d.exp[i].sep + d.exp[i].rem <= d.exp[i].avail
    <3>1. e.sep + e.rem <= e.avail
      BY <1>1 DEF Open, e
    <3>2. QED BY <1>4, <1>8, <3>1
  <2>1. ASSUME ~d.item[i].delivered
        PROVE  d.exp[i].avail <= DerivedAvailable(d, i)
    <3>1. e.avail = DerivedAvailable(db, i) /\ e.sep + e.rem <= e.avail
      BY <1>1, <1>4, <2>1 DEF Open, e
    <3>2. p => q
      BY <1>4
    <3>3. CASE Galvanizes(db, i)
      <4>0. db.item[i].flow = "SIM" /\ d.item[i].flow = "SIM"
        BY <1>1, <1>4, <3>3, FlowCases
      <4>1. /\ DerivedAvailable(db, i)
                 = IF p \/ x.completed + x.received > 0 THEN Back(db, i) + x.received ELSE 0
            /\ DerivedAvailable(d, i)
                 = IF q \/ x.completed + more + x.received > 0 THEN Back(db, i) + x.received ELSE 0
        BY <1>5, <1>6, <1>7, <3>3, <4>0 DEF DerivedAvailable, p, q, x
      <4>2. DerivedAvailable(db, i) <= DerivedAvailable(d, i)
        BY <1>8, <1>9, <3>2, <4>1
      <4>3. QED BY <1>4, <1>8, <3>1, <3>3, <4>2
    <3>4. CASE ~Galvanizes(db, i)
      <4>1. db.item[i].flow = "NAO" /\ d.item[i].flow = "NAO"
        BY <1>1, <1>2, <1>4, <3>4, FlowCases
      <4>2. /\ DerivedAvailable(db, i)
                 = (IF p THEN AtLeastZero(Qty[i] - x.out) ELSE 0) + x.completed + x.received
            /\ DerivedAvailable(d, i)
                 = (IF q THEN AtLeastZero(Qty[i] - x.out) ELSE 0) + (x.completed + more) + x.received
        BY <1>5, <1>7, <3>4, <4>1 DEF DerivedAvailable, p, q, x
      <4>3. DerivedAvailable(db, i) + more <= DerivedAvailable(d, i)
        BY <1>8, <3>2, <4>2 DEF AtLeastZero
      <4>4. QED BY <1>4, <1>8, <3>1, <3>4, <4>3
    <3>5. QED BY <3>3, <3>4
  <2>2. QED BY <1>3, <1>15, <2>0, <2>1, ReadyIfStocked
<1>17. i \notin returned => Even(d, i)
  <2> SUFFICES ASSUME i \notin returned PROVE Even(d, i)
    OBVIOUS
  <2>1. Even(db, i)
    BY <1>1 DEF Drafted
  <2>2. /\ e.rem = x.given /\ (db.item[i].delivered => e.avail > 0)
        /\ ~p => x.out = Qty[i] \/ (x.completed = 0 /\ x.fabIn = 0)
    BY <2>1 DEF Even, e, p, x
  <2>3. ASSUME ~q, x.out # Qty[i] PROVE more = 0 /\ x.completed = 0 /\ x.fabIn = 0
    <3>1. ~p /\ ~(ReallocatableProduction(db, i) > 0)
      BY <1>4, <2>3
    <3>2. x.completed = 0 /\ x.fabIn = 0 /\ Undone(db, i) = 0
      BY <1>8, <1>9, <2>2, <2>3, <3>1
    <3>3. Missing(db, i) = Qty[i] - e.avail
      BY <1>8, <3>2 DEF Missing, e, x
    <3>4. ReallocatableProduction(db, i) = AtLeastZero(Missing(db, i)) /\ ReallocatableProduction(db, i) \in Nat
      BY <1>1, <3>1, ReallocatableIsMissing DEF p
    <3>5. Qty[i] <= e.avail
      BY <1>8, <3>1, <3>3, <3>4 DEF AtLeastZero
    <3>6. Supply(db, i) <= x.out
      <4>1. CASE Galvanizes(db, i)
        <5>1. Sent(db, i) + x.fabOut <= x.completed + x.fabIn
          BY <1>1, <3>1, <4>1 DEF Fit, Piped, p, x
        <5>2. Supply(db, i) = Back(db, i) + x.received
          BY <4>1 DEF Supply, x
        <5>3. QED BY <1>8, <1>9, <1>10, <3>2, <5>1, <5>2
      <4>2. CASE ~Galvanizes(db, i)
        <5>1. Supply(db, i) = x.completed + x.received
          BY <3>1, <4>2 DEF Supply, p, x
        <5>2. QED BY <1>8, <1>10, <3>2, <4>2, <5>1
      <4>3. QED BY <4>1, <4>2
    <3>7. Supply(db, i) \in Int
      BY <1>8, <1>9 DEF Supply, x, p
    <3>8. Qty[i] <= x.out /\ x.out <= Qty[i]
      BY <1>8, <1>11, <3>2, <3>5, <3>6, <3>7
    <3>9. QED BY <1>8, <2>3, <3>8
  <2>4. d.item[i].delivered => d.exp[i].avail > 0
    BY <1>4, <1>8, <2>2
  <2>5. QED BY <1>4, <1>5, <1>8, <2>2, <2>3, <2>4 DEF Even, q
<1>18. \A j \in Items : Open(db, j)
  BY DEF PieceInv
<1>19. d.swap[i].given = db.swap[i].given /\ d.swap[i].received = db.swap[i].received
  BY <1>5 DEF x
<1>20. QED BY <1>1, <1>2, <1>3, <1>15, <1>16, <1>17, <1>18, <1>19, OneItemChanges

-----------------------------------------------------------------------------
\* The handlers of Expedition: they work on the refreshed row of an item.
LEMMA RefreshedKeeps ==
  ASSUME PieceInv, NEW i \in Items
  PROVE  LET b == Refreshed(i) IN
         /\ Drafted(b, returned) /\ \A j \in Items : Open(b, j)
         /\ b.item = db.item /\ b.link = db.link
<1> DEFINE S == ItemsOf({Owner[i]})
<1>1. S \in SUBSET Items
  BY DEF ItemsOf
<1>2. Drafted(db, returned) /\ \A j \in Items : Open(db, j)
  BY DEF PieceInv
<1>3. db \in Database
  BY <1>2 DEF Drafted
<1>4. \A j \in Items : Ready(db, j)
  BY <1>2, <1>3, OpenIsReady DEF Drafted
<1>5. Refreshed(i) = EnsureExpeditionItems(db, S)
  BY DEF Refreshed
<1> HIDE DEF S
<1>6. Drafted(EnsureExpeditionItems(db, S), returned)
  BY <1>1, <1>2, HookKeeps
<1>7. \A j \in Items : Open(EnsureExpeditionItems(db, S), j)
  BY <1>1, <1>2, <1>4, HookKeeps
<1>8. /\ EnsureExpeditionItems(db, S).item = db.item
      /\ EnsureExpeditionItems(db, S).link = db.link
  BY <1>1, <1>3, HookColumns
<1>9. QED BY <1>5, <1>6, <1>7, <1>8

WithRow(b, i, v, r) == [b EXCEPT !.item[i] = v, !.exp[i] = r]

LEMMA RowColumns ==
  \A b \in Database, i \in Items, v \in Item, r \in ExpeditionItem :
         LET d == WithRow(b, i, v, r) IN
         /\ d \in Database /\ d.link = b.link /\ d.away = b.away /\ d.swap = b.swap
         /\ d.item[i] = v /\ d.exp[i] = r
         /\ \A j \in Items : j # i => d.item[j] = b.item[j] /\ d.exp[j] = b.exp[j]
<1> TAKE b \in Database, i \in Items, v \in Item, r \in ExpeditionItem
<1> DEFINE d == WithRow(b, i, v, r)
<1>1. /\ d.item = [b.item EXCEPT ![i] = v] /\ d.exp = [b.exp EXCEPT ![i] = r]
      /\ d.link = b.link /\ d.away = b.away /\ d.swap = b.swap
      /\ d = [b EXCEPT !.item = d.item, !.exp = d.exp]
  BY DEF Database, WithRow
<1> HIDE DEF d
<1>2. d.item \in [Items -> Item] /\ d.exp \in [Items -> ExpeditionItem]
  BY <1>1 DEF Database
<1>3. d \in Database
  BY <1>1, <1>2 DEF Database
<1>4. QED BY <1>1, <1>3 DEF Database, d

\* Of what is there, pieces are separated, delivered or taken back.
LEMMA ExpeditionKeeps ==
  ASSUME PieceInv, NEW i \in Items,
         NEW v \in Item, db.item[i].delivered => v.delivered, v.flow = db.item[i].flow, v.produced = db.item[i].produced,
         NEW r \in ExpeditionItem,
         r.avail = Refreshed(i).exp[i].avail, Refreshed(i).exp[i].rem <= r.rem,
         r.del + r.rem <= r.avail, r.sep + r.rem <= r.avail,
         NEW s, returned \subseteq s,
         i \notin s => r.rem = Refreshed(i).exp[i].rem /\ (v.delivered => r.avail > 0)
  PROVE  LET d == WithRow(Refreshed(i), i, v, r) IN
         Drafted(Reconciled(d, db), s) /\ \A j \in Items : Open(Reconciled(d, db), j)
<1> DEFINE b == Refreshed(i)
           d == WithRow(b, i, v, r)
           x == b.swap[i]
           e == b.exp[i]
<1>1. /\ Drafted(b, returned) /\ \A j \in Items : Open(b, j)
      /\ b.item = db.item /\ b.link = db.link
  BY RefreshedKeeps
<1>2. b \in Database /\ Fit(b, i)
  BY <1>1 DEF Drafted
<1>4. /\ r.avail = e.avail /\ e.rem <= r.rem
      /\ i \notin s => r.rem = e.rem /\ (v.delivered => r.avail > 0)
  OBVIOUS
<1> HIDE DEF b
<1>3. /\ d \in Database /\ d.link = b.link /\ d.away = b.away /\ d.swap = b.swap
      /\ d.item[i] = v /\ d.exp[i] = r
      /\ \A j \in Items : j # i => d.item[j] = b.item[j] /\ d.exp[j] = b.exp[j]
  BY <1>2, RowColumns
<1> HIDE DEF d
<1>5. /\ Sent(d, i) = Sent(b, i) /\ Back(d, i) = Back(b, i)
  BY <1>3 DEF Sent, Back
<1>6. /\ (Galvanizes(d, i) <=> Galvanizes(b, i)) /\ (FlowDefined(d, i) <=> FlowDefined(b, i))
      /\ d.item[i].produced = b.item[i].produced /\ Pipeline(d, i) = Pipeline(b, i)
  BY <1>1, <1>3 DEF Galvanizes, FlowDefined, Pipeline
<1>7. /\ e.avail \in Nat /\ e.rem \in Nat /\ x.given \in Nat /\ x.out \in Nat /\ Qty[i] \in Nat
      /\ r.rem \in Nat /\ x.completed \in Nat
  BY <1>2, Numbers DEF ExpeditionItem
<1>8. /\ Undone(b, i) = e.rem - x.given /\ Undone(d, i) = r.rem - x.given
  BY <1>3 DEF Undone
<1>9. Undone(b, i) <= Undone(d, i) /\ Undone(b, i) \in Int /\ Undone(d, i) \in Int
  BY <1>4, <1>7, <1>8
<1>10. Supply(b, i) <= Supply(d, i) /\ Supply(b, i) \in Int /\ Supply(d, i) \in Int
  <2>1. Back(b, i) \in Nat /\ x.received \in Nat
    BY <1>2, LoadSums, Numbers
  <2>2. QED BY <1>3, <1>5, <1>6, <1>7, <1>9, <2>1 DEF Supply
<1>11. Swapped(d, i)
  BY <1>2, <1>3, <1>5, <1>6 DEF Fit, Swapped
<1>12. Stocked(d, i)
  <2>1. /\ x.given <= e.rem /\ x.out <= Qty[i] + Undone(b, i) /\ e.avail <= Supply(b, i)
        /\ ~(Galvanizes(b, i) /\ b.item[i].produced) => x.out + x.fabIn <= e.avail
    BY <1>2 DEF Fit, Stocked
  <2>2. x.given <= r.rem /\ x.out <= Qty[i] + Undone(d, i) /\ r.avail <= Supply(d, i)
    BY <1>4, <1>7, <1>9, <1>10, <2>1
  <2>3. QED BY <1>3, <1>4, <1>6, <2>1, <2>2 DEF Stocked
<1>13. Piped(d, i)
  <2> SUFFICES ASSUME Galvanizes(b, i) PROVE Piped(d, i)
    BY <1>6 DEF Piped
  <2>1. IF b.item[i].produced THEN Sent(b, i) <= Pipeline(b, i) + Undone(b, i)
        ELSE Sent(b, i) + x.fabOut <= x.completed + x.fabIn /\ x.fabIn <= x.fabOut + Back(b, i)
    BY <1>2 DEF Fit, Piped
  <2>2. Sent(b, i) \in Nat /\ Pipeline(b, i) \in Int
    BY <1>2, LoadSums, Numbers DEF Pipeline
  <2>3. b.item[i].produced => Sent(b, i) <= Pipeline(b, i) + Undone(d, i)
    BY <1>9, <2>1, <2>2
  <2>4. QED BY <1>3, <1>5, <1>6, <2>1, <2>3 DEF Piped
<1>14. Fit(d, i)
  BY <1>11, <1>12, <1>13 DEF Fit
<1>15. Ready(d, i)
  <2>1. DerivedAvailable(d, i) = DerivedAvailable(b, i)
    BY <1>1, <1>3, <1>5, SameDerived
  <2>2. ~db.item[i].delivered => e.avail = DerivedAvailable(b, i)
    BY <1>1 DEF Open
  <2>3. ~d.item[i].delivered => d.exp[i].avail <= DerivedAvailable(d, i)
    BY <1>3, <1>4, <1>7, <2>1, <2>2
  <2>4. d.exp[i].sep + d.exp[i].rem <= d.exp[i].avail
    BY <1>3
  <2>5. QED BY <1>3, <1>14, <2>3, <2>4, ReadyIfStocked
<1>16. i \notin s => Even(d, i)
  <2> SUFFICES ASSUME i \notin s PROVE Even(d, i)
    OBVIOUS
  <2>1. Even(b, i)
    BY <1>1 DEF Drafted
  <2>2. QED BY <1>3, <1>4, <1>6, <2>1 DEF Even
<1>17. \A j \in Items : Open(db, j)
  BY DEF PieceInv
<1> HIDE DEF x, e
<1>18. \A j \in Items : j # i => /\ d.item[j] = b.item[j] /\ d.exp[j] = b.exp[j]
                               /\ d.swap[j] = b.swap[j]
  BY <1>3
<1>19. d.swap[i].given = b.swap[i].given /\ d.swap[i].received = b.swap[i].received
  BY <1>3
<1>20. Drafted(Reconciled(d, db), s) /\ \A j \in Items : Open(Reconciled(d, db), j)
  BY <1>1, <1>3, <1>14, <1>15, <1>16, <1>17, <1>18, <1>19, OneItemChanges
<1>21. QED BY <1>20 DEF d, b

LEMMA ExpeditionIsHandled ==
  ASSUME PieceInv, NEW i \in Items, NEW n \in 1 .. Qty[i],
         SeparateItem(i, n) \/ DeliverItem(i, n) \/ ReturnToProduction(i, n)
  PROVE  Drafted(db', returned') /\ \A j \in Items : Open(db', j)
<1> DEFINE b == Refreshed(i)
           v == b.item[i]
           e == b.exp[i]
<1>1. /\ Drafted(b, returned) /\ \A j \in Items : Open(b, j)
      /\ b.item = db.item /\ b.link = db.link
  BY RefreshedKeeps
<1>2. b \in Database /\ Fit(b, i)
  BY <1>1 DEF Drafted
<1>3. v \in Item /\ v = db.item[i] /\ e \in ExpeditionItem
  BY <1>1, <1>2, ItemRows
<1>4. db.item[i].delivered => v.delivered
  BY <1>3
<1>5. e.sep + e.rem <= e.avail /\ e.del + e.rem <= e.avail
  BY <1>1, <1>2 DEF Open, Fit, Stocked
<1>6. /\ e.avail \in Nat /\ e.sep \in Nat /\ e.del \in Nat /\ e.rem \in Nat
      /\ n \in Nat /\ n > 0
  BY <1>2, Numbers
<1>7. CASE SeparateItem(i, n)
  <2> DEFINE r == [e EXCEPT !.sep = e.sep + n]
  <2>1. n <= e.avail - e.sep - e.rem /\ Commit([b EXCEPT !.exp[i].sep = @ + n])
        /\ returned' = returned
    BY <1>7 DEF SeparateItem
  <2>2. [b EXCEPT !.exp[i].sep = @ + n] = WithRow(b, i, v, r)
    BY <1>2 DEF WithRow, Database
  <2>3. /\ r \in ExpeditionItem /\ r.avail = e.avail /\ r.rem = e.rem /\ r.del = e.del
        /\ r.sep = e.sep + n
    BY <1>3, <1>6 DEF ExpeditionItem
  <2>4. db' = Reconciled(WithRow(b, i, v, r), db)
    BY <2>1, <2>2, CommitIsReconciled
  <2> HIDE DEF r
  <2>5. r.sep + r.rem <= r.avail /\ r.del + r.rem <= r.avail /\ e.rem <= r.rem /\ r.avail > 0
    BY <1>5, <1>6, <2>1, <2>3
  <2> HIDE DEF e, v
  <2>6. Drafted(Reconciled(WithRow(b, i, v, r), db), returned)
    BY <1>3, <1>4, <2>3, <2>5, ExpeditionKeeps DEF e
  <2>7. \A j \in Items : Open(Reconciled(WithRow(b, i, v, r), db), j)
    BY <1>3, <1>4, <2>3, <2>5, ExpeditionKeeps DEF e
  <2>8. QED BY <2>1, <2>4, <2>6, <2>7
<1>8. CASE DeliverItem(i, n)
  <2> DEFINE r == Handed(e, n)
             gone == v.delivered \/ r.closed
             w == [v EXCEPT !.delivered = gone]
  <2>1. /\ n <= e.sep - e.del /\ returned' = returned
        /\ Commit([b EXCEPT !.exp[i] = r, !.item[i].delivered = @ \/ r.closed])
    BY <1>8 DEF DeliverItem
  <2>2. [b EXCEPT !.exp[i] = r, !.item[i].delivered = @ \/ r.closed] = WithRow(b, i, w, r)
    BY <1>2 DEF WithRow, Database
  <2>3. /\ r \in ExpeditionItem /\ r.avail = e.avail /\ r.rem = e.rem /\ r.sep = e.sep
        /\ r.del = e.del + n
    <3> DEFINE done == Outstanding(e) <= n
               handed == e.del + n
    <3>1. done \in BOOLEAN /\ handed \in Nat
      BY <1>6
    <3>2. r = [e EXCEPT !.del = handed, !.closed = done]
      BY DEF Handed
    <3> HIDE DEF done, handed, r, e
    <3>3. /\ r \in ExpeditionItem /\ r.avail = e.avail /\ r.rem = e.rem /\ r.sep = e.sep
          /\ r.del = handed
      BY <1>3, <3>1, <3>2 DEF ExpeditionItem
    <3>4. QED BY <3>3 DEF handed
  <2> HIDE DEF r
  <2>4. w \in Item /\ w.flow = v.flow /\ w.produced = v.produced /\ w.delivered = gone
    <3>1. gone \in BOOLEAN
      OBVIOUS
    <3> HIDE DEF v, gone
    <3> QED BY <1>3, <3>1 DEF Item
  <2>5. db' = Reconciled(WithRow(b, i, w, r), db)
    BY <2>1, <2>2, CommitIsReconciled
  <2> HIDE DEF w
  <2>6. r.sep + r.rem <= r.avail /\ r.del + r.rem <= r.avail /\ e.rem <= r.rem /\ r.avail > 0
    BY <1>5, <1>6, <2>1, <2>3
  <2>7. db.item[i].delivered => w.delivered
    BY <1>4, <2>4
  <2> HIDE DEF e, v
  <2>8. Drafted(Reconciled(WithRow(b, i, w, r), db), returned)
    BY <1>3, <2>3, <2>4, <2>6, <2>7, ExpeditionKeeps DEF e
  <2>9. \A j \in Items : Open(Reconciled(WithRow(b, i, w, r), db), j)
    BY <1>3, <2>3, <2>4, <2>6, <2>7, ExpeditionKeeps DEF e
  <2>10. QED BY <2>1, <2>5, <2>8, <2>9
<1>9. CASE ReturnToProduction(i, n)
  <2> DEFINE least == MinOf(e.sep, e.avail - e.rem - n)
             taken == e.rem + n
             r == [e EXCEPT !.rem = taken, !.sep = least]
             d == [b EXCEPT !.exp[i].rem = @ + n, !.exp[i].sep = MinOf(@, e.avail - e.rem - n)]
  <2>1. /\ n <= Outstanding(e) /\ returned' = returned \cup {i} /\ Commit(d)
    BY <1>9 DEF ReturnToProduction
  <2>2. d = WithRow(b, i, v, r)
    BY <1>2 DEF WithRow, Database
  <2>3. e.del + e.rem + n <= e.avail /\ least \in Nat /\ least + e.rem + n <= e.avail
    BY <1>6, <2>1 DEF MinOf, Outstanding
  <2>4. /\ r \in ExpeditionItem /\ r.avail = e.avail /\ r.rem = e.rem + n /\ r.del = e.del
        /\ r.sep = least
    <3>1. taken \in Nat /\ least \in Nat
      BY <1>6, <2>3
    <3>2. r = [e EXCEPT !.rem = taken, !.sep = least]
      OBVIOUS
    <3> HIDE DEF e, least, taken, r
    <3>3. r \in ExpeditionItem /\ r.avail = e.avail /\ r.rem = taken /\ r.del = e.del /\ r.sep = least
      BY <1>3, <3>1, <3>2 DEF ExpeditionItem
    <3>4. QED BY <3>3 DEF taken
  <2>5. db' = Reconciled(WithRow(b, i, v, r), db)
    BY <2>1, <2>2, CommitIsReconciled
  <2> HIDE DEF r, d, least
  <2>6. r.sep + r.rem <= r.avail /\ r.del + r.rem <= r.avail /\ e.rem <= r.rem
    BY <1>5, <1>6, <2>3, <2>4
  <2> HIDE DEF e, v
  <2>7. returned \subseteq returned' /\ i \in returned'
    BY <2>1
  <2>8. Drafted(Reconciled(WithRow(b, i, v, r), db), returned \cup {i})
    BY <1>3, <1>4, <2>4, <2>6, <2>7, ExpeditionKeeps DEF e
  <2>9. \A j \in Items : Open(Reconciled(WithRow(b, i, v, r), db), j)
    BY <1>3, <1>4, <2>4, <2>6, <2>7, ExpeditionKeeps DEF e
  <2>10. QED BY <2>1, <2>5, <2>8, <2>9
<1>10. QED BY <1>7, <1>8, <1>9

-----------------------------------------------------------------------------
\* Galvanization loads: what is sent and comes back changes, and which items
\* are marked as galvanized.
LEMMA LoadKeepsItem ==
  ASSUME NEW b \in Database, LinksNest(b), NEW j \in Items, Fit(b, j), Open(b, j),
         NEW d \in Database, LinksNest(d), d.exp[j] = b.exp[j], d.swap[j] = b.swap[j],
         d.item[j].flow = b.item[j].flow, d.item[j].produced = b.item[j].produced,
         d.item[j].delivered = b.item[j].delivered,
         Back(b, j) <= Back(d, j),
         Sent(d, j) <= Sent(b, j)
           \/ (Galvanizes(b, j) /\ b.item[j].produced /\ Sent(d, j) <= Pipeline(b, j))
  PROVE  /\ Fit(d, j) /\ Ready(d, j) /\ (Even(b, j) => Even(d, j))
         /\ Back(d, j) = Back(b, j) => Open(d, j)
<1> DEFINE x == b.swap[j]
           e == b.exp[j]
<1>1. /\ Sent(d, j) \in Nat /\ Sent(b, j) \in Nat /\ Back(d, j) \in Nat /\ Back(b, j) \in Nat
  BY LoadSums
<1>2. /\ (Galvanizes(d, j) <=> Galvanizes(b, j)) /\ (FlowDefined(d, j) <=> FlowDefined(b, j))
      /\ Undone(d, j) = Undone(b, j) /\ Pipeline(d, j) = Pipeline(b, j)
  BY DEF Galvanizes, FlowDefined, Undone, Pipeline
<1>3. /\ x.fabOut \in Nat /\ x.fabIn \in Nat /\ x.completed \in Nat /\ x.received \in Nat
      /\ x.given \in Nat /\ e.rem \in Nat /\ e.avail \in Nat /\ e.sep \in Nat
  BY Numbers
<1>4. Undone(b, j) \in Nat
  BY <1>3 DEF Fit, Stocked, Undone
<1>5. Swapped(d, j)
  <2>1. ~Galvanizes(b, j) => Sent(d, j) = 0
    BY <1>1 DEF Fit, Swapped
  <2>2. QED BY <1>2, <2>1 DEF Fit, Swapped
<1>6. Supply(b, j) <= Supply(d, j) /\ Supply(b, j) \in Int /\ Supply(d, j) \in Int
  BY <1>1, <1>2, <1>3, <1>4, Numbers DEF Supply
<1>7. Stocked(d, j)
  <2>1. e.avail <= Supply(d, j)
    BY <1>3, <1>6 DEF Fit, Stocked
  <2>2. QED BY <1>2, <2>1 DEF Fit, Stocked
<1>8. Piped(d, j)
  <2> SUFFICES ASSUME Galvanizes(b, j) PROVE Piped(d, j)
    BY <1>2 DEF Piped
  <2>1. IF b.item[j].produced THEN Sent(b, j) <= Pipeline(b, j) + Undone(b, j)
        ELSE Sent(b, j) + x.fabOut <= x.completed + x.fabIn /\ x.fabIn <= x.fabOut + Back(b, j)
    BY DEF Fit, Piped
  <2>2. Pipeline(b, j) \in Int
    BY Numbers DEF Pipeline
  <2>3. IF b.item[j].produced THEN Sent(d, j) <= Pipeline(b, j) + Undone(b, j)
        ELSE Sent(d, j) + x.fabOut <= x.completed + x.fabIn /\ x.fabIn <= x.fabOut + Back(d, j)
    BY <1>1, <1>3, <1>4, <2>1, <2>2
  <2>4. QED BY <1>2, <2>3 DEF Piped
<1>9. Fit(d, j)
  BY <1>5, <1>7, <1>8 DEF Fit
<1>10. Even(b, j) => Even(d, j)
  BY DEF Even
<1>11. DerivedAvailable(b, j) <= DerivedAvailable(d, j)
  <2>1. CASE Galvanizes(b, j) /\ b.item[j].flow = "SIM"
    <3>1. /\ DerivedAvailable(b, j)
               = IF b.item[j].produced \/ x.completed + x.received > 0 THEN Back(b, j) + x.received ELSE 0
          /\ DerivedAvailable(d, j)
               = IF b.item[j].produced \/ x.completed + x.received > 0 THEN Back(d, j) + x.received ELSE 0
      BY <1>2, <2>1 DEF DerivedAvailable
    <3>2. QED BY <1>1, <1>3, <3>1
  <2>2. CASE ~Galvanizes(b, j) /\ (b.item[j].flow = "NAO" \/ b.item[j].flow = "INDEFINIDO")
    <3>1. DerivedAvailable(b, j) = DerivedAvailable(d, j)
      BY <1>2, <2>2 DEF DerivedAvailable
    <3>2. QED BY <3>1, DerivedType
  <2>3. QED BY <2>1, <2>2, FlowCases
<1>12. Ready(d, j)
  <2>1. ASSUME ~d.item[j].delivered
        PROVE  d.exp[j].avail <= DerivedAvailable(d, j) /\ d.exp[j].sep + d.exp[j].rem <= d.exp[j].avail
    BY <1>3, <1>11, <2>1, DerivedType DEF Open
  <2>2. d.exp[j].sep + d.exp[j].rem <= d.exp[j].avail
    BY DEF Open
  <2>3. QED BY <1>9, <2>1, <2>2, ReadyIfStocked
<1>13. Back(d, j) = Back(b, j) => Open(d, j)
  <2>1. Back(d, j) = Back(b, j) => DerivedAvailable(d, j) = DerivedAvailable(b, j)
    BY SameDerived
  <2>2. QED BY <2>1 DEF Open
<1>14. QED BY <1>9, <1>10, <1>12, <1>13

LEMMA LoadKeeps ==
  ASSUME PieceInv,
         NEW d \in Database, LinksNest(d), d.exp = db.exp, d.swap = db.swap,
         \A j \in Items :
           /\ d.item[j].flow = db.item[j].flow /\ d.item[j].produced = db.item[j].produced
           /\ d.item[j].delivered = db.item[j].delivered
           /\ Back(db, j) <= Back(d, j)
           /\ Back(d, j) = Back(db, j) \/ j \in Changed(d, db)
           /\ \/ Sent(d, j) <= Sent(db, j)
              \/ Galvanizes(db, j) /\ db.item[j].produced /\ Sent(d, j) <= Pipeline(db, j)
  PROVE  Drafted(Reconciled(d, db), returned) /\ \A j \in Items : Open(Reconciled(d, db), j)
<1>1. db \in Database /\ LinksNest(db) /\ Drafted(db, returned) /\ \A j \in Items : Fit(db, j) /\ Open(db, j)
  BY DEF PieceInv, Drafted
<1>2. ASSUME NEW j \in Items
      PROVE  /\ Fit(d, j) /\ Ready(d, j) /\ (Even(db, j) => Even(d, j))
             /\ Back(d, j) = Back(db, j) => Open(d, j)
  BY <1>1, LoadKeepsItem
<1>3. Given(d) = Given(db) /\ Received(d) = Received(db)
  BY SameSums
<1>4. Drafted(d, returned)
  BY <1>1, <1>2, <1>3 DEF Drafted
<1>5. \A j \in Items : j \notin Changed(d, db) => Open(d, j)
  BY <1>2
<1>6. QED BY <1>2, <1>4, <1>5, CommitKeeps

SentElsewhere(d, j, l) == SumFunction([m \in Loads \ {l} |-> d.link[m][j].sent])

LEMMA SentIsOneAndRest ==
  ASSUME NEW d \in Database, NEW j \in Items, NEW l \in Loads
  PROVE  SentElsewhere(d, j, l) \in Nat /\ Sent(d, j) = d.link[l][j].sent + SentElsewhere(d, j, l)
<1> DEFINE f == [m \in Loads |-> d.link[m][j].sent]
           g == [m \in Loads \ {l} |-> d.link[m][j].sent]
<1>1. Sent(d, j) = SumFunctionOnSet(f, Loads) /\ SentElsewhere(d, j, l) = SumFunctionOnSet(g, Loads \ {l})
  BY DEF Sent, SentElsewhere, SumFunction
<1>2. \A m \in Loads : f[m] \in Nat /\ f[m] \in Int
  BY ItemRows
<1>3. \A m \in Loads \ {l} : f[m] = g[m] /\ g[m] \in Nat
  BY <1>2
<1>4. f[l] = d.link[l][j].sent
  OBVIOUS
<1>5. IsFiniteSet(Loads) /\ IsFiniteSet(Loads \ {l})
  BY LoadsAssumption, FS_Subset
<1> HIDE DEF f, g
<1>6. SumFunctionOnSet(f, Loads) = f[l] + SumFunctionOnSet(f, Loads \ {l})
  BY <1>2, <1>5, SumOfOneAndRest
<1>7. SumFunctionOnSet(f, Loads \ {l}) = SumFunctionOnSet(g, Loads \ {l})
  BY <1>3, <1>5, SumCongruence
<1>8. SumFunctionOnSet(g, Loads \ {l}) \in Nat
  BY <1>3, <1>5, SumOfNaturals
<1>9. QED BY <1>1, <1>4, <1>6, <1>7, <1>8

LEMMA LoadIsComposed ==
  ASSUME PieceInv, NEW l \in Loads, NEW S \in SUBSET Items, NEW load \in [S -> 1 .. Max(Range(Qty))],
         ComposeLoad(l, load)
  PROVE  Drafted(db', returned') /\ \A j \in Items : Open(db', j)
<1> DEFINE row == [i \in Items |-> IF i \in DOMAIN load THEN [sent |-> load[i], returned |-> 0] ELSE NoLink]
           d == [db EXCEPT !.link[l] = row]
<1>1. db \in Database /\ LinksNest(db) /\ ~db.away[l]
  BY DEF PieceInv, Drafted, ComposeLoad
<1>2. db' = Reconciled(d, db) /\ returned' = returned
  BY CommitIsReconciled DEF ComposeLoad
<1>3. \A i \in DOMAIN load : Eligible(db, i) /\ load[i] <= AvailableForLoad(db, i, l)
  BY DEF ComposeLoad
<1>4. \A i \in DOMAIN load : load[i] \in Nat
  OBVIOUS
<1>5. \A i \in Items : row[i] \in LoadItem /\ row[i].returned = 0
                       /\ row[i].sent = IF i \in DOMAIN load THEN load[i] ELSE 0
  BY <1>4 DEF LoadItem, NoLink
<1>6. row \in [Items -> LoadItem]
  BY <1>5
<1> HIDE DEF row
<1>7. /\ d.link = [db.link EXCEPT ![l] = row] /\ d = [db EXCEPT !.link = d.link]
      /\ d.exp = db.exp /\ d.swap = db.swap /\ d.item = db.item /\ d.away = db.away
  BY <1>1 DEF Database
<1> HIDE DEF d
<1>8. d.link[l] = row /\ \A m \in Loads : m # l => d.link[m] = db.link[m]
  BY <1>1, <1>7 DEF Database
<1>9. d \in Database
  <2>1. d.link \in [Loads -> [Items -> LoadItem]]
    BY <1>1, <1>6, <1>7 DEF Database
  <2>2. QED BY <1>1, <1>7, <2>1 DEF Database
<1>10. LinksNest(d)
  <2>1. ASSUME NEW m \in Loads, NEW i \in Items
        PROVE  d.link[m][i].returned <= d.link[m][i].sent /\ (~d.away[m] => d.link[m][i].returned = 0)
    <3>1. CASE m = l
      <4>1. d.link[m][i].returned = 0 /\ d.link[m][i].sent \in Nat
        BY <1>5, <1>8, <1>9, <3>1, ItemRows
      <4>2. QED BY <4>1
    <3>2. CASE m # l
      BY <1>1, <1>7, <1>8, <3>2 DEF LinksNest
    <3>3. QED BY <3>1, <3>2
  <2>2. QED BY <2>1 DEF LinksNest
<1>11. ASSUME NEW j \in Items
       PROVE  /\ Back(db, j) = Back(d, j)
              /\ \/ Sent(d, j) <= Sent(db, j)
                 \/ Galvanizes(db, j) /\ db.item[j].produced /\ Sent(d, j) <= Pipeline(db, j)
  <2>1. Back(db, j) = Back(d, j)
    <3>1. \A m \in Loads : d.link[m][j].returned = db.link[m][j].returned
      BY <1>1, <1>5, <1>8 DEF LinksNest
    <3>2. QED BY <3>1, LinksDecide
  <2>2. SentElsewhere(d, j, l) = SentElsewhere(db, j, l)
    BY <1>8 DEF SentElsewhere
  <2>3. /\ SentElsewhere(db, j, l) \in Nat /\ Sent(d, j) = d.link[l][j].sent + SentElsewhere(db, j, l)
        /\ Sent(db, j) = db.link[l][j].sent + SentElsewhere(db, j, l) /\ db.link[l][j].sent \in Nat
    BY <1>1, <1>9, <2>2, SentIsOneAndRest, ItemRows
  <2>4. CASE j \in DOMAIN load
    <3>1. Galvanizes(db, j) /\ db.item[j].produced
      BY <1>3, <2>4 DEF Eligible
    <3>2. d.link[l][j].sent = load[j]
      BY <1>5, <1>8, <2>4
    <3>3. load[j] <= AtLeastZero(Pipeline(db, j) - SentElsewhere(db, j, l)) /\ load[j] > 0 /\ load[j] \in Nat
      <4>1. AvailableForLoad(db, j, l) = AtLeastZero(Pipeline(db, j) - SentElsewhere(db, j, l))
        BY DEF AvailableForLoad, SentElsewhere
      <4>2. load[j] \in 1 .. Max(Range(Qty))
        BY <2>4
      <4>3. load[j] \in Nat /\ load[j] > 0
        BY <4>2
      <4>4. QED BY <1>3, <2>4, <4>1, <4>3
    <3>4. Pipeline(db, j) \in Int
      BY <1>1, Numbers DEF Pipeline
    <3>5. QED BY <2>1, <2>3, <3>1, <3>2, <3>3, <3>4 DEF AtLeastZero
  <2>5. CASE j \notin DOMAIN load
    <3>1. d.link[l][j].sent = 0
      BY <1>5, <1>8, <2>5
    <3>2. QED BY <2>1, <2>3, <3>1
  <2>6. QED BY <2>4, <2>5
<1>12. \A j \in Items : Back(db, j) <= Back(d, j)
  BY <1>9, <1>11, LoadSums
<1>13. Drafted(Reconciled(d, db), returned) /\ \A j \in Items : Open(Reconciled(d, db), j)
  BY <1>7, <1>9, <1>10, <1>11, <1>12, LoadKeeps
<1>14. QED BY <1>2, <1>13

LEMMA LoadIsReleased ==
  ASSUME PieceInv, NEW l \in Loads, ReleaseLoad(l)
  PROVE  Drafted(db', returned') /\ \A j \in Items : Open(db', j)
<1> DEFINE d == [db EXCEPT !.away[l] = TRUE]
<1>1. db \in Database /\ LinksNest(db)
  BY DEF PieceInv, Drafted
<1>2. db' = Reconciled(d, db) /\ returned' = returned
  BY CommitIsReconciled DEF ReleaseLoad
<1>3. /\ d.away = [db.away EXCEPT ![l] = TRUE] /\ d = [db EXCEPT !.away = d.away]
      /\ d.exp = db.exp /\ d.swap = db.swap /\ d.item = db.item /\ d.link = db.link
  BY <1>1 DEF Database
<1> HIDE DEF d
<1>4. d \in Database /\ \A m \in Loads : db.away[m] => d.away[m]
  BY <1>1, <1>3 DEF Database
<1>5. LinksNest(d)
  BY <1>1, <1>3, <1>4 DEF LinksNest
<1>6. \A j \in Items : Back(d, j) = Back(db, j) /\ Sent(d, j) = Sent(db, j)
  BY <1>3 DEF Back, Sent
<1>7. \A j \in Items : Back(db, j) <= Back(d, j) /\ Sent(d, j) <= Sent(db, j)
  BY <1>1, <1>6, LoadSums
<1>8. Drafted(Reconciled(d, db), returned) /\ \A j \in Items : Open(Reconciled(d, db), j)
  BY <1>3, <1>4, <1>5, <1>6, <1>7, LoadKeeps
<1>9. QED BY <1>2, <1>8

\* Marking items as galvanized changes nothing else.
LEMMA MarkedColumns ==
  \A d \in Database : \A P :
    LET e == MarkGalvanized(d, P) IN
    /\ e \in Database
    /\ e.link = d.link /\ e.away = d.away /\ e.exp = d.exp /\ e.swap = d.swap
    /\ \A j \in Items : /\ e.item[j].flow = d.item[j].flow /\ e.item[j].produced = d.item[j].produced
                        /\ e.item[j].delivered = d.item[j].delivered
<1> TAKE d \in Database
<1> TAKE P
<1> DEFINE e == MarkGalvanized(d, P)
           home == {i \in ItemsOf(P) : Galvanizes(d, i) /\ Back(d, i) >= Pipeline(d, i)}
           marked(i) == [d.item[i] EXCEPT !.galvanized = @ \/ i \in home]
<1>1. e = [d EXCEPT !.item = [i \in Items |-> marked(i)]]
  BY DEF MarkGalvanized
<1>2. \A j \in Items : /\ marked(j) \in Item
                       /\ marked(j).flow = d.item[j].flow /\ marked(j).produced = d.item[j].produced
                       /\ marked(j).delivered = d.item[j].delivered
  <2> TAKE j \in Items
  <2> DEFINE still == d.item[j].galvanized \/ j \in home
  <2>1. d.item[j] \in Item /\ still \in BOOLEAN
    BY ItemRows
  <2>2. marked(j) = [d.item[j] EXCEPT !.galvanized = still]
    OBVIOUS
  <2> HIDE DEF still
  <2>3. QED BY <2>1, <2>2 DEF Item
<1> HIDE DEF e, marked
<1>3. /\ e.item = [i \in Items |-> marked(i)] /\ e = [d EXCEPT !.item = e.item]
      /\ e.link = d.link /\ e.away = d.away /\ e.exp = d.exp /\ e.swap = d.swap
  BY <1>1 DEF Database
<1>4. e.item \in [Items -> Item]
  BY <1>2, <1>3
<1>5. e \in Database
  BY <1>3, <1>4 DEF Database
<1>6. QED BY <1>2, <1>3, <1>5 DEF e

LEMMA ReturnIsRegistered ==
  ASSUME PieceInv, NEW l \in Loads, NEW i \in Items, NEW n \in 1 .. Qty[i], RegisterReturn(l, i, n)
  PROVE  Drafted(db', returned') /\ \A j \in Items : Open(db', j)
<1> DEFINE k == db.link[l][i]
           c == [db EXCEPT !.link[l][i].returned = @ + n]
           d == MarkGalvanized(c, {Owner[i]})
           more == k.returned + n
           w == [k EXCEPT !.returned = more]
           row == [db.link[l] EXCEPT ![i] = w]
<1>1. db \in Database /\ LinksNest(db) /\ db.away[l] /\ n <= k.sent - k.returned
  BY DEF PieceInv, Drafted, RegisterReturn
<1>2. db' = Reconciled(d, db) /\ returned' = returned
  BY CommitIsReconciled DEF RegisterReturn
<1>3. n \in Nat /\ n > 0 /\ k \in LoadItem /\ k.sent \in Nat /\ k.returned \in Nat
  BY <1>1, ItemRows
<1>4. more \in Nat /\ more <= k.sent /\ more > k.returned /\ k.sent > 0
  BY <1>1, <1>3
<1>5. c = [db EXCEPT !.link = [db.link EXCEPT ![l] = row]]
  BY <1>1 DEF Database
<1> HIDE DEF k, c, more
<1>6. w \in LoadItem /\ w.sent = k.sent /\ w.returned = more
  BY <1>3, <1>4 DEF LoadItem
<1> HIDE DEF w
<1>7. row \in [Items -> LoadItem] /\ row[i] = w /\ \A j \in Items : j # i => row[j] = db.link[l][j]
  BY <1>1, <1>6 DEF Database
<1> HIDE DEF row
<1>8. /\ c.link = [db.link EXCEPT ![l] = row] /\ c = [db EXCEPT !.link = c.link]
      /\ c.exp = db.exp /\ c.swap = db.swap /\ c.item = db.item /\ c.away = db.away
  BY <1>1, <1>5 DEF Database
<1>9. c \in Database
  <2>1. c.link \in [Loads -> [Items -> LoadItem]]
    BY <1>1, <1>7, <1>8 DEF Database
  <2>2. QED BY <1>1, <1>8, <2>1 DEF Database
<1>10. /\ d \in Database /\ d.link = c.link /\ d.away = db.away /\ d.exp = db.exp /\ d.swap = db.swap
       /\ \A j \in Items : /\ d.item[j].flow = db.item[j].flow /\ d.item[j].produced = db.item[j].produced
                           /\ d.item[j].delivered = db.item[j].delivered
  BY <1>8, <1>9, MarkedColumns
<1> HIDE DEF d
<1>11. /\ d.link[l] = row /\ \A m \in Loads : m # l => d.link[m] = db.link[m]
  BY <1>1, <1>8, <1>10 DEF Database
<1>12. /\ d.link[l][i].sent = k.sent /\ d.link[l][i].returned = more
       /\ \A m \in Loads, j \in Items : m # l \/ j # i => d.link[m][j] = db.link[m][j]
  BY <1>6, <1>7, <1>11
<1>13. LinksNest(d)
  <2>1. ASSUME NEW m \in Loads, NEW j \in Items
        PROVE  d.link[m][j].returned <= d.link[m][j].sent /\ (~d.away[m] => d.link[m][j].returned = 0)
    <3>1. CASE m = l /\ j = i
      BY <1>1, <1>4, <1>10, <1>12, <3>1
    <3>2. CASE m # l \/ j # i
      BY <1>1, <1>10, <1>12, <3>2 DEF LinksNest
    <3>3. QED BY <3>1, <3>2
  <2>2. QED BY <2>1 DEF LinksNest
<1>14. \A j \in Items : Sent(d, j) = Sent(db, j)
  <2>1. \A j \in Items, m \in Loads : d.link[m][j].sent = db.link[m][j].sent
    BY <1>12 DEF k
  <2>2. QED BY <2>1, LinksDecide
<1>15. \A j \in Items : j # i => Back(d, j) = Back(db, j)
  <2>1. \A j \in Items, m \in Loads : j # i => d.link[m][j].returned = db.link[m][j].returned
    BY <1>12
  <2>2. QED BY <2>1, LinksDecide
<1>16. i \in Changed(d, db)
  <2>1. d.link[l][i].sent > 0 /\ d.link[l][i].returned # db.link[l][i].returned
    BY <1>3, <1>4, <1>12 DEF k
  <2>2. QED BY <2>1 DEF Changed
<1>17. Back(db, i) <= Back(d, i)
  <2> DEFINE f == [m \in Loads |-> db.link[m][i].returned]
             g == [m \in Loads |-> d.link[m][i].returned]
  <2>1. Back(db, i) = SumFunctionOnSet(f, Loads) /\ Back(d, i) = SumFunctionOnSet(g, Loads)
    BY DEF Back, SumFunction
  <2>2. \A m \in Loads : f[m] \in Int /\ g[m] \in Int
    BY <1>1, <1>10, ItemRows
  <2>3. \A m \in Loads : f[m] <= g[m]
    <3> TAKE m \in Loads
    <3>1. m # l => f[m] = g[m]
      BY <1>12
    <3>2. m = l => f[m] <= g[m]
      BY <1>3, <1>4, <1>12 DEF k
    <3>3. QED BY <2>2, <3>1, <3>2
  <2> HIDE DEF f, g
  <2>4. IsFiniteSet(Loads) /\ \A m \in Loads : f[m] \in Int /\ g[m] \in Int /\ f[m] <= g[m]
    BY <2>2, <2>3, LoadsAssumption
  <2>5. SumFunctionOnSet(f, Loads) <= SumFunctionOnSet(g, Loads)
    BY <2>4, SumIsMonotone
  <2>6. QED BY <2>1, <2>5
<1>18. \A j \in Items :
         /\ Back(db, j) <= Back(d, j) /\ Sent(d, j) <= Sent(db, j)
         /\ Back(d, j) = Back(db, j) \/ j \in Changed(d, db)
  <2>1. \A j \in Items : Back(db, j) \in Nat /\ Sent(db, j) \in Nat
    BY <1>1, LoadSums
  <2>2. QED BY <2>1, <1>14, <1>15, <1>16, <1>17
<1>19. Drafted(Reconciled(d, db), returned) /\ \A j \in Items : Open(Reconciled(d, db), j)
  BY <1>10, <1>13, <1>18, LoadKeeps
<1>20. QED BY <1>2, <1>19

-----------------------------------------------------------------------------
\* The lines of a request, and the order they are taken in.
LinesOK(q) ==
  /\ IsFiniteSet(DOMAIN q) /\ DOMAIN q \subseteq Items \X Items
  /\ \A a, b \in DOMAIN q : a[1] # b[2]
  /\ q \in [DOMAIN q -> Nat \ {0}]

LEMMA RequestsAreLines == ASSUME NEW q \in Requests PROVE LinesOK(q)
<1>1. PICK L \in SUBSET Lines : /\ \A a, b \in L : Owner[a[1]] = Owner[b[1]]
                                /\ q \in [L -> 1 .. Max(Range(Qty))]
  BY DEF Requests
<1>2. DOMAIN q = L /\ L \subseteq Items \X Items
  BY <1>1 DEF Lines
<1>3. IsFiniteSet(L)
  <2>1. IsFiniteSet(Items \X Items)
    BY ItemsAssumption, FS_Product
  <2>2. QED BY <1>2, <2>1, FS_Subset
<1>4. \A a, b \in L : a[1] # b[2]
  <2>1. \A b \in L : Owner[b[1]] # Owner[b[2]]
    BY <1>1 DEF Lines
  <2>2. QED BY <1>1, <2>1
<1>5. q \in [L -> Nat \ {0}]
  <2>1. \A l \in L : q[l] \in 1 .. Max(Range(Qty))
    BY <1>1
  <2>2. \A l \in L : q[l] \in Nat \ {0}
    BY <2>1
  <2>3. QED BY <1>1, <2>2
<1>6. QED BY <1>2, <1>3, <1>4, <1>5 DEF LinesOK

LEMMA LastOfIsMember ==
  ASSUME NEW s, s \subseteq Items \X Items, s # {}
  PROVE  LastOf(s) \in s
<1> DEFINE R == {p \in s \X s : p[1] = p[2] \/ BySource(p[1], p[2])}
<1>1. IsFiniteSet(s)
  <2>1. IsFiniteSet(Items \X Items)
    BY ItemsAssumption, FS_Product
  <2>2. QED BY <2>1, FS_Subset
<1>2. \A a \in s : a[1] \in Nat /\ a[2] \in Nat /\ a = <<a[1], a[2]>>
  <2>1. \A a \in Items \X Items : a[1] \in Items /\ a[2] \in Items /\ a = <<a[1], a[2]>>
    OBVIOUS
  <2>2. QED BY <2>1, ItemsAssumption
<1>3. \A a, b \in s : <<a, b>> \in R <=> a = b \/ BySource(a, b)
  OBVIOUS
<1> HIDE DEF R
<1>4. \A a, b \in s : a = b \/ BySource(a, b) \/ BySource(b, a)
  <2> TAKE a, b \in s
  <2>1. a[1] = b[1] /\ a[2] = b[2] => a = b
    BY <1>2
  <2>2. /\ a[1] \in Nat /\ a[2] \in Nat /\ b[1] \in Nat /\ b[2] \in Nat
    BY <1>2
  <2>3. QED BY <2>1, <2>2 DEF BySource
<1>5. \A a, b, c \in s : BySource(a, b) /\ BySource(b, c) => BySource(a, c)
  BY <1>2 DEF BySource
<1>6. \A a, b \in s : <<a, b>> \in R \/ <<b, a>> \in R
  BY <1>3, <1>4
<1>7. \A a, b, c \in s : <<a, b>> \in R /\ <<b, c>> \in R => <<a, c>> \in R
  BY <1>3, <1>5
<1>8. PICK a \in s : \A b \in s : <<b, a>> \in R
  BY <1>1, <1>6, <1>7, LastExists
<1>9. \A b \in s : b = a \/ BySource(b, a)
  BY <1>3, <1>8
<1>10. QED BY <1>9 DEF LastOf

\* The sum of f over the members of s whose key is i.
Keyed(f, k, s, i) == SumFunctionOnSet(f, {l \in s : k[l] = i})

LEMMA KeyedGrows ==
  ASSUME NEW L, IsFiniteSet(L), NEW f \in [L -> Int], NEW k, NEW i, NEW s \in SUBSET L, NEW a \in s
  PROVE  /\ Keyed(f, k, s, i) \in Int
         /\ Keyed(f, k, s, i) = Keyed(f, k, s \ {a}, i) + IF k[a] = i THEN f[a] ELSE 0
<1> DEFINE S == {l \in s : k[l] = i}
           T == {l \in s \ {a} : k[l] = i}
<1>1. IsFiniteSet(S) /\ \A l \in S : f[l] \in Int
  BY FS_Subset
<1>2. k[a] = i => a \in S /\ T = S \ {a}
  OBVIOUS
<1>3. k[a] # i => T = S
  OBVIOUS
<1>4. Keyed(f, k, s, i) = SumFunctionOnSet(f, S) /\ Keyed(f, k, s \ {a}, i) = SumFunctionOnSet(f, T)
  BY DEF Keyed
<1> HIDE DEF S, T
<1>5. SumFunctionOnSet(f, S) \in Int
  BY <1>1, SumType
<1>6. k[a] = i => SumFunctionOnSet(f, S) = f[a] + SumFunctionOnSet(f, T)
  BY <1>1, <1>2, SumOfOneAndRest
<1>7. k[a] = i => SumFunctionOnSet(f, T) \in Int
  BY <1>1, <1>2, SumType, FS_Subset
<1>8. f[a] \in Int
  OBVIOUS
<1>9. QED BY <1>3, <1>4, <1>5, <1>6, <1>7, <1>8

LEMMA KeyedBasics ==
  ASSUME NEW L, IsFiniteSet(L), NEW f \in [L -> Nat], NEW k, NEW i, NEW s \in SUBSET L
  PROVE  /\ Keyed(f, k, s, i) \in Nat /\ Keyed(f, k, {}, i) = 0
         /\ (\A l \in s : k[l] # i) => Keyed(f, k, s, i) = 0
         /\ \A l \in s : k[l] = i => f[l] <= Keyed(f, k, s, i)
         /\ (\A l \in s : k[l] = i => f[l] = 0) => Keyed(f, k, s, i) = 0
<1> DEFINE S == {l \in s : k[l] = i}
<1>1. IsFiniteSet(S) /\ \A l \in S : f[l] \in Nat
  BY FS_Subset
<1>2. Keyed(f, k, s, i) = SumFunctionOnSet(f, S)
  BY DEF Keyed
<1>3. {l \in {} : k[l] = i} = {}
  OBVIOUS
<1>4. Keyed(f, k, {}, i) = 0
  BY <1>3, SumOfNothing DEF Keyed
<1>5. (\A l \in s : k[l] # i) => S = {}
  OBVIOUS
<1>6. \A l \in s : k[l] = i => l \in S
  OBVIOUS
<1>7. ASSUME \A l \in s : k[l] = i => f[l] = 0 PROVE \A l \in S : f[l] = 0
  BY <1>7
<1> HIDE DEF S
<1>8. SumFunctionOnSet(f, S) \in Nat /\ \A l \in S : f[l] <= SumFunctionOnSet(f, S)
  BY <1>1, SumOfNaturals
<1>9. (\A l \in S : f[l] = 0) => SumFunctionOnSet(f, S) = 0
  BY <1>1, SumOfZeros
<1>10. QED BY <1>2, <1>4, <1>5, <1>6, <1>7, <1>8, <1>9, SumOfNothing

-----------------------------------------------------------------------------
\* What the lines take of the stages: plan_stage_swaps line by line.
Stage4 == {"inGalvanization", "awaiting", "toProduce", "undefined"}
Take == [inGalvanization: Int, awaiting: Int, toProduce: Int, undefined: Int]

LEMMA StageNamesOfNothing ==
  /\ DOMAIN Nothing = Stage4 /\ Nothing \in Take
  /\ \A t \in Take, n \in Stage4 : t[n] \in Int
  /\ \A n \in Stage4 : Nothing[n] = 0
BY DEF Nothing, Stage4, Take

LEMMA CapacityIsNatural ==
  ASSUME NEW d \in Database, NEW y \in Items
  PROVE  \A n \in Stage4 : Capacity(d, y)[n] \in Nat
<1>1. /\ Sent(d, y) \in Nat /\ Back(d, y) \in Nat /\ ReadyAvailable(d, y) \in Nat
  BY LoadSums, DerivedType
<1>2. Awaiting(d, y) \in Int /\ ProductionPending(d, y) \in Int /\ ReallocatableProduction(d, y) \in Int
  BY <1>1, Numbers DEF Awaiting, Pipeline, ProductionPending, ReallocatableProduction, NativePending,
                       AtLeastZero
<1>3. /\ Stages(d, y).inGalvanization \in Nat /\ Stages(d, y).undefined \in Nat
      /\ Stages(d, y).awaiting \in Int /\ Stages(d, y).toProduce \in Int
  <2>1. CASE Unflowed(d, y)
    BY <1>1, <2>1, Numbers DEF Stages, AtLeastZero
  <2>2. CASE ~Unflowed(d, y) /\ Galvanizes(d, y)
    BY <1>1, <1>2, <2>2, Numbers DEF Stages, AtLeastZero
  <2>3. CASE ~Unflowed(d, y) /\ ~Galvanizes(d, y)
    BY <1>1, <1>2, <2>3, Numbers DEF Stages, AtLeastZero
  <2>4. QED BY <2>1, <2>2, <2>3
<1>4. d.swap[y].pending \in Nat
  BY Numbers
<1>5. QED BY <1>3, <1>4 DEF Capacity, AtLeastZero, Stage4

LEMMA TakenTypes ==
  ASSUME NEW d, NEW x, NEW n \in Nat, NEW left, \A m \in Stage4 : left[m] \in Int
  PROVE  /\ Taken(d, x, n, left) \in Take
         /\ (\A m \in Stage4 : left[m] >= 0) =>
              /\ \A m \in Stage4 : /\ Taken(d, x, n, left)[m] \in Nat
                                   /\ Taken(d, x, n, left)[m] <= left[m]
              /\ ~Galvanizes(d, x) => Fabricated(Taken(d, x, n, left)) = 0
<1> DEFINE fg == IF Galvanizes(d, x) THEN left.inGalvanization ELSE 0
           fa == IF Galvanizes(d, x) THEN left.awaiting ELSE 0
           g == MinOf(n, fg)
           a == MinOf(n - g, fa)
           p == MinOf(n - g - a, left.toProduce)
           u == MinOf(n - g - a - p, left.undefined)
<1>1. Taken(d, x, n, left) = [inGalvanization |-> g, awaiting |-> a, toProduce |-> p, undefined |-> u]
  BY DEF Taken
<1>2. /\ left.inGalvanization \in Int /\ left.awaiting \in Int /\ left.toProduce \in Int
      /\ left.undefined \in Int
  BY DEF Stage4
<1>3. fg \in Int /\ fa \in Int /\ (~Galvanizes(d, x) => fg = 0 /\ fa = 0)
  BY <1>2
<1>4. (\A m \in Stage4 : left[m] >= 0) =>
        /\ fg >= 0 /\ fa >= 0 /\ left.toProduce >= 0 /\ left.undefined >= 0
        /\ fg <= left.inGalvanization /\ fa <= left.awaiting
  BY <1>2 DEF Stage4
<1> HIDE DEF fg, fa
<1>5. g \in Int /\ a \in Int /\ p \in Int /\ u \in Int
  BY <1>2, <1>3 DEF MinOf
<1>6. ASSUME \A m \in Stage4 : left[m] >= 0
      PROVE  /\ g \in Nat /\ a \in Nat /\ p \in Nat /\ u \in Nat
             /\ g <= left.inGalvanization /\ a <= left.awaiting /\ p <= left.toProduce
             /\ u <= left.undefined
             /\ ~Galvanizes(d, x) => g + a = 0
  <2>1. g \in Nat /\ g <= n /\ g <= left.inGalvanization
    BY <1>2, <1>3, <1>4, <1>6 DEF MinOf
  <2>2. ~Galvanizes(d, x) => g = 0
    BY <1>3 DEF MinOf
  <2> HIDE DEF g
  <2>3. a \in Nat /\ a <= n - g /\ a <= left.awaiting /\ (~Galvanizes(d, x) => a = 0)
    BY <1>2, <1>3, <1>4, <1>6, <2>1 DEF MinOf
  <2> HIDE DEF a
  <2>4. p \in Nat /\ p <= n - g - a /\ p <= left.toProduce
    BY <1>2, <1>4, <1>6, <2>1, <2>3 DEF MinOf
  <2> HIDE DEF p
  <2>5. u \in Nat /\ u <= left.undefined
    BY <1>2, <1>4, <1>6, <2>1, <2>3, <2>4 DEF MinOf
  <2>6. QED BY <2>1, <2>2, <2>3, <2>4, <2>5
<1> HIDE DEF g, a, p, u
<1>7. QED BY <1>1, <1>5, <1>6 DEF Take, Stage4, Fabricated

StageOf(w, n) == [l \in DOMAIN w |-> w[l][n]]
ToOf(L) == [l \in L |-> l[1]]
FromOf(L) == [l \in L |-> l[2]]

LEMMA LeftIsCapacityLess ==
  ASSUME NEW d, NEW L, IsFiniteSet(L), NEW w \in [L -> Take], NEW y, NEW n \in Stage4
  PROVE  Left(d, w, y)[n] = Capacity(d, y)[n] - Keyed(StageOf(w, n), ToOf(L), L, y)
<1> DEFINE S == {l \in L : l[1] = y}
           T == {l \in L : ToOf(L)[l] = y}
           f == [line \in {l \in DOMAIN w : l[1] = y} |-> w[line][n]]
<1>1. DOMAIN w = L /\ S = T
  BY DEF ToOf
<1>2. f = [line \in S |-> w[line][n]]
  BY <1>1
<1>3. Left(d, w, y)[n] = Capacity(d, y)[n] - SumFunction(f)
  BY StageNamesOfNothing DEF Left
<1>4. DOMAIN f = S /\ \A l \in S : f[l] = StageOf(w, n)[l]
  BY <1>1 DEF StageOf
<1>5. IsFiniteSet(S)
  BY FS_Subset
<1>6. Keyed(StageOf(w, n), ToOf(L), L, y) = SumFunctionOnSet(StageOf(w, n), S)
  BY <1>1 DEF Keyed
<1> HIDE DEF f, S, T
<1>7. SumFunction(f) = SumFunctionOnSet(f, S)
  BY <1>4, SumIsOnDomain
<1>8. SumFunctionOnSet(f, S) = SumFunctionOnSet(StageOf(w, n), S)
  BY <1>4, <1>5, SumCongruence
<1>9. QED BY <1>3, <1>6, <1>7, <1>8

\* Line a takes its pieces.
TakenLine(d, q, w, a) == [w EXCEPT ![a] = Taken(d, a[2], q[a], Left(d, w, a[1]))]

LEMMA TakenLineTypes ==
  ASSUME NEW d \in Database, NEW q, LinesOK(q), NEW w \in [DOMAIN q -> Take], NEW a \in DOMAIN q
  PROVE  /\ TakenLine(d, q, w, a) \in [DOMAIN q -> Take]
         /\ \A n \in Stage4 : Left(d, w, a[1])[n] \in Int
<1> DEFINE L == DOMAIN q
           left == Left(d, w, a[1])
<1>1. IsFiniteSet(L) /\ a[1] \in Items /\ q[a] \in Nat
  BY DEF LinesOK
<1>2. \A n \in Stage4 : left[n] \in Int
  <2> TAKE n \in Stage4
  <2>1. left[n] = Capacity(d, a[1])[n] - Keyed(StageOf(w, n), ToOf(L), L, a[1])
    BY <1>1, LeftIsCapacityLess
  <2>2. StageOf(w, n) \in [L -> Int]
    BY StageNamesOfNothing DEF StageOf
  <2>3. Keyed(StageOf(w, n), ToOf(L), L, a[1]) \in Int
    BY <1>1, <2>2, KeyedGrows
  <2>4. Capacity(d, a[1])[n] \in Nat
    BY <1>1, CapacityIsNatural
  <2>5. QED BY <2>1, <2>3, <2>4
<1> HIDE DEF left
<1>3. Taken(d, a[2], q[a], left) \in Take
  BY <1>1, <1>2, TakenTypes
<1>4. TakenLine(d, q, w, a) = [w EXCEPT ![a] = Taken(d, a[2], q[a], left)]
  BY DEF TakenLine, left
<1>5. TakenLine(d, q, w, a) \in [L -> Take]
  BY <1>3, <1>4
<1>6. QED BY <1>2, <1>5 DEF left

LEMMA SwapsAreSolved ==
  ASSUME NEW d \in Database, NEW q, LinesOK(q)
  PROVE  \E h : /\ StageSwaps(d, q) = h[DOMAIN q]
                /\ h[{}] = [line \in DOMAIN q |-> Nothing]
                /\ \A s \in SUBSET DOMAIN q : s # {} =>
                     h[s] = TakenLine(d, q, h[s \ {LastOf(s)}], LastOf(s))
<1> DEFINE L == DOMAIN q
           D == [L -> Take]
           base == [line \in L |-> Nothing]
           step == [z \in L \X D |-> TakenLine(d, q, z[2], z[1])]
           pick == [s \in SUBSET L |-> LastOf(s)]
           Solves(h) == h = [s \in SUBSET L |-> IF s = {} THEN base
                                                ELSE TakenLine(d, q, h[s \ {LastOf(s)}], LastOf(s))]
           iter == CHOOSE h : Solves(h)
<1>1. IsFiniteSet(L) /\ \A s \in SUBSET L : s # {} => LastOf(s) \in s
  BY LastOfIsMember DEF LinesOK
<1>2. base \in D
  BY StageNamesOfNothing
<1>3. \A x \in L, e \in D : TakenLine(d, q, e, x) \in D
  BY TakenLineTypes
<1>4. \A x \in L, e \in D : step[<<x, e>>] = TakenLine(d, q, e, x)
  OBVIOUS
<1>5. Picks(pick, L)
  BY <1>1 DEF Picks
<1>6. PICK h : IsFold(h, step, base, pick, L)
  <2> HIDE DEF step, pick, base
  <2>1. QED BY <1>1, <1>5, FoldExists
<1>7. \A s \in SUBSET L : h[s] \in D
  <2>1. \A x \in L, e \in D : step[<<x, e>>] \in D
    <3> HIDE DEF step, D
    <3>1. QED BY <1>3, <1>4
  <2> HIDE DEF step, D, pick, base
  <2>2. QED BY <1>1, <1>2, <1>5, <1>6, <2>1, FoldStays
<1>8. Solves(h)
  <2>1. \A s \in SUBSET L : s # {} => LastOf(s) \in L /\ h[s \ {LastOf(s)}] \in D
    BY <1>1, <1>7
  <2>2. \A s \in SUBSET L : s # {} =>
          step[<<LastOf(s), h[s \ {LastOf(s)}]>>] = TakenLine(d, q, h[s \ {LastOf(s)}], LastOf(s))
    <3> HIDE DEF D, step
    <3>1. QED BY <1>4, <2>1
  <2> HIDE DEF D, step, base
  <2>3. QED BY <1>6, <2>2 DEF IsFold
<1>9. Solves(iter)
  BY <1>8
<1>10. StageSwaps(d, q) = iter[L]
  BY DEF StageSwaps, InOrder, MapThenFoldSet, TakenLine
<1> HIDE DEF iter
<1>11. iter[{}] = base
  BY <1>9
<1>12. \A s \in SUBSET L : s # {} => iter[s] = TakenLine(d, q, iter[s \ {LastOf(s)}], LastOf(s))
  BY <1>9
<1>13. QED BY <1>10, <1>11, <1>12

LEMMA KeyedOfOneChange ==
  ASSUME NEW L, IsFiniteSet(L), NEW f \in [L -> Int], NEW g \in [L -> Int], NEW a \in L,
         \A l \in L : l # a => g[l] = f[l], NEW k, NEW i
  PROVE  Keyed(g, k, L, i) = Keyed(f, k, L, i) + IF k[a] = i THEN g[a] - f[a] ELSE 0
<1> DEFINE S == {l \in L : k[l] = i}
<1>1. IsFiniteSet(S) /\ \A l \in S : f[l] \in Int /\ g[l] \in Int /\ (l # a => g[l] = f[l])
  BY FS_Subset
<1>2. Keyed(g, k, L, i) = SumFunctionOnSet(g, S) /\ Keyed(f, k, L, i) = SumFunctionOnSet(f, S)
  BY DEF Keyed
<1>3. (k[a] = i) <=> a \in S
  OBVIOUS
<1> HIDE DEF S
<1>4. CASE a \in S
  <2>1. SumFunctionOnSet(g, S) = SumFunctionOnSet(f, S) - f[a] + g[a]
    BY <1>1, <1>4, SumOfOneChange
  <2>2. SumFunctionOnSet(f, S) \in Int
    BY <1>1, SumType
  <2>3. QED BY <1>2, <1>3, <1>4, <2>1, <2>2
<1>5. CASE a \notin S
  <2>1. \A l \in S : g[l] = f[l]
    BY <1>1, <1>5
  <2>2. SumFunctionOnSet(g, S) = SumFunctionOnSet(f, S)
    BY <1>1, <2>1, SumCongruence
  <2>3. SumFunctionOnSet(f, S) \in Int
    BY <1>1, SumType
  <2>4. QED BY <1>2, <1>3, <1>5, <2>2, <2>3
<1>6. QED BY <1>4, <1>5

\* The lines take from no stage more than the destination has there, and
\* fabricated pieces only for items that go through galvanization.
FitSwaps(d, q, w) ==
  /\ w \in [DOMAIN q -> Take]
  /\ \A l \in DOMAIN q, n \in Stage4 : w[l][n] \in Nat
  /\ \A l \in DOMAIN q : ~Galvanizes(d, l[2]) => Fabricated(w[l]) = 0
  /\ \A y \in Items, n \in Stage4 :
       Keyed(StageOf(w, n), ToOf(DOMAIN q), DOMAIN q, y) <= Capacity(d, y)[n]

LEMMA TakenLineFits ==
  ASSUME NEW d \in Database, NEW q, LinesOK(q), NEW v, FitSwaps(d, q, v), NEW a \in DOMAIN q,
         v[a] = Nothing
  PROVE  FitSwaps(d, q, TakenLine(d, q, v, a))
<1> DEFINE L == DOMAIN q
           left == Left(d, v, a[1])
           t == Taken(d, a[2], q[a], left)
           w == TakenLine(d, q, v, a)
           k == ToOf(L)
<1>1. /\ IsFiniteSet(L) /\ v \in [L -> Take] /\ a[1] \in Items /\ q[a] \in Nat
      /\ \A l \in L, n \in Stage4 : v[l][n] \in Nat
  BY DEF LinesOK, FitSwaps
<1>2. w \in [L -> Take] /\ \A n \in Stage4 : left[n] \in Int
  BY <1>1, TakenLineTypes
<1>3. \A n \in Stage4 : left[n] = Capacity(d, a[1])[n] - Keyed(StageOf(v, n), k, L, a[1])
  BY <1>1, LeftIsCapacityLess
<1>4. \A n \in Stage4 : Keyed(StageOf(v, n), k, L, a[1]) \in Nat
  <2> TAKE n \in Stage4
  <2>1. StageOf(v, n) \in [L -> Nat]
    BY <1>1 DEF StageOf
  <2>2. QED BY <1>1, <2>1, KeyedBasics
<1>5. \A n \in Stage4 : Capacity(d, a[1])[n] \in Nat
                        /\ Keyed(StageOf(v, n), k, L, a[1]) <= Capacity(d, a[1])[n]
  BY <1>1, CapacityIsNatural DEF FitSwaps
<1> HIDE DEF left, k
<1>6. \A n \in Stage4 : left[n] >= 0
  BY <1>3, <1>4, <1>5
<1>7. /\ \A n \in Stage4 : t[n] \in Nat /\ t[n] <= left[n]
      /\ ~Galvanizes(d, a[2]) => Fabricated(t) = 0
  BY <1>1, <1>2, <1>6, TakenTypes
<1>8. w = [v EXCEPT ![a] = t]
  BY DEF TakenLine, left
<1> HIDE DEF t, w
<1>9. w[a] = t /\ \A l \in L : l # a => w[l] = v[l]
  BY <1>1, <1>8
<1>10. \A l \in L, n \in Stage4 : w[l][n] \in Nat
  <2> TAKE l \in L, n \in Stage4
  <2>1. CASE l = a
    BY <1>7, <1>9, <2>1
  <2>2. CASE l # a
    BY <1>1, <1>9, <2>2
  <2>3. QED BY <2>1, <2>2
<1>11. \A l \in L : ~Galvanizes(d, l[2]) => Fabricated(w[l]) = 0
  <2> TAKE l \in L
  <2>1. CASE l = a
    BY <1>7, <1>9, <2>1
  <2>2. CASE l # a
    BY <1>9, <2>2 DEF FitSwaps
  <2>3. QED BY <2>1, <2>2
<1>12. ASSUME NEW y \in Items, NEW n \in Stage4
       PROVE  Keyed(StageOf(w, n), k, L, y) <= Capacity(d, y)[n]
  <2> DEFINE f == StageOf(v, n)
             g == StageOf(w, n)
  <2>1. /\ f \in [L -> Int] /\ g \in [L -> Int] /\ f[a] = 0 /\ g[a] = t[n]
        /\ \A l \in L : l # a => g[l] = f[l]
    BY <1>1, <1>2, <1>9, StageNamesOfNothing DEF StageOf
  <2>2. Keyed(f, k, L, y) <= Capacity(d, y)[n]
    BY DEF FitSwaps, k
  <2> HIDE DEF f, g
  <2>3. Keyed(g, k, L, y) = Keyed(f, k, L, y) + IF k[a] = y THEN g[a] - f[a] ELSE 0
    BY <1>1, <2>1, KeyedOfOneChange
  <2>4. Keyed(f, k, L, y) \in Int
    BY <1>1, <2>1, KeyedGrows
  <2>5. k[a] = a[1]
    BY DEF k, ToOf
  <2>6. CASE a[1] = y
    <3>1. Keyed(g, k, L, y) = Keyed(f, k, L, y) + t[n]
      BY <1>7, <2>1, <2>3, <2>4, <2>5, <2>6
    <3>2. t[n] <= Capacity(d, y)[n] - Keyed(f, k, L, y)
      BY <1>3, <1>7, <2>6 DEF f
    <3>3. Capacity(d, y)[n] \in Int /\ t[n] \in Int
      BY <1>5, <1>7, <2>6
    <3>4. Keyed(g, k, L, y) <= Capacity(d, y)[n]
      BY <2>4, <3>1, <3>2, <3>3
    <3>5. QED BY <3>4 DEF g
  <2>7. CASE a[1] # y
    <3>1. Keyed(g, k, L, y) = Keyed(f, k, L, y)
      BY <2>3, <2>4, <2>5, <2>7
    <3>2. QED BY <2>2, <3>1 DEF g
  <2>8. QED BY <2>6, <2>7
<1>13. QED BY <1>2, <1>10, <1>11, <1>12 DEF FitSwaps, k, w

LEMMA SwapsFit ==
  ASSUME NEW d \in Database, NEW q, LinesOK(q)
  PROVE  FitSwaps(d, q, StageSwaps(d, q))
<1> DEFINE L == DOMAIN q
<1>1. PICK h : /\ StageSwaps(d, q) = h[L]
               /\ h[{}] = [line \in L |-> Nothing]
               /\ \A s \in SUBSET L : s # {} =>
                    h[s] = TakenLine(d, q, h[s \ {LastOf(s)}], LastOf(s))
  BY SwapsAreSolved
<1> DEFINE G == {s \in SUBSET L : FitSwaps(d, q, h[s]) /\ \A l \in L \ s : h[s][l] = Nothing}
<1>2. IsFiniteSet(L) /\ \A s \in SUBSET L : s # {} => LastOf(s) \in s
  BY LastOfIsMember DEF LinesOK
<1>3. {} \in G
  <2> DEFINE w == [line \in L |-> Nothing]
  <2>1. w \in [L -> Take] /\ \A l \in L, n \in Stage4 : w[l] = Nothing /\ w[l][n] = 0
    BY StageNamesOfNothing
  <2>2. Fabricated(Nothing) = 0
    BY DEF Fabricated, Nothing
  <2>3. \A y \in Items, n \in Stage4 : Keyed(StageOf(w, n), ToOf(L), L, y) <= Capacity(d, y)[n]
    <3> TAKE y \in Items, n \in Stage4
    <3>1. StageOf(w, n) \in [L -> Nat] /\ \A l \in L : StageOf(w, n)[l] = 0
      BY <2>1 DEF StageOf
    <3>2. Keyed(StageOf(w, n), ToOf(L), L, y) = 0
      BY <1>2, <3>1, KeyedBasics
    <3>3. QED BY <3>2, CapacityIsNatural
  <2>4. w = h[{}]
    BY <1>1
  <2> HIDE DEF w
  <2>5. FitSwaps(d, q, w)
    <3>1. \A l \in L, n \in Stage4 : w[l][n] \in Nat
      BY <2>1
    <3>2. \A l \in L : Fabricated(w[l]) = 0
      <4> TAKE l \in L
      <4>1. w[l] = Nothing
        BY <2>1 DEF Stage4
      <4>2. QED BY <2>2, <4>1
    <3>3. w \in [L -> Take]
      BY <2>1
    <3>4. QED BY <2>3, <3>1, <3>2, <3>3 DEF FitSwaps
  <2>6. \A l \in L : w[l] = Nothing
    BY <2>1 DEF Stage4
  <2>7. QED BY <2>4, <2>5, <2>6
<1>4. ASSUME NEW s \in SUBSET L, s # {} PROVE \E a \in s : s \ {a} \in G => s \in G
  <2> DEFINE a == LastOf(s)
  <2>1. a \in s /\ h[s] = TakenLine(d, q, h[s \ {a}], a)
    BY <1>1, <1>2, <1>4
  <2> HIDE DEF a
  <2>2. ASSUME s \ {a} \in G PROVE s \in G
    <3>1. FitSwaps(d, q, h[s \ {a}]) /\ \A l \in L \ (s \ {a}) : h[s \ {a}][l] = Nothing
      BY <2>2
    <3>2. FitSwaps(d, q, h[s])
      BY <2>1, <3>1, TakenLineFits
    <3>3. \A l \in L \ s : h[s][l] = h[s \ {a}][l]
      <4>1. h[s \ {a}] \in [L -> Take]
        BY <3>1 DEF FitSwaps
      <4>2. QED BY <2>1, <4>1 DEF TakenLine
    <3>4. \A l \in L \ s : h[s][l] = Nothing
      BY <3>1, <3>3
    <3>5. QED BY <3>2, <3>4
  <2>3. QED BY <2>1, <2>2
<1> HIDE DEF G
<1>5. L \in G
  BY <1>2, <1>3, <1>4, SubsetInduction
<1>6. QED BY <1>1, <1>5 DEF G

-----------------------------------------------------------------------------
\* n pieces are taken from the quantities p, the least members first: all of
\* them, as far as the quantities go.
Poured(p, n, s) ==
  [l \in s |-> AtLeastZero(MinOf(p[l], n - SumFunctionOnSet(p, {m \in s : m < l})))]

LEMMA PouredInAll ==
  ASSUME NEW S, IsFiniteSet(S), S \subseteq Nat, NEW p \in [S -> Nat], NEW n \in Nat
  PROVE  SumFunctionOnSet(Poured(p, n, S), S) = MinOf(n, SumFunctionOnSet(p, S))
<1> DEFINE G == {s \in SUBSET S : SumFunctionOnSet(Poured(p, n, s), s) = MinOf(n, SumFunctionOnSet(p, s))}
<1>1. {} \in G
  <2>1. SumFunctionOnSet(Poured(p, n, {}), {}) = 0 /\ SumFunctionOnSet(p, {}) = 0
    BY SumOfNothing
  <2>2. MinOf(n, 0) = 0
    BY DEF MinOf
  <2>3. QED BY <2>1, <2>2
<1>2. ASSUME NEW s \in SUBSET S, s # {} PROVE \E a \in s : s \ {a} \in G => s \in G
  <2> DEFINE R == {z \in s \X s : z[1] <= z[2]}
  <2>1. \A a, b \in s : <<a, b>> \in R <=> a <= b
    OBVIOUS
  <2>2. IsFiniteSet(s) /\ \A a \in s : a \in Nat
    BY FS_Subset
  <2> HIDE DEF R
  <2>3. \A a, b \in s : <<a, b>> \in R \/ <<b, a>> \in R
    <3> TAKE a, b \in s
    <3>1. a \in Nat /\ b \in Nat
      BY <2>2
    <3>2. a <= b \/ b <= a
      BY <3>1
    <3>3. QED BY <2>1, <3>2
  <2>4. \A a, b, c \in s : <<a, b>> \in R /\ <<b, c>> \in R => <<a, c>> \in R
    BY <2>1, <2>2
  <2>5. PICK a \in s : \A b \in s : <<b, a>> \in R
    BY <1>2, <2>2, <2>3, <2>4, LastExists
  <2>6. \A b \in s : b <= a
    BY <2>1, <2>5
  <2> DEFINE r == s \ {a}
             f == Poured(p, n, s)
             g == Poured(p, n, r)
             old == SumFunctionOnSet(p, r)
  <2>7. ASSUME r \in G PROVE s \in G
    <3>1. \A l \in r : {m \in s : m < l} = {m \in r : m < l}
      BY <2>2, <2>6
    <3>2. \A l \in r : f[l] = g[l]
      BY <3>1 DEF Poured
    <3>3. {m \in s : m < a} = r
      <4>1. a \in Nat /\ ~(a < a)
        BY <2>2
      <4>2. \A m \in s : m < a <=> m # a
        BY <2>2, <2>6, <4>1
      <4>3. QED BY <4>2
    <3>4. f[a] = AtLeastZero(MinOf(p[a], n - old))
      BY <3>3 DEF Poured
    <3>5. IsFiniteSet(r) /\ \A l \in r : p[l] \in Nat
      BY <2>2, FS_Subset
    <3>6. old \in Nat
      BY <3>5, SumOfNaturals
    <3>7. \A l \in s : f[l] \in Int
      <4> TAKE l \in s
      <4>1. p[l] \in Nat /\ IsFiniteSet({m \in s : m < l}) /\ \A m \in {k \in s : k < l} : p[m] \in Nat
        BY <2>2, FS_Subset
      <4>2. SumFunctionOnSet(p, {m \in s : m < l}) \in Nat
        BY <4>1, SumOfNaturals
      <4>3. QED BY <4>1, <4>2 DEF Poured, AtLeastZero, MinOf
    <3>8. SumFunctionOnSet(p, s) = p[a] + old
      <4>1. \A l \in s : p[l] \in Int
        OBVIOUS
      <4>2. QED BY <2>2, <4>1, SumOfOneAndRest
    <3>9. SumFunctionOnSet(g, r) = MinOf(n, old)
      BY <2>7
    <3> HIDE DEF f, g, old, r
    <3>10. SumFunctionOnSet(f, r) = SumFunctionOnSet(g, r)
      BY <3>2, <3>5, SumCongruence
    <3>11. SumFunctionOnSet(f, s) = f[a] + SumFunctionOnSet(f, r)
      BY <2>2, <3>7, SumOfOneAndRest DEF r
    <3>12. AtLeastZero(MinOf(p[a], n - old)) + MinOf(n, old) = MinOf(n, p[a] + old)
      <4>1. p[a] \in Nat
        OBVIOUS
      <4>2. QED BY <3>6, <4>1 DEF AtLeastZero, MinOf
    <3>13. SumFunctionOnSet(f, s) = MinOf(n, SumFunctionOnSet(p, s))
      BY <3>4, <3>8, <3>9, <3>10, <3>11, <3>12
    <3>14. QED BY <3>13 DEF f
  <2>8. QED BY <2>7
<1> HIDE DEF G
<1>3. S \in G
  BY <1>1, <1>2, SubsetInduction
<1>4. QED BY <1>3 DEF G

\* What the loads keep of item y for the galvanizer, and what of n pieces
\* leaves each of them.
AtGalvanizer(d, y) == [l \in Loads |-> d.link[l][y].sent - d.link[l][y].returned]
Moved(d, y, n) == Poured(AtGalvanizer(d, y), n, Loads)

LEMMA MovedIsThere ==
  ASSUME NEW d \in Database, LinksNest(d), NEW y \in Items, NEW n \in Nat
  PROVE  /\ \A l \in Loads : Moved(d, y, n)[l] \in Nat /\ Moved(d, y, n)[l] <= AtGalvanizer(d, y)[l]
         /\ n <= Sent(d, y) - Back(d, y) => SumFunctionOnSet(Moved(d, y, n), Loads) = n
<1> DEFINE p == AtGalvanizer(d, y)
<1>1. p \in [Loads -> Nat]
  <2>1. \A l \in Loads : /\ d.link[l][y].sent \in Nat /\ d.link[l][y].returned \in Nat
                         /\ d.link[l][y].returned <= d.link[l][y].sent
    BY ItemRows DEF LinksNest
  <2>2. \A l \in Loads : d.link[l][y].sent - d.link[l][y].returned \in Nat
    BY <2>1
  <2>3. QED BY <2>2 DEF AtGalvanizer
<1>2. IsFiniteSet(Loads) /\ Loads \subseteq Nat
  BY LoadsAssumption
<1>3. SumFunctionOnSet(p, Loads) = Sent(d, y) - Back(d, y)
  <2> DEFINE f == [l \in Loads |-> d.link[l][y].sent]
             g == [l \in Loads |-> d.link[l][y].returned]
  <2>1. Sent(d, y) = SumFunctionOnSet(f, Loads) /\ Back(d, y) = SumFunctionOnSet(g, Loads)
    BY DEF Sent, Back, SumFunction
  <2>2. \A l \in Loads : f[l] \in Int /\ g[l] \in Int /\ p[l] \in Int
    BY ItemRows DEF AtGalvanizer
  <2>3. \A l \in Loads : p[l] = f[l] - g[l]
    BY DEF AtGalvanizer
  <2> HIDE DEF f, g, p
  <2>4. \A l \in Loads : g[l] \in Int /\ p[l] \in Int /\ f[l] = g[l] + p[l]
    BY <2>2, <2>3
  <2>5. SumFunctionOnSet(f, Loads) = SumFunctionOnSet(g, Loads) + SumFunctionOnSet(p, Loads)
    BY <1>2, <2>4, SumOfSums
  <2>6. SumFunctionOnSet(g, Loads) \in Int /\ SumFunctionOnSet(p, Loads) \in Int
    BY <1>2, <2>2, SumType
  <2>7. QED BY <2>1, <2>5, <2>6
<1> HIDE DEF p
<1>4. SumFunctionOnSet(Poured(p, n, Loads), Loads) = MinOf(n, SumFunctionOnSet(p, Loads))
  BY <1>1, <1>2, PouredInAll
<1>5. \A l \in Loads : Poured(p, n, Loads)[l] \in Nat /\ Poured(p, n, Loads)[l] <= p[l]
  <2> TAKE l \in Loads
  <2>1. IsFiniteSet({m \in Loads : m < l}) /\ \A m \in {k \in Loads : k < l} : p[m] \in Nat
    BY <1>1, <1>2, FS_Subset
  <2>2. SumFunctionOnSet(p, {m \in Loads : m < l}) \in Nat
    BY <2>1, SumOfNaturals
  <2>3. QED BY <1>1, <2>2 DEF Poured, AtLeastZero, MinOf
<1>6. Sent(d, y) \in Nat /\ Back(d, y) \in Nat
  BY LoadSums
<1>7. n <= Sent(d, y) - Back(d, y) => MinOf(n, Sent(d, y) - Back(d, y)) = n
  BY <1>6 DEF MinOf
<1>8. QED BY <1>3, <1>4, <1>5, <1>7 DEF Moved, p

MovedRow(row, y, x, k) == [row EXCEPT ![y].sent = @ - k, ![x].sent = @ + k]

LEMMA MoveIsMoved ==
  ASSUME NEW d \in Database, NEW y \in Items, NEW x \in Items, NEW n \in Nat
  PROVE  MoveInLoads(d, y, x, n) =
           [d EXCEPT !.link = [l \in Loads |-> MovedRow(d.link[l], y, x, Moved(d, y, n)[l])]]
<1> DEFINE pending == [l \in Loads |-> d.link[l][y].sent - d.link[l][y].returned]
           older(l) == SumFunction([m \in {k \in Loads : k < l} |-> pending[m]])
           moved(l) == AtLeastZero(MinOf(pending[l], n - older(l)))
<1>1. pending = AtGalvanizer(d, y)
  BY DEF AtGalvanizer
<1>2. \A l \in Loads : older(l) = SumFunctionOnSet(pending, {k \in Loads : k < l})
  <2> TAKE l \in Loads
  <2> DEFINE S == {k \in Loads : k < l}
             f == [m \in S |-> pending[m]]
  <2>1. DOMAIN f = S /\ \A m \in S : f[m] = pending[m]
    OBVIOUS
  <2>2. IsFiniteSet(S)
    BY LoadsAssumption, FS_Subset
  <2>a. older(l) = SumFunction(f)
    OBVIOUS
  <2> HIDE DEF f, S, pending
  <2>3. SumFunction(f) = SumFunctionOnSet(f, S)
    BY <2>1, SumIsOnDomain
  <2>4. SumFunctionOnSet(f, S) = SumFunctionOnSet(pending, S)
    BY <2>1, <2>2, SumCongruence
  <2>5. SumFunction(f) = SumFunctionOnSet(pending, S)
    BY <2>3, <2>4
  <2>6. QED BY <2>a, <2>5 DEF S
<1>3. \A l \in Loads : moved(l) = Moved(d, y, n)[l]
  <2> HIDE DEF pending, older
  <2>1. QED BY <1>1, <1>2 DEF Moved, Poured
<1>4. MoveInLoads(d, y, x, n) =
        [d EXCEPT !.link = [l \in Loads |-> MovedRow(d.link[l], y, x, moved(l))]]
  BY DEF MoveInLoads, MovedRow
<1> HIDE DEF moved
<1>5. [l \in Loads |-> MovedRow(d.link[l], y, x, moved(l))]
        = [l \in Loads |-> MovedRow(d.link[l], y, x, Moved(d, y, n)[l])]
  BY <1>3
<1>6. QED BY <1>4, <1>5

LEMMA MoveColumns ==
  ASSUME NEW d \in Database, LinksNest(d), NEW y \in Items, NEW x \in Items, x # y, NEW n \in Nat
  PROVE  LET e == MoveInLoads(d, y, x, n)
             m == Moved(d, y, n) IN
         /\ e = [d EXCEPT !.link = e.link]
         /\ e \in Database
         /\ e.item = d.item /\ e.exp = d.exp /\ e.away = d.away /\ e.swap = d.swap
         /\ \A l \in Loads :
              /\ e.link[l][y].sent = d.link[l][y].sent - m[l]
              /\ e.link[l][x].sent = d.link[l][x].sent + m[l]
              /\ \A j \in Items : /\ j # y /\ j # x => e.link[l][j].sent = d.link[l][j].sent
                                  /\ e.link[l][j].returned = d.link[l][j].returned
<1> DEFINE e == MoveInLoads(d, y, x, n)
           m == Moved(d, y, n)
           row(l) == MovedRow(d.link[l], y, x, m[l])
<1>1. e = [d EXCEPT !.link = [l \in Loads |-> row(l)]]
  BY MoveIsMoved
<1>2. \A l \in Loads : m[l] \in Nat /\ m[l] <= d.link[l][y].sent - d.link[l][y].returned
  BY MovedIsThere DEF AtGalvanizer
<1> HIDE DEF e, m
<1>3. ASSUME NEW l \in Loads
      PROVE  /\ row(l) \in [Items -> LoadItem]
             /\ row(l)[y].sent = d.link[l][y].sent - m[l]
             /\ row(l)[x].sent = d.link[l][x].sent + m[l]
             /\ \A j \in Items : /\ j # y /\ j # x => row(l)[j].sent = d.link[l][j].sent
                                 /\ row(l)[j].returned = d.link[l][j].returned
  <2> DEFINE k == d.link[l]
             less == k[y].sent - m[l]
             more == k[x].sent + m[l]
  <2>1. less \in Nat /\ more \in Nat
    BY <1>2, ItemRows
  <2>2. k \in [Items -> LoadItem]
    BY DEF Database
  <2>3. row(l) = [k EXCEPT ![y].sent = less, ![x].sent = more]
    BY <2>2 DEF MovedRow
  <2> HIDE DEF k, less, more, row
  <2>4. /\ row(l) \in [Items -> LoadItem]
        /\ row(l)[y].sent = less /\ row(l)[x].sent = more
        /\ \A j \in Items : /\ j # y /\ j # x => row(l)[j].sent = k[j].sent
                            /\ row(l)[j].returned = k[j].returned
    BY <2>1, <2>2, <2>3 DEF LoadItem
  <2>5. QED BY <2>4 DEF k, less, more
<1> HIDE DEF row
<1>4. /\ e.link = [l \in Loads |-> row(l)] /\ e = [d EXCEPT !.link = e.link]
      /\ e.item = d.item /\ e.exp = d.exp /\ e.away = d.away /\ e.swap = d.swap
  BY <1>1 DEF Database
<1>5. e.link \in [Loads -> [Items -> LoadItem]]
  BY <1>3, <1>4
<1>6. e \in Database
  BY <1>4, <1>5 DEF Database
<1>7. \A l \in Loads : e.link[l] = row(l)
  BY <1>4
<1>8. QED BY <1>3, <1>4, <1>6, <1>7 DEF e, m

LEMMA MoveSums ==
  ASSUME NEW d \in Database, LinksNest(d), NEW y \in Items, NEW x \in Items, x # y, NEW n \in Nat
  PROVE  LET e == MoveInLoads(d, y, x, n) IN
         /\ LinksNest(e)
         /\ n <= Sent(d, y) - Back(d, y) =>
              Sent(e, y) = Sent(d, y) - n /\ Sent(e, x) = Sent(d, x) + n
         /\ \A j \in Items : j # y /\ j # x => Sent(e, j) = Sent(d, j)
         /\ \A j \in Items : Back(e, j) = Back(d, j)
<1> DEFINE e == MoveInLoads(d, y, x, n)
           m == Moved(d, y, n)
           sent(c, j) == [l \in Loads |-> c.link[l][j].sent]
<1>1. /\ e \in Database /\ e.away = d.away
      /\ \A l \in Loads :
           /\ e.link[l][y].sent = d.link[l][y].sent - m[l]
           /\ e.link[l][x].sent = d.link[l][x].sent + m[l]
           /\ \A j \in Items : /\ j # y /\ j # x => e.link[l][j].sent = d.link[l][j].sent
                               /\ e.link[l][j].returned = d.link[l][j].returned
  BY MoveColumns
<1>2. /\ \A l \in Loads : m[l] \in Nat /\ m[l] <= d.link[l][y].sent - d.link[l][y].returned
      /\ n <= Sent(d, y) - Back(d, y) => SumFunctionOnSet(m, Loads) = n
  BY MovedIsThere DEF AtGalvanizer
<1>3. \A j \in Items : /\ Sent(e, j) = SumFunctionOnSet(sent(e, j), Loads)
                       /\ Sent(d, j) = SumFunctionOnSet(sent(d, j), Loads)
  BY DEF Sent, SumFunction
<1>4. \A l \in Loads, j \in Items : d.link[l][j].sent \in Nat /\ d.link[l][j].returned \in Nat
  BY ItemRows
<1>5. IsFiniteSet(Loads)
  BY LoadsAssumption
<1> HIDE DEF e, m
<1>6. LinksNest(e)
  <2>1. ASSUME NEW l \in Loads, NEW j \in Items
        PROVE  e.link[l][j].returned <= e.link[l][j].sent
    <3>1. d.link[l][j].returned <= d.link[l][j].sent
      BY DEF LinksNest
    <3>2. CASE j = y
      BY <1>1, <1>2, <1>4, <3>2
    <3>3. CASE j = x
      BY <1>1, <1>2, <1>4, <3>1, <3>3
    <3>4. CASE j # y /\ j # x
      BY <1>1, <3>1, <3>4
    <3>5. QED BY <3>2, <3>3, <3>4
  <2>2. \A l \in Loads, j \in Items : ~e.away[l] => e.link[l][j].returned = 0
    BY <1>1 DEF LinksNest
  <2>3. QED BY <2>1, <2>2 DEF LinksNest
<1>7. ASSUME n <= Sent(d, y) - Back(d, y) PROVE Sent(e, y) = Sent(d, y) - n
  <2> DEFINE f == sent(e, y)
             g == sent(d, y)
  <2>1. \A l \in Loads : f[l] \in Int /\ m[l] \in Int /\ g[l] = f[l] + m[l]
    BY <1>1, <1>2, <1>4
  <2>2. Sent(e, y) = SumFunctionOnSet(f, Loads) /\ Sent(d, y) = SumFunctionOnSet(g, Loads)
    BY <1>3
  <2> HIDE DEF f, g
  <2>3. SumFunctionOnSet(g, Loads) = SumFunctionOnSet(f, Loads) + SumFunctionOnSet(m, Loads)
    BY <1>5, <2>1, SumOfSums
  <2>4. SumFunctionOnSet(f, Loads) \in Int
    BY <1>5, <2>1, SumType
  <2>5. QED BY <1>2, <1>7, <2>2, <2>3, <2>4
<1>8. ASSUME n <= Sent(d, y) - Back(d, y) PROVE Sent(e, x) = Sent(d, x) + n
  <2> DEFINE f == sent(e, x)
             g == sent(d, x)
  <2>1. \A l \in Loads : g[l] \in Int /\ m[l] \in Int /\ f[l] = g[l] + m[l]
    BY <1>1, <1>2, <1>4
  <2>2. Sent(e, x) = SumFunctionOnSet(f, Loads) /\ Sent(d, x) = SumFunctionOnSet(g, Loads)
    BY <1>3
  <2> HIDE DEF f, g
  <2>3. SumFunctionOnSet(f, Loads) = SumFunctionOnSet(g, Loads) + SumFunctionOnSet(m, Loads)
    BY <1>5, <2>1, SumOfSums
  <2>4. QED BY <1>2, <1>8, <2>2, <2>3
<1>9. \A j \in Items : j # y /\ j # x => Sent(e, j) = Sent(d, j)
  BY <1>1, LinksDecide
<1>10. \A j \in Items : Back(e, j) = Back(d, j)
  BY <1>1, LinksDecide
<1>11. QED BY <1>6, <1>7, <1>8, <1>9, <1>10 DEF e

LEMMA ExchangedColumns ==
  ASSUME NEW x \in Exchanged, NEW n \in Nat, NEW t, Owed(t) \in Nat, Fabricated(t) \in Nat
  PROVE  /\ GivesReady(x, n, t) \in Exchanged
         /\ GivesReady(x, n, t).given = x.given + n
         /\ GivesReady(x, n, t).pending = x.pending + Owed(t)
         /\ GivesReady(x, n, t).fabIn = x.fabIn + Fabricated(t)
         /\ GivesReady(x, n, t).out = x.out /\ GivesReady(x, n, t).fabOut = x.fabOut
         /\ GivesReady(x, n, t).received = x.received /\ GivesReady(x, n, t).completed = x.completed
         /\ ReceivesReady(x, n, t) \in Exchanged
         /\ ReceivesReady(x, n, t).received = x.received + n
         /\ ReceivesReady(x, n, t).out = x.out + Owed(t)
         /\ ReceivesReady(x, n, t).fabOut = x.fabOut + Fabricated(t)
         /\ ReceivesReady(x, n, t).given = x.given /\ ReceivesReady(x, n, t).pending = x.pending
         /\ ReceivesReady(x, n, t).fabIn = x.fabIn /\ ReceivesReady(x, n, t).completed = x.completed
<1> DEFINE a1 == x.given + n
           a2 == x.pending + Owed(t)
           a3 == x.fabIn + Fabricated(t)
           b1 == x.received + n
           b2 == x.out + Owed(t)
           b3 == x.fabOut + Fabricated(t)
<1>1. /\ x.given \in Nat /\ x.pending \in Nat /\ x.fabIn \in Nat
      /\ x.received \in Nat /\ x.out \in Nat /\ x.fabOut \in Nat
  BY DEF Exchanged
<1>2. a1 \in Nat /\ a2 \in Nat /\ a3 \in Nat /\ b1 \in Nat /\ b2 \in Nat /\ b3 \in Nat
  BY <1>1
<1>3. /\ GivesReady(x, n, t) = [x EXCEPT !.given = a1, !.pending = a2, !.fabIn = a3]
      /\ ReceivesReady(x, n, t) = [x EXCEPT !.received = b1, !.out = b2, !.fabOut = b3]
  BY DEF GivesReady, ReceivesReady
<1> DEFINE u == GivesReady(x, n, t)
           v == ReceivesReady(x, n, t)
<1> HIDE DEF a1, a2, a3, b1, b2, b3, u, v
<1>4. /\ u = [x EXCEPT !.given = a1, !.pending = a2, !.fabIn = a3]
      /\ v = [x EXCEPT !.received = b1, !.out = b2, !.fabOut = b3]
  BY <1>3 DEF u, v
<1>5. u \in Exchanged /\ v \in Exchanged
  BY <1>2, <1>4 DEF Exchanged
<1>6. /\ u.given = a1 /\ u.pending = a2 /\ u.fabIn = a3
      /\ u.out = x.out /\ u.fabOut = x.fabOut /\ u.received = x.received /\ u.completed = x.completed
  BY <1>4 DEF Exchanged
<1>7. /\ v.received = b1 /\ v.out = b2 /\ v.fabOut = b3
      /\ v.given = x.given /\ v.pending = x.pending /\ v.fabIn = x.fabIn /\ v.completed = x.completed
  BY <1>4 DEF Exchanged
<1>8. QED BY <1>5, <1>6, <1>7 DEF a1, a2, a3, b1, b2, b3, u, v

\* What a line is written as: n ready pieces of x to y, pieces t of y to x.
LEMMA AppliedColumns ==
  ASSUME NEW d \in Database, LinksNest(d), NEW y \in Items, NEW x \in Items, x # y,
         NEW n \in Nat, NEW t \in Take, \A m \in Stage4 : t[m] \in Nat
  PROVE  LET e == ApplyLine(d, y, x, n, t) IN
         /\ e \in Database /\ e.away = d.away
         /\ e.link = MoveInLoads(d, y, x, t.inGalvanization).link
         /\ e.swap[x] = GivesReady(d.swap[x], n, t) /\ e.swap[y] = ReceivesReady(d.swap[y], n, t)
         /\ e.exp[x] = GivenFrom(d.exp[x], n)
         /\ e.exp[y].avail = d.exp[y].avail + n /\ e.exp[y].sep = d.exp[y].sep
         /\ e.exp[y].del = d.exp[y].del /\ e.exp[y].rem = d.exp[y].rem
         /\ ~e.exp[y].closed /\ (e.exp[x].closed => d.exp[x].closed)
         /\ \A j \in Items : j # x /\ j # y => e.swap[j] = d.swap[j] /\ e.exp[j] = d.exp[j]
         /\ \A j \in Items : /\ e.item[j].flow = d.item[j].flow
                             /\ e.item[j].produced = d.item[j].produced
                             /\ e.item[j].delivered = d.item[j].delivered
<1> DEFINE g == t.inGalvanization
           mv == MoveInLoads(d, y, x, g)
           e == ApplyLine(d, y, x, n, t)
           none == Fabricated(t) = 0
           v == [d.item[x] EXCEPT !.galvanized = @ /\ none]
           w == [d.swap EXCEPT ![x] = GivesReady(@, n, t), ![y] = ReceivesReady(@, n, t)]
           r == [d.exp EXCEPT ![x] = GivenFrom(@, n), ![y] = ReceivedBy(@, n)]
<1>1. /\ g \in Nat /\ t.awaiting \in Nat /\ t.toProduce \in Nat /\ t.undefined \in Nat
  BY DEF Stage4
<1>2. /\ mv \in Database
      /\ mv.item = d.item /\ mv.exp = d.exp /\ mv.away = d.away /\ mv.swap = d.swap
  BY <1>1, MoveColumns
<1>3. e = [mv EXCEPT !.swap[x] = GivesReady(@, n, t), !.swap[y] = ReceivesReady(@, n, t),
                     !.item[x].galvanized = @ /\ none, !.exp[x] = GivenFrom(@, n),
                     !.exp[y] = ReceivedBy(@, n)]
  BY DEF ApplyLine
<1> HIDE DEF mv, e, none
<1>4. /\ e.link = mv.link /\ e.away = mv.away
      /\ e.swap = [mv.swap EXCEPT ![x] = GivesReady(@, n, t), ![y] = ReceivesReady(@, n, t)]
  BY <1>2, <1>3 DEF Database
<1>5. /\ e.item = [mv.item EXCEPT ![x].galvanized = @ /\ none]
      /\ e.exp = [mv.exp EXCEPT ![x] = GivenFrom(@, n), ![y] = ReceivedBy(@, n)]
  BY <1>2, <1>3 DEF Database
<1>6. e = [mv EXCEPT !.swap = e.swap, !.item = e.item, !.exp = e.exp]
  BY ZenonT(60), <1>2, <1>3 DEF Database
<1>7. /\ e.item = [d.item EXCEPT ![x] = v] /\ e.swap = w /\ e.exp = r
  BY <1>2, <1>4, <1>5 DEF Database
<1>8. v \in Item /\ v.flow = d.item[x].flow /\ v.produced = d.item[x].produced
      /\ v.delivered = d.item[x].delivered
  <2> DEFINE still == d.item[x].galvanized /\ none
  <2>1. still \in BOOLEAN /\ d.item[x] \in Item /\ v = [d.item[x] EXCEPT !.galvanized = still]
    BY ItemRows
  <2> HIDE DEF v, still
  <2>2. QED BY <2>1 DEF Item
<1>9. GivesReady(d.swap[x], n, t) \in Exchanged /\ ReceivesReady(d.swap[y], n, t) \in Exchanged
  <2>1. Owed(t) \in Nat /\ Fabricated(t) \in Nat
    BY <1>1 DEF Owed, Fabricated
  <2>2. d.swap[x] \in Exchanged /\ d.swap[y] \in Exchanged
    BY ItemRows
  <2>3. QED BY <2>1, <2>2, ExchangedColumns
<1>10. /\ GivenFrom(d.exp[x], n) \in ExpeditionItem
       /\ GivenFrom(d.exp[x], n).closed => d.exp[x].closed
       /\ ReceivedBy(d.exp[y], n) \in ExpeditionItem
       /\ ReceivedBy(d.exp[y], n) = [d.exp[y] EXCEPT !.avail = d.exp[y].avail + n, !.closed = FALSE]
  <2> DEFINE a == d.exp[x]
             given == a.rem + n
             kept == MaxOf(a.del, MinOf(a.sep, a.avail - a.rem - n))
             more == Outstanding(a) > n
             still == a.closed /\ more
             there == d.exp[y].avail + n
  <2>1. given \in Nat /\ kept \in Nat /\ there \in Nat
    BY Numbers DEF MaxOf, MinOf
  <2>2. a \in ExpeditionItem /\ d.exp[y] \in ExpeditionItem
    BY ItemRows
  <2>3. GivenFrom(a, n) = [a EXCEPT !.rem = given, !.sep = kept, !.closed = still]
    BY DEF GivenFrom
  <2>4. ReceivedBy(d.exp[y], n) = [d.exp[y] EXCEPT !.avail = there, !.closed = FALSE]
    BY DEF ReceivedBy
  <2>5. still \in BOOLEAN /\ (still => a.closed)
    OBVIOUS
  <2> HIDE DEF a, given, kept, still, there
  <2>6. GivenFrom(a, n) \in ExpeditionItem /\ GivenFrom(a, n).closed = still
    BY <2>1, <2>2, <2>3, <2>5 DEF ExpeditionItem
  <2>7. ReceivedBy(d.exp[y], n) \in ExpeditionItem
    BY <2>1, <2>2, <2>4 DEF ExpeditionItem
  <2>8. QED BY <2>4, <2>5, <2>6, <2>7 DEF a, there
<1>11. /\ w \in [Items -> Exchanged]
       /\ w[x] = GivesReady(d.swap[x], n, t) /\ w[y] = ReceivesReady(d.swap[y], n, t)
       /\ \A j \in Items : j # x /\ j # y => w[j] = d.swap[j]
  BY <1>9 DEF Database
<1>12. /\ r \in [Items -> ExpeditionItem]
       /\ r[x] = GivenFrom(d.exp[x], n) /\ r[y] = ReceivedBy(d.exp[y], n)
       /\ \A j \in Items : j # x /\ j # y => r[j] = d.exp[j]
  BY <1>10 DEF Database
<1> HIDE DEF v, w, r
<1>13. /\ e.item \in [Items -> Item] /\ e.item[x] = v /\ \A j \in Items : j # x => e.item[j] = d.item[j]
  BY <1>7, <1>8 DEF Database
<1>14. e \in Database
  BY <1>2, <1>6, <1>7, <1>11, <1>12, <1>13 DEF Database
<1>15. /\ e.exp[y].avail = d.exp[y].avail + n /\ e.exp[y].sep = d.exp[y].sep
       /\ e.exp[y].del = d.exp[y].del /\ e.exp[y].rem = d.exp[y].rem
       /\ ~e.exp[y].closed /\ (e.exp[x].closed => d.exp[x].closed)
  <2>1. d.exp[y] \in ExpeditionItem
    BY ItemRows
  <2>2. ReceivedBy(d.exp[y], n) = [d.exp[y] EXCEPT !.avail = d.exp[y].avail + n, !.closed = FALSE]
    BY <1>10
  <2>3. e.exp[x] = GivenFrom(d.exp[x], n) /\ e.exp[y] = ReceivedBy(d.exp[y], n)
    BY <1>7, <1>12
  <2>4. QED BY <1>10, <2>1, <2>2, <2>3 DEF ExpeditionItem
<1>16. QED BY <1>2, <1>4, <1>7, <1>8, <1>11, <1>12, <1>13, <1>14, <1>15 DEF e, mv

-----------------------------------------------------------------------------
\* The lines are written one after the other.
AppliedLine(q, w, e, a) == ApplyLine(e, a[1], a[2], q[a], w[a])
AppliedLines(d, q, w) == InOrder(LAMBDA line, e : ApplyLine(e, line[1], line[2], q[line], w[line]), d, DOMAIN q)

LEMMA AppliedLineTypes ==
  ASSUME NEW d \in Database, LinksNest(d), NEW q, LinesOK(q), NEW w \in [DOMAIN q -> Take],
         \A l \in DOMAIN q, n \in Stage4 : w[l][n] \in Nat, NEW a \in DOMAIN q
  PROVE  AppliedLine(q, w, d, a) \in Database /\ LinksNest(AppliedLine(q, w, d, a))
<1> DEFINE y == a[1]
           x == a[2]
           n == q[a]
           t == w[a]
           e == ApplyLine(d, y, x, n, t)
           mv == MoveInLoads(d, y, x, t.inGalvanization)
<1>1. y \in Items /\ x \in Items /\ x # y /\ n \in Nat
  BY DEF LinesOK
<1>2. t \in Take /\ \A m \in Stage4 : t[m] \in Nat
  OBVIOUS
<1>3. AppliedLine(q, w, d, a) = e
  BY DEF AppliedLine
<1> HIDE DEF y, x, n, t
<1>4. t.inGalvanization \in Nat
  BY <1>2 DEF Stage4
<1>5. LinksNest(mv) /\ mv.away = d.away
  BY <1>1, <1>4, MoveSums, MoveColumns
<1>6. e \in Database /\ e.away = d.away /\ e.link = mv.link
  BY <1>1, <1>2, AppliedColumns
<1> HIDE DEF e, mv
<1>7. LinksNest(e)
  BY <1>5, <1>6 DEF LinksNest
<1>8. QED BY <1>3, <1>6, <1>7

LEMMA LinesAreSolved ==
  ASSUME NEW d \in Database, LinksNest(d), NEW q, LinesOK(q), NEW w \in [DOMAIN q -> Take],
         \A l \in DOMAIN q, n \in Stage4 : w[l][n] \in Nat
  PROVE  \E h : /\ AppliedLines(d, q, w) = h[DOMAIN q]
                /\ h[{}] = d
                /\ \A s \in SUBSET DOMAIN q : s # {} =>
                     h[s] = AppliedLine(q, w, h[s \ {LastOf(s)}], LastOf(s))
<1> DEFINE L == DOMAIN q
           D == {e \in Database : LinksNest(e)}
           step == [z \in L \X D |-> AppliedLine(q, w, z[2], z[1])]
           pick == [s \in SUBSET L |-> LastOf(s)]
           Solves(h) == h = [s \in SUBSET L |-> IF s = {} THEN d
                                                ELSE AppliedLine(q, w, h[s \ {LastOf(s)}], LastOf(s))]
           iter == CHOOSE h : Solves(h)
<1>1. IsFiniteSet(L) /\ \A s \in SUBSET L : s # {} => LastOf(s) \in s
  BY LastOfIsMember DEF LinesOK
<1>2. d \in D
  OBVIOUS
<1>3. \A x \in L, e \in D : AppliedLine(q, w, e, x) \in D
  BY AppliedLineTypes
<1>4. \A x \in L, e \in D : step[<<x, e>>] = AppliedLine(q, w, e, x)
  OBVIOUS
<1>5. Picks(pick, L)
  BY <1>1 DEF Picks
<1>6. PICK h : IsFold(h, step, d, pick, L)
  <2> HIDE DEF step, pick
  <2>1. QED BY <1>1, <1>5, FoldExists
<1>7. \A s \in SUBSET L : h[s] \in D
  <2>1. \A x \in L, e \in D : step[<<x, e>>] \in D
    <3> HIDE DEF step, D
    <3>1. QED BY <1>3, <1>4
  <2> HIDE DEF step, D, pick
  <2>2. QED BY <1>1, <1>2, <1>5, <1>6, <2>1, FoldStays
<1>8. Solves(h)
  <2>1. \A s \in SUBSET L : s # {} => LastOf(s) \in L /\ h[s \ {LastOf(s)}] \in D
    BY <1>1, <1>7
  <2>2. \A s \in SUBSET L : s # {} =>
          step[<<LastOf(s), h[s \ {LastOf(s)}]>>] = AppliedLine(q, w, h[s \ {LastOf(s)}], LastOf(s))
    <3> HIDE DEF D, step
    <3>1. QED BY <1>4, <2>1
  <2> HIDE DEF D, step
  <2>3. QED BY <1>6, <2>2 DEF IsFold
<1>9. Solves(iter)
  BY <1>8
<1>10. AppliedLines(d, q, w) = iter[L]
  BY DEF AppliedLines, InOrder, MapThenFoldSet, AppliedLine
<1> HIDE DEF iter
<1>11. iter[{}] = d
  BY <1>9
<1>12. \A s \in SUBSET L : s # {} => iter[s] = AppliedLine(q, w, iter[s \ {LastOf(s)}], LastOf(s))
  BY <1>9
<1>13. QED BY <1>10, <1>11, <1>12

LEMMA KeyedOfSubset ==
  ASSUME NEW L, IsFiniteSet(L), NEW f \in [L -> Nat], NEW k, NEW i, NEW s \in SUBSET L
  PROVE  Keyed(f, k, s, i) <= Keyed(f, k, L, i)
<1> DEFINE G == {u \in SUBSET L : Keyed(f, k, s \cap u, i) <= Keyed(f, k, u, i)}
<1>1. {} \in G
  <2>1. s \cap {} = {} /\ Keyed(f, k, {}, i) = 0
    BY KeyedBasics
  <2>2. QED BY <2>1
<1>2. ASSUME NEW u \in SUBSET L, u # {} PROVE \E a \in u : u \ {a} \in G => u \in G
  <2>1. PICK a \in u : TRUE
    BY <1>2
  <2> DEFINE extra == IF k[a] = i THEN f[a] ELSE 0
  <2>2. ASSUME u \ {a} \in G PROVE u \in G
    <3>1. Keyed(f, k, u, i) = Keyed(f, k, u \ {a}, i) + extra /\ Keyed(f, k, u, i) \in Int
      BY KeyedGrows
    <3>2. /\ Keyed(f, k, s \cap (u \ {a}), i) <= Keyed(f, k, u \ {a}, i)
          /\ Keyed(f, k, s \cap (u \ {a}), i) \in Nat /\ Keyed(f, k, u \ {a}, i) \in Nat
          /\ extra \in Nat
      BY <2>2, KeyedBasics
    <3>3. CASE a \in s
      <4>1. a \in s \cap u /\ (s \cap u) \ {a} = s \cap (u \ {a})
        BY <3>3
      <4>2. Keyed(f, k, s \cap u, i) = Keyed(f, k, (s \cap u) \ {a}, i) + extra
        BY <4>1, KeyedGrows
      <4> HIDE DEF extra
      <4>3. Keyed(f, k, s \cap u, i) <= Keyed(f, k, u, i)
        BY <3>1, <3>2, <4>1, <4>2
      <4>4. QED BY <4>3
    <3>4. CASE a \notin s
      <4>1. s \cap u = s \cap (u \ {a})
        BY <3>4
      <4> HIDE DEF extra
      <4>a. Keyed(f, k, s \cap u, i) = Keyed(f, k, s \cap (u \ {a}), i)
        BY <4>1
      <4>2. Keyed(f, k, s \cap u, i) <= Keyed(f, k, u, i)
        BY <3>1, <3>2, <4>a
      <4>3. QED BY <4>2
    <3>5. QED BY <3>3, <3>4
  <2>3. QED BY <2>2
<1> HIDE DEF G
<1>3. L \in G
  BY <1>1, <1>2, SubsetInduction
<1>4. s \cap L = s
  OBVIOUS
<1>5. QED BY <1>3, <1>4 DEF G

\* What a set of lines makes of an item: it receives as a destination and gives
\* as a source.
OwedOf(w) == [l \in DOMAIN w |-> Owed(w[l])]
FabricatedOf(w) == [l \in DOMAIN w |-> Fabricated(w[l])]
AtGalvanizerOf(w) == StageOf(w, "inGalvanization")

TrackedItem(d, q, w, s, e, i) ==
  LET in(f) == Keyed(f, ToOf(DOMAIN q), s, i)
      out(f) == Keyed(f, FromOf(DOMAIN q), s, i)
  IN
  /\ e.item[i].flow = d.item[i].flow /\ e.item[i].produced = d.item[i].produced
  /\ e.item[i].delivered = d.item[i].delivered
  /\ e.exp[i].avail = d.exp[i].avail + in(q) /\ e.exp[i].rem = d.exp[i].rem + out(q)
  /\ e.exp[i].del = d.exp[i].del
  /\ IF \E l \in s : l[2] = i
     THEN e.exp[i].sep <= e.exp[i].del \/ e.exp[i].sep + e.exp[i].rem <= e.exp[i].avail
     ELSE e.exp[i].sep = d.exp[i].sep
  /\ e.swap[i].completed = d.swap[i].completed
  /\ e.swap[i].received = d.swap[i].received + in(q)
  /\ e.swap[i].out = d.swap[i].out + in(OwedOf(w))
  /\ e.swap[i].fabOut = d.swap[i].fabOut + in(FabricatedOf(w))
  /\ e.swap[i].given = d.swap[i].given + out(q)
  /\ e.swap[i].pending = d.swap[i].pending + out(OwedOf(w))
  /\ e.swap[i].fabIn = d.swap[i].fabIn + out(FabricatedOf(w))
  /\ Sent(e, i) = Sent(d, i) - in(AtGalvanizerOf(w)) + out(AtGalvanizerOf(w))
  /\ Back(e, i) = Back(d, i)

Tracked(d, q, w, s, e) ==
  /\ e \in Database /\ LinksNest(e)
  /\ \A i \in Items : TrackedItem(d, q, w, s, e, i)

LEMMA LineFunctions ==
  ASSUME NEW d, NEW q, LinesOK(q), NEW w, FitSwaps(d, q, w)
  PROVE  /\ q \in [DOMAIN q -> Nat] /\ OwedOf(w) \in [DOMAIN q -> Nat]
         /\ FabricatedOf(w) \in [DOMAIN q -> Nat]
         /\ \A n \in Stage4 : StageOf(w, n) \in [DOMAIN q -> Nat]
         /\ AtGalvanizerOf(w) \in [DOMAIN q -> Nat]
         /\ \A l \in DOMAIN q : /\ OwedOf(w)[l] = Owed(w[l]) /\ FabricatedOf(w)[l] = Fabricated(w[l])
                                /\ AtGalvanizerOf(w)[l] = w[l].inGalvanization
                                /\ Owed(w[l]) \in Nat /\ Fabricated(w[l]) \in Nat
<1>1. DOMAIN w = DOMAIN q /\ \A l \in DOMAIN q, n \in Stage4 : w[l][n] \in Nat
  BY DEF FitSwaps
<1>2. \A l \in DOMAIN q : /\ w[l].inGalvanization \in Nat /\ w[l].awaiting \in Nat
                          /\ w[l].toProduce \in Nat /\ w[l].undefined \in Nat
  BY <1>1 DEF Stage4
<1>3. \A l \in DOMAIN q : Owed(w[l]) \in Nat /\ Fabricated(w[l]) \in Nat
  BY <1>2 DEF Owed, Fabricated
<1>4. q \in [DOMAIN q -> Nat]
  BY DEF LinesOK
<1>5. \A n \in Stage4 : StageOf(w, n) \in [DOMAIN q -> Nat]
  BY <1>1 DEF StageOf
<1>6. "inGalvanization" \in Stage4
  BY DEF Stage4
<1>7. QED BY <1>1, <1>2, <1>3, <1>4, <1>5, <1>6 DEF OwedOf, FabricatedOf, AtGalvanizerOf, StageOf

LEMMA LineQuantities ==
  ASSUME NEW d, NEW q, LinesOK(q), NEW w, FitSwaps(d, q, w), NEW l \in DOMAIN q
  PROVE  /\ OwedOf(w)[l] = Owed(w[l]) /\ FabricatedOf(w)[l] = Fabricated(w[l])
         /\ AtGalvanizerOf(w)[l] = w[l].inGalvanization
         /\ Owed(w[l]) \in Nat /\ Fabricated(w[l]) \in Nat /\ w[l].inGalvanization \in Nat
<1>1. \A m \in DOMAIN q : /\ OwedOf(w)[m] = Owed(w[m]) /\ FabricatedOf(w)[m] = Fabricated(w[m])
                          /\ AtGalvanizerOf(w)[m] = w[m].inGalvanization
                          /\ Owed(w[m]) \in Nat /\ Fabricated(w[m]) \in Nat
  BY LineFunctions
<1>2. w[l].inGalvanization \in Nat
  BY DEF FitSwaps, Stage4
<1>3. QED BY <1>1, <1>2

\* What line a adds to the sums of a source and of a destination as it joins s.
Joined(f, L, s, a, i) ==
  /\ Keyed(f, ToOf(L), s, i) = Keyed(f, ToOf(L), s \ {a}, i) + IF a[1] = i THEN f[a] ELSE 0
  /\ Keyed(f, FromOf(L), s, i) = Keyed(f, FromOf(L), s \ {a}, i) + IF a[2] = i THEN f[a] ELSE 0
  /\ Keyed(f, ToOf(L), s \ {a}, i) \in Nat /\ Keyed(f, FromOf(L), s \ {a}, i) \in Nat
  /\ f[a] \in Nat

LEMMA SumsGrow ==
  ASSUME NEW L, IsFiniteSet(L), NEW f \in [L -> Nat], NEW s \in SUBSET L, NEW a \in s, NEW i
  PROVE  Joined(f, L, s, a, i)
<1>1. f \in [L -> Int]
  OBVIOUS
<1>2. ToOf(L)[a] = a[1] /\ FromOf(L)[a] = a[2]
  BY DEF ToOf, FromOf
<1>3. Keyed(f, ToOf(L), s, i)
        = Keyed(f, ToOf(L), s \ {a}, i) + IF ToOf(L)[a] = i THEN f[a] ELSE 0
  BY <1>1, KeyedGrows
<1>4. Keyed(f, FromOf(L), s, i)
        = Keyed(f, FromOf(L), s \ {a}, i) + IF FromOf(L)[a] = i THEN f[a] ELSE 0
  BY <1>1, KeyedGrows
<1>5. Keyed(f, ToOf(L), s \ {a}, i) \in Nat /\ Keyed(f, FromOf(L), s \ {a}, i) \in Nat
  BY KeyedBasics
<1>6. f[a] \in Nat
  OBVIOUS
<1>7. QED BY <1>2, <1>3, <1>4, <1>5, <1>6 DEF Joined

\* ExchangedColumns, for every exchange.
LEMMA ExchangedColumnsAll ==
  \A x \in Exchanged, n \in Nat : \A t : Owed(t) \in Nat /\ Fabricated(t) \in Nat =>
    /\ GivesReady(x, n, t).given = x.given + n
    /\ GivesReady(x, n, t).pending = x.pending + Owed(t)
    /\ GivesReady(x, n, t).fabIn = x.fabIn + Fabricated(t)
    /\ GivesReady(x, n, t).out = x.out /\ GivesReady(x, n, t).fabOut = x.fabOut
    /\ GivesReady(x, n, t).received = x.received /\ GivesReady(x, n, t).completed = x.completed
    /\ ReceivesReady(x, n, t).received = x.received + n
    /\ ReceivesReady(x, n, t).out = x.out + Owed(t)
    /\ ReceivesReady(x, n, t).fabOut = x.fabOut + Fabricated(t)
    /\ ReceivesReady(x, n, t).given = x.given /\ ReceivesReady(x, n, t).pending = x.pending
    /\ ReceivesReady(x, n, t).fabIn = x.fabIn /\ ReceivesReady(x, n, t).completed = x.completed
BY ExchangedColumns

LEMMA GalvanizerHasThem ==
  ASSUME NEW d \in Database, LinksNest(d), NEW q, LinesOK(q), NEW w, FitSwaps(d, q, w),
         NEW s \in SUBSET DOMAIN q, NEW a \in s, NEW e, TrackedItem(d, q, w, s \ {a}, e, a[1])
  PROVE  w[a].inGalvanization \in Nat
         /\ w[a].inGalvanization <= Sent(e, a[1]) - Back(e, a[1])
<1> DEFINE y == a[1]
           gal == AtGalvanizerOf(w)
           L == DOMAIN q
           in(u) == Keyed(gal, ToOf(L), u, y)
           out(u) == Keyed(gal, FromOf(L), u, y)
<1>0. AtGalvanizerOf(w) \in [DOMAIN q -> Nat]
  BY LineFunctions
<1>a. AtGalvanizerOf(w)[a] = w[a].inGalvanization
  BY LineQuantities
<1>1. IsFiniteSet(L) /\ y \in Items /\ gal \in [L -> Nat] /\ gal[a] = w[a].inGalvanization
  BY <1>0, <1>a DEF LinesOK
<1>2. in(s) = in(s \ {a}) + gal[a] /\ in(s \ {a}) \in Nat /\ gal[a] \in Nat
  <2>1. Joined(gal, L, s, a, y)
    BY <1>1, SumsGrow
  <2>2. QED BY <2>1 DEF Joined
<1>3. out(s \ {a}) = 0
  <2>1. \A l \in s \ {a} : FromOf(L)[l] # y
    BY DEF FromOf, LinesOK
  <2>2. s \ {a} \in SUBSET L
    OBVIOUS
  <2> HIDE DEF L, y, gal
  <2>3. QED BY <1>1, <2>1, <2>2, KeyedBasics
<1>4. in(s) <= in(L)
  BY <1>1, KeyedOfSubset
<1>5. in(L) <= Capacity(d, y)["inGalvanization"]
  <2>1. "inGalvanization" \in Stage4
    BY DEF Stage4
  <2>2. Keyed(StageOf(w, "inGalvanization"), ToOf(L), L, y) <= Capacity(d, y)["inGalvanization"]
    BY <1>1, <2>1 DEF FitSwaps
  <2>3. QED BY <2>2 DEF AtGalvanizerOf
<1>6. in(L) \in Nat
  BY <1>1, KeyedBasics
<1>7. /\ Capacity(d, y)["inGalvanization"] <= Sent(d, y) - Back(d, y)
      /\ Capacity(d, y)["inGalvanization"] \in Nat
  <2>1. Sent(d, y) \in Nat /\ Back(d, y) \in Nat /\ Back(d, y) <= Sent(d, y)
    BY <1>1, LoadSums
  <2>2. Capacity(d, y)["inGalvanization"] = Stages(d, y).inGalvanization
    BY DEF Capacity
  <2>3. Stages(d, y).inGalvanization \in {0, AtLeastZero(Sent(d, y) - Back(d, y))}
    BY DEF Stages
  <2> HIDE DEF y
  <2>4. QED BY <2>1, <2>2, <2>3 DEF AtLeastZero
<1>8. Sent(e, y) = Sent(d, y) - in(s \ {a}) + out(s \ {a}) /\ Back(e, y) = Back(d, y)
  BY DEF TrackedItem
<1>9. Sent(d, y) \in Nat /\ Back(d, y) \in Nat
  BY <1>1, LoadSums
<1> HIDE DEF in, out, gal, y
<1>10. gal[a] <= Sent(e, y) - Back(e, y)
  BY <1>2, <1>3, <1>4, <1>5, <1>6, <1>7, <1>8, <1>9
<1>11. QED BY <1>1, <1>2, <1>10 DEF y

LEMMA TrackedGrows ==
  ASSUME NEW d \in Database, LinksNest(d), NEW q, LinesOK(q), NEW w, FitSwaps(d, q, w),
         NEW s \in SUBSET DOMAIN q, NEW a \in s, NEW e, Tracked(d, q, w, s \ {a}, e)
  PROVE  Tracked(d, q, w, s, AppliedLine(q, w, e, a))
<1> DEFINE y == a[1]
           x == a[2]
           n == q[a]
           t == w[a]
           c == AppliedLine(q, w, e, a)
           mv == MoveInLoads(e, y, x, t.inGalvanization)
           g == t.inGalvanization
           L == DOMAIN q
           In(f, u, i) == Keyed(f, ToOf(L), u, i)
           Out(f, u, i) == Keyed(f, FromOf(L), u, i)
<1>1. /\ y \in Items /\ x \in Items /\ x # y /\ n \in Nat /\ a \in L /\ e \in Database /\ LinksNest(e)
      /\ \A i \in Items : TrackedItem(d, q, w, s \ {a}, e, i)
  BY DEF LinesOK, Tracked
<1>2. /\ t \in Take /\ \A m \in Stage4 : t[m] \in Nat
  BY DEF FitSwaps
<1>3. c \in Database /\ LinksNest(c)
  <2>1. w \in [DOMAIN q -> Take] /\ \A l \in DOMAIN q, m \in Stage4 : w[l][m] \in Nat
    BY DEF FitSwaps
  <2>2. QED BY <1>1, <2>1, AppliedLineTypes
<1>4. g \in Nat /\ g <= Sent(e, y) - Back(e, y)
  BY <1>1, GalvanizerHasThem
<1>5. c = ApplyLine(e, y, x, n, t)
  BY DEF AppliedLine
<1>6. /\ OwedOf(w)[a] = Owed(t) /\ FabricatedOf(w)[a] = Fabricated(t) /\ AtGalvanizerOf(w)[a] = g
      /\ Owed(t) \in Nat /\ Fabricated(t) \in Nat
  BY LineQuantities
<1> HIDE DEF y, x, n, t, c
<1>7. /\ c.link = mv.link
      /\ c.swap[x] = GivesReady(e.swap[x], n, t) /\ c.swap[y] = ReceivesReady(e.swap[y], n, t)
      /\ c.exp[x] = GivenFrom(e.exp[x], n)
      /\ c.exp[y].avail = e.exp[y].avail + n /\ c.exp[y].sep = e.exp[y].sep
      /\ c.exp[y].del = e.exp[y].del /\ c.exp[y].rem = e.exp[y].rem
      /\ \A j \in Items : j # x /\ j # y => c.swap[j] = e.swap[j] /\ c.exp[j] = e.exp[j]
      /\ \A j \in Items : /\ c.item[j].flow = e.item[j].flow
                          /\ c.item[j].produced = e.item[j].produced
                          /\ c.item[j].delivered = e.item[j].delivered
  BY <1>1, <1>2, <1>5, AppliedColumns
<1>8. /\ Sent(c, y) = Sent(e, y) - g /\ Sent(c, x) = Sent(e, x) + g
      /\ \A j \in Items : j # y /\ j # x => Sent(c, j) = Sent(e, j)
      /\ \A j \in Items : Back(c, j) = Back(e, j)
  <2>1. /\ Sent(mv, y) = Sent(e, y) - g /\ Sent(mv, x) = Sent(e, x) + g
        /\ \A j \in Items : j # y /\ j # x => Sent(mv, j) = Sent(e, j)
        /\ \A j \in Items : Back(mv, j) = Back(e, j)
    BY <1>1, <1>4, MoveSums
  <2>2. \A j \in Items : Sent(c, j) = Sent(mv, j) /\ Back(c, j) = Back(mv, j)
    BY <1>7 DEF Sent, Back
  <2>3. QED BY <1>1, <2>1, <2>2
<1>9. /\ q[a] = n /\ OwedOf(w)[a] = Owed(t) /\ FabricatedOf(w)[a] = Fabricated(t)
      /\ AtGalvanizerOf(w)[a] = g
  BY <1>6 DEF n
<1>10. \A i \in Items, f \in {q, OwedOf(w), FabricatedOf(w), AtGalvanizerOf(w)} :
         /\ In(f, s, i) = In(f, s \ {a}, i) + IF y = i THEN f[a] ELSE 0
         /\ Out(f, s, i) = Out(f, s \ {a}, i) + IF x = i THEN f[a] ELSE 0
         /\ In(f, s \ {a}, i) \in Nat /\ Out(f, s \ {a}, i) \in Nat /\ f[a] \in Nat
  <2>1. q \in [L -> Nat]
    BY LineFunctions
  <2>2. OwedOf(w) \in [L -> Nat]
    BY LineFunctions
  <2>3. FabricatedOf(w) \in [L -> Nat]
    BY LineFunctions
  <2>4. AtGalvanizerOf(w) \in [L -> Nat]
    BY LineFunctions
  <2>5. IsFiniteSet(L)
    BY DEF LinesOK
  <2> TAKE i \in Items, f \in {q, OwedOf(w), FabricatedOf(w), AtGalvanizerOf(w)}
  <2>6. f \in [L -> Nat]
    BY <2>1, <2>2, <2>3, <2>4
  <2>7. Joined(f, L, s, a, i)
    BY <2>5, <2>6, SumsGrow
  <2>8. QED BY <2>7 DEF Joined, y, x
<1> HIDE DEF mv, g, L, In, Out
<1>11. \A i \in Items : /\ Sent(e, i) \in Nat /\ Sent(d, i) \in Nat
  BY <1>1, LoadSums
<1>12. \A i \in Items : i # y /\ i # x => TrackedItem(d, q, w, s, c, i)
  <2> SUFFICES ASSUME NEW i \in Items, i # y, i # x PROVE TrackedItem(d, q, w, s, c, i)
    OBVIOUS
  <2>1. \A f \in {q, OwedOf(w), FabricatedOf(w), AtGalvanizerOf(w)} :
          In(f, s, i) = In(f, s \ {a}, i) /\ Out(f, s, i) = Out(f, s \ {a}, i)
    <3> TAKE f \in {q, OwedOf(w), FabricatedOf(w), AtGalvanizerOf(w)}
    <3>1. /\ In(f, s, i) = In(f, s \ {a}, i) + 0 /\ Out(f, s, i) = Out(f, s \ {a}, i) + 0
          /\ In(f, s \ {a}, i) \in Nat /\ Out(f, s \ {a}, i) \in Nat
      BY <1>10
    <3>2. QED BY <3>1
  <2>2. (\E l \in s : l[2] = i) <=> (\E l \in s \ {a} : l[2] = i)
    BY DEF x
  <2>3. TrackedItem(d, q, w, s \ {a}, e, i)
    BY <1>1
  <2>4. QED BY <1>7, <1>8, <2>1, <2>2, <2>3 DEF TrackedItem, In, Out, L
<1>13. TrackedItem(d, q, w, s, c, y)
  <2>1. \A f \in {q, OwedOf(w), FabricatedOf(w), AtGalvanizerOf(w)} :
          /\ In(f, s, y) = In(f, s \ {a}, y) + f[a] /\ Out(f, s, y) = Out(f, s \ {a}, y)
          /\ In(f, s \ {a}, y) \in Nat /\ Out(f, s, y) \in Nat
    <3> TAKE f \in {q, OwedOf(w), FabricatedOf(w), AtGalvanizerOf(w)}
    <3>1. /\ In(f, s, y) = In(f, s \ {a}, y) + f[a] /\ Out(f, s, y) = Out(f, s \ {a}, y) + 0
          /\ In(f, s \ {a}, y) \in Nat /\ Out(f, s \ {a}, y) \in Nat
      BY <1>1, <1>10
    <3>2. QED BY <3>1
  <2>2. ~(\E l \in s : l[2] = y)
    BY DEF LinesOK, y
  <2>3. TrackedItem(d, q, w, s \ {a}, e, y)
    BY <1>1
  <2>4. e.swap[y] \in Exchanged
    BY <1>1, ItemRows
  <2>5. /\ c.swap[y].received = e.swap[y].received + n /\ c.swap[y].out = e.swap[y].out + Owed(t)
        /\ c.swap[y].fabOut = e.swap[y].fabOut + Fabricated(t) /\ c.swap[y].given = e.swap[y].given
        /\ c.swap[y].pending = e.swap[y].pending /\ c.swap[y].fabIn = e.swap[y].fabIn
        /\ c.swap[y].completed = e.swap[y].completed
    BY <1>1, <1>6, <1>7, <2>4, ExchangedColumnsAll
  <2>6. /\ e.exp[y].avail = d.exp[y].avail + In(q, s \ {a}, y)
        /\ e.exp[y].rem = d.exp[y].rem + Out(q, s \ {a}, y)
        /\ e.exp[y].del = d.exp[y].del /\ e.exp[y].sep = d.exp[y].sep
        /\ e.swap[y].completed = d.swap[y].completed
        /\ e.swap[y].received = d.swap[y].received + In(q, s \ {a}, y)
        /\ e.swap[y].out = d.swap[y].out + In(OwedOf(w), s \ {a}, y)
        /\ e.swap[y].fabOut = d.swap[y].fabOut + In(FabricatedOf(w), s \ {a}, y)
        /\ e.swap[y].given = d.swap[y].given + Out(q, s \ {a}, y)
        /\ e.swap[y].pending = d.swap[y].pending + Out(OwedOf(w), s \ {a}, y)
        /\ e.swap[y].fabIn = d.swap[y].fabIn + Out(FabricatedOf(w), s \ {a}, y)
        /\ Sent(e, y) = Sent(d, y) - In(AtGalvanizerOf(w), s \ {a}, y)
                                   + Out(AtGalvanizerOf(w), s \ {a}, y)
        /\ Back(e, y) = Back(d, y)
    BY <2>2, <2>3 DEF TrackedItem, In, Out, L
  <2>7. /\ d.exp[y].avail \in Nat /\ d.swap[y].received \in Nat /\ d.swap[y].out \in Nat
        /\ d.swap[y].fabOut \in Nat
    BY <1>1, Numbers
  <2>8. /\ c.exp[y].avail = d.exp[y].avail + In(q, s, y)
        /\ c.swap[y].received = d.swap[y].received + In(q, s, y)
        /\ c.swap[y].out = d.swap[y].out + In(OwedOf(w), s, y)
        /\ c.swap[y].fabOut = d.swap[y].fabOut + In(FabricatedOf(w), s, y)
    BY <1>1, <1>6, <1>7, <1>9, <2>1, <2>5, <2>6, <2>7
  <2>9. Sent(c, y) = Sent(d, y) - In(AtGalvanizerOf(w), s, y) + Out(AtGalvanizerOf(w), s, y)
    <3>1. /\ In(AtGalvanizerOf(w), s, y) = In(AtGalvanizerOf(w), s \ {a}, y) + g
          /\ Out(AtGalvanizerOf(w), s, y) = Out(AtGalvanizerOf(w), s \ {a}, y)
          /\ In(AtGalvanizerOf(w), s \ {a}, y) \in Nat /\ Out(AtGalvanizerOf(w), s, y) \in Nat
      BY <1>9, <2>1
    <3>2. Sent(d, y) \in Nat
      BY <1>1, <1>11
    <3>3. QED BY <1>4, <1>8, <2>6, <3>1, <3>2
  <2>10. QED BY <1>1, <1>7, <1>8, <2>1, <2>2, <2>3, <2>5, <2>6, <2>8, <2>9 DEF TrackedItem, In, Out, L
<1>14. TrackedItem(d, q, w, s, c, x)
  <2>1. \A f \in {q, OwedOf(w), FabricatedOf(w), AtGalvanizerOf(w)} :
          /\ Out(f, s, x) = Out(f, s \ {a}, x) + f[a] /\ In(f, s, x) = In(f, s \ {a}, x)
          /\ Out(f, s \ {a}, x) \in Nat /\ In(f, s, x) \in Nat
    <3> TAKE f \in {q, OwedOf(w), FabricatedOf(w), AtGalvanizerOf(w)}
    <3>1. /\ Out(f, s, x) = Out(f, s \ {a}, x) + f[a] /\ In(f, s, x) = In(f, s \ {a}, x) + 0
          /\ In(f, s \ {a}, x) \in Nat /\ Out(f, s \ {a}, x) \in Nat
      BY <1>1, <1>10
    <3>2. QED BY <3>1
  <2>2. \E l \in s : l[2] = x
    BY DEF x
  <2>3. TrackedItem(d, q, w, s \ {a}, e, x)
    BY <1>1
  <2>4. e.swap[x] \in Exchanged /\ e.exp[x] \in ExpeditionItem
    BY <1>1, ItemRows
  <2>5. /\ c.swap[x].given = e.swap[x].given + n /\ c.swap[x].pending = e.swap[x].pending + Owed(t)
        /\ c.swap[x].fabIn = e.swap[x].fabIn + Fabricated(t)
        /\ c.swap[x].out = e.swap[x].out /\ c.swap[x].fabOut = e.swap[x].fabOut
        /\ c.swap[x].received = e.swap[x].received /\ c.swap[x].completed = e.swap[x].completed
    BY <1>1, <1>6, <1>7, <2>4, ExchangedColumnsAll
  <2>6. /\ e.exp[x].avail = d.exp[x].avail + In(q, s \ {a}, x)
        /\ e.exp[x].rem = d.exp[x].rem + Out(q, s \ {a}, x)
        /\ e.exp[x].del = d.exp[x].del
        /\ e.swap[x].completed = d.swap[x].completed
        /\ e.swap[x].received = d.swap[x].received + In(q, s \ {a}, x)
        /\ e.swap[x].out = d.swap[x].out + In(OwedOf(w), s \ {a}, x)
        /\ e.swap[x].fabOut = d.swap[x].fabOut + In(FabricatedOf(w), s \ {a}, x)
        /\ e.swap[x].given = d.swap[x].given + Out(q, s \ {a}, x)
        /\ e.swap[x].pending = d.swap[x].pending + Out(OwedOf(w), s \ {a}, x)
        /\ e.swap[x].fabIn = d.swap[x].fabIn + Out(FabricatedOf(w), s \ {a}, x)
        /\ Sent(e, x) = Sent(d, x) - In(AtGalvanizerOf(w), s \ {a}, x)
                                   + Out(AtGalvanizerOf(w), s \ {a}, x)
        /\ Back(e, x) = Back(d, x)
    BY <2>3 DEF TrackedItem, In, Out, L
  <2>7. /\ d.exp[x].rem \in Nat /\ d.swap[x].given \in Nat /\ d.swap[x].pending \in Nat
        /\ d.swap[x].fabIn \in Nat
    BY <1>1, Numbers
  <2>8. LET k == e.exp[x]
            l == c.exp[x] IN
        /\ l.avail = k.avail /\ l.del = k.del /\ l.rem = k.rem + n
        /\ l.sep <= l.del \/ l.sep + l.rem <= l.avail
    <3> DEFINE k == e.exp[x]
               given == k.rem + n
               kept == MaxOf(k.del, MinOf(k.sep, k.avail - k.rem - n))
               still == k.closed /\ Outstanding(k) > n
    <3>1. /\ k.rem \in Nat /\ k.del \in Nat /\ k.sep \in Nat /\ k.avail \in Nat
      BY <1>1, Numbers
    <3>2. c.exp[x] = [k EXCEPT !.rem = given, !.sep = kept, !.closed = still] /\ k \in ExpeditionItem
      BY <1>7, <2>4 DEF GivenFrom
    <3> HIDE DEF k
    <3>3. kept <= k.del \/ kept + given <= k.avail
      BY <1>1, <3>1 DEF MaxOf, MinOf
    <3> HIDE DEF given, kept, still
    <3>4. /\ c.exp[x].avail = k.avail /\ c.exp[x].del = k.del /\ c.exp[x].rem = given
          /\ c.exp[x].sep = kept
      BY <3>2 DEF ExpeditionItem
    <3>5. QED BY <3>3, <3>4 DEF k, given
  <2>9. /\ c.exp[x].rem = d.exp[x].rem + Out(q, s, x)
        /\ c.swap[x].given = d.swap[x].given + Out(q, s, x)
        /\ c.swap[x].pending = d.swap[x].pending + Out(OwedOf(w), s, x)
        /\ c.swap[x].fabIn = d.swap[x].fabIn + Out(FabricatedOf(w), s, x)
    BY <1>1, <1>6, <1>9, <2>1, <2>5, <2>6, <2>7, <2>8
  <2>10. Sent(c, x) = Sent(d, x) - In(AtGalvanizerOf(w), s, x) + Out(AtGalvanizerOf(w), s, x)
    <3>1. /\ Out(AtGalvanizerOf(w), s, x) = Out(AtGalvanizerOf(w), s \ {a}, x) + g
          /\ In(AtGalvanizerOf(w), s, x) = In(AtGalvanizerOf(w), s \ {a}, x)
          /\ Out(AtGalvanizerOf(w), s \ {a}, x) \in Nat /\ In(AtGalvanizerOf(w), s, x) \in Nat
      BY <1>9, <2>1
    <3>2. Sent(d, x) \in Nat
      BY <1>1, <1>11
    <3>3. QED BY <1>4, <1>8, <2>6, <3>1, <3>2
  <2>11. QED BY <1>1, <1>7, <1>8, <2>1, <2>2, <2>3, <2>5, <2>6, <2>8, <2>9, <2>10
             DEF TrackedItem, In, Out, L
<1>15. \A i \in Items : TrackedItem(d, q, w, s, c, i)
  BY <1>12, <1>13, <1>14
<1>16. QED BY <1>3, <1>15 DEF Tracked, c

LEMMA NothingIsTracked ==
  ASSUME NEW d \in Database, LinksNest(d), NEW q, LinesOK(q), NEW w, FitSwaps(d, q, w)
  PROVE  Tracked(d, q, w, {}, d)
<1> DEFINE L == DOMAIN q
<1>1. q \in [L -> Nat]
  BY LineFunctions
<1>2. OwedOf(w) \in [L -> Nat]
  BY LineFunctions
<1>3. FabricatedOf(w) \in [L -> Nat]
  BY LineFunctions
<1>4. AtGalvanizerOf(w) \in [L -> Nat]
  BY LineFunctions
<1>5. IsFiniteSet(L)
  BY DEF LinesOK
<1> SUFFICES ASSUME NEW i \in Items PROVE TrackedItem(d, q, w, {}, d, i)
  BY DEF Tracked
<1>6. /\ Keyed(q, ToOf(L), {}, i) = 0 /\ Keyed(q, FromOf(L), {}, i) = 0
      /\ Keyed(OwedOf(w), ToOf(L), {}, i) = 0 /\ Keyed(OwedOf(w), FromOf(L), {}, i) = 0
      /\ Keyed(FabricatedOf(w), ToOf(L), {}, i) = 0 /\ Keyed(FabricatedOf(w), FromOf(L), {}, i) = 0
      /\ Keyed(AtGalvanizerOf(w), ToOf(L), {}, i) = 0 /\ Keyed(AtGalvanizerOf(w), FromOf(L), {}, i) = 0
  BY <1>1, <1>2, <1>3, <1>4, <1>5, KeyedBasics
<1>7. Sent(d, i) \in Nat
  BY LoadSums
<1>8. QED BY <1>6, <1>7, Numbers DEF TrackedItem

\* The rows of the destinations of the lines s are open.
Opened(s, e) == \A l \in s : ~e.exp[l[1]].closed

LEMMA LineOpens ==
  ASSUME NEW d \in Database, LinksNest(d), NEW q, LinesOK(q), NEW w \in [DOMAIN q -> Take],
         \A l \in DOMAIN q, n \in Stage4 : w[l][n] \in Nat,
         NEW s \in SUBSET DOMAIN q, NEW a \in s, Opened(s \ {a}, d)
  PROVE  Opened(s, AppliedLine(q, w, d, a))
<1> DEFINE y == a[1]
           x == a[2]
           n == q[a]
           t == w[a]
           c == AppliedLine(q, w, d, a)
<1>1. y \in Items /\ x \in Items /\ x # y /\ n \in Nat /\ a \in DOMAIN q
  BY DEF LinesOK
<1>2. t \in Take /\ \A m \in Stage4 : t[m] \in Nat
  BY <1>1
<1>3. c = ApplyLine(d, y, x, n, t)
  BY DEF AppliedLine
<1> HIDE DEF c, t, n, x, y
<1>4. /\ ~c.exp[y].closed /\ (c.exp[x].closed => d.exp[x].closed)
      /\ \A j \in Items : j # x /\ j # y => c.exp[j] = d.exp[j]
  <2> DEFINE e == ApplyLine(d, y, x, n, t)
  <2>1. /\ ~e.exp[y].closed /\ (e.exp[x].closed => d.exp[x].closed)
        /\ \A j \in Items : j # x /\ j # y => e.exp[j] = d.exp[j]
    BY <1>1, <1>2, AppliedColumns
  <2> HIDE DEF e
  <2>2. c = e
    BY <1>3 DEF e
  <2>3. QED BY <2>1, <2>2
<1>5. ASSUME NEW l \in s PROVE ~c.exp[l[1]].closed
  <2>1. CASE l[1] = y
    BY <1>4, <2>1
  <2>2. CASE l[1] # y
    <3>1. l \in s \ {a} /\ l[1] \in Items
      BY <2>2 DEF LinesOK, y
    <3>2. ~d.exp[l[1]].closed
      BY <3>1 DEF Opened
    <3>3. QED BY <1>4, <2>2, <3>1, <3>2
  <2>3. QED BY <2>1, <2>2
<1>6. QED BY <1>5 DEF Opened, c

\* All lines written, every item has received and given what they say, and the
\* rows of the destinations are open.
LEMMA LinesAreTracked ==
  ASSUME NEW d \in Database, LinksNest(d), NEW q, LinesOK(q), NEW w, FitSwaps(d, q, w)
  PROVE  /\ Tracked(d, q, w, DOMAIN q, AppliedLines(d, q, w))
         /\ Opened(DOMAIN q, AppliedLines(d, q, w))
<1> DEFINE L == DOMAIN q
<1>1. w \in [L -> Take] /\ \A l \in L, n \in Stage4 : w[l][n] \in Nat
  BY DEF FitSwaps
<1>2. PICK h : /\ AppliedLines(d, q, w) = h[L]
               /\ h[{}] = d
               /\ \A s \in SUBSET L : s # {} => h[s] = AppliedLine(q, w, h[s \ {LastOf(s)}], LastOf(s))
  BY <1>1, LinesAreSolved
<1> DEFINE G == {s \in SUBSET L : Tracked(d, q, w, s, h[s]) /\ Opened(s, h[s])}
<1>3. IsFiniteSet(L) /\ \A s \in SUBSET L : s # {} => LastOf(s) \in s
  BY LastOfIsMember DEF LinesOK
<1>4. {} \in G
  BY <1>2, NothingIsTracked DEF Opened
<1>5. ASSUME NEW s \in SUBSET L, s # {} PROVE \E a \in s : s \ {a} \in G => s \in G
  <2> DEFINE a == LastOf(s)
  <2>1. a \in s /\ h[s] = AppliedLine(q, w, h[s \ {a}], a)
    BY <1>2, <1>3, <1>5
  <2> HIDE DEF a
  <2>2. ASSUME s \ {a} \in G PROVE s \in G
    <3>1. Tracked(d, q, w, s \ {a}, h[s \ {a}]) /\ Opened(s \ {a}, h[s \ {a}])
      BY <2>2
    <3>2. Tracked(d, q, w, s, AppliedLine(q, w, h[s \ {a}], a))
      BY <2>1, <3>1, TrackedGrows
    <3>3. h[s \ {a}] \in Database /\ LinksNest(h[s \ {a}])
      BY <3>1 DEF Tracked
    <3>4. Opened(s, AppliedLine(q, w, h[s \ {a}], a))
      BY <1>1, <2>1, <3>1, <3>3, LineOpens
    <3>5. QED BY <2>1, <3>2, <3>4
  <2>3. QED BY <2>1, <2>2
<1> HIDE DEF G
<1>6. L \in G
  BY <1>3, <1>4, <1>5, SubsetInduction
<1>7. QED BY <1>2, <1>6 DEF G

LEMMA WrittenIsTracked ==
  ASSUME NEW d \in Database, LinksNest(d), NEW q, LinesOK(q)
  PROVE  /\ Tracked(d, q, StageSwaps(d, q), DOMAIN q, Written(d, q))
         /\ Opened(DOMAIN q, Written(d, q))
<1> DEFINE w == StageSwaps(d, q)
           lines == AppliedLines(d, q, w)
           P == {Owner[line[2]] : line \in {l \in DOMAIN q : Fabricated(w[l]) > 0}}
           e == MarkGalvanized(lines, P)
<1>1. Written(d, q) = e
  BY DEF Written, AppliedLines
<1>2. FitSwaps(d, q, w)
  BY SwapsFit
<1> HIDE DEF w
<1>3. Tracked(d, q, w, DOMAIN q, lines) /\ Opened(DOMAIN q, lines)
  BY <1>2, LinesAreTracked
<1> HIDE DEF lines, P
<1>4. lines \in Database /\ LinksNest(lines) /\ \A i \in Items : TrackedItem(d, q, w, DOMAIN q, lines, i)
  BY <1>3 DEF Tracked
<1>5. /\ e \in Database /\ e.exp = lines.exp /\ e.link = lines.link /\ e.away = lines.away
      /\ e.swap = lines.swap
      /\ \A i \in Items : /\ e.item[i].flow = lines.item[i].flow
                          /\ e.item[i].produced = lines.item[i].produced
                          /\ e.item[i].delivered = lines.item[i].delivered
  BY <1>4, MarkedColumns
<1> HIDE DEF e
<1>6. LinksNest(e)
  BY <1>4, <1>5 DEF LinksNest
<1>7. ASSUME NEW i \in Items PROVE TrackedItem(d, q, w, DOMAIN q, e, i)
  <2>1. Sent(e, i) = Sent(lines, i) /\ Back(e, i) = Back(lines, i)
    BY <1>5 DEF Sent, Back
  <2>2. TrackedItem(d, q, w, DOMAIN q, lines, i)
    BY <1>4
  <2>3. QED BY <1>5, <2>1, <2>2 DEF TrackedItem
<1>8. Tracked(d, q, w, DOMAIN q, e)
  BY <1>5, <1>6, <1>7 DEF Tracked
<1>9. Opened(DOMAIN q, e)
  BY <1>3, <1>5 DEF Opened
<1>10. QED BY <1>1, <1>8, <1>9 DEF w

-----------------------------------------------------------------------------
\* What the lines make of a destination and of a source: n ready pieces against
\* o owed and f fabricated ones, g of them at the galvanizer.
Receives(d, e, i, n, o, f, g) ==
  /\ e.item[i].flow = d.item[i].flow /\ e.item[i].produced = d.item[i].produced
  /\ e.item[i].delivered = d.item[i].delivered
  /\ e.exp[i].avail = d.exp[i].avail + n /\ e.exp[i].sep = d.exp[i].sep
  /\ e.exp[i].del = d.exp[i].del /\ e.exp[i].rem = d.exp[i].rem
  /\ e.swap[i].received = d.swap[i].received + n /\ e.swap[i].out = d.swap[i].out + o
  /\ e.swap[i].fabOut = d.swap[i].fabOut + f
  /\ e.swap[i].given = d.swap[i].given /\ e.swap[i].pending = d.swap[i].pending
  /\ e.swap[i].fabIn = d.swap[i].fabIn /\ e.swap[i].completed = d.swap[i].completed
  /\ Sent(e, i) = Sent(d, i) - g /\ Back(e, i) = Back(d, i)

Gives(d, e, i, n, o, f, g) ==
  /\ e.item[i].flow = d.item[i].flow /\ e.item[i].produced = d.item[i].produced
  /\ e.item[i].delivered = d.item[i].delivered
  /\ e.exp[i].avail = d.exp[i].avail /\ e.exp[i].del = d.exp[i].del
  /\ e.exp[i].rem = d.exp[i].rem + n
  /\ e.exp[i].sep <= e.exp[i].del \/ e.exp[i].sep + e.exp[i].rem <= e.exp[i].avail
  /\ e.swap[i].given = d.swap[i].given + n /\ e.swap[i].pending = d.swap[i].pending + o
  /\ e.swap[i].fabIn = d.swap[i].fabIn + f
  /\ e.swap[i].received = d.swap[i].received /\ e.swap[i].out = d.swap[i].out
  /\ e.swap[i].fabOut = d.swap[i].fabOut /\ e.swap[i].completed = d.swap[i].completed
  /\ Sent(e, i) = Sent(d, i) + g /\ Back(e, i) = Back(d, i)

\* What a destination can give of its stages.
LEMMA CapacityOfFlow ==
  ASSUME NEW d \in Database, LinksNest(d), NEW i \in Items, Fit(d, i)
  PROVE  LET c == Capacity(d, i)
             e == d.exp[i]
             x == d.swap[i] IN
         /\ ~FlowDefined(d, i) => /\ c.inGalvanization = 0 /\ c.awaiting = 0 /\ c.toProduce = 0
                                  /\ c.undefined = AtLeastZero(Qty[i] - e.avail + e.rem)
         /\ FlowDefined(d, i) /\ ~Galvanizes(d, i) =>
              /\ c.inGalvanization = 0 /\ c.awaiting = 0 /\ c.undefined = 0
              /\ c.toProduce = ReallocatableProduction(d, i)
         /\ Galvanizes(d, i) =>
              /\ c.undefined = 0
              /\ c.inGalvanization = AtLeastZero(Sent(d, i) - Back(d, i))
              /\ d.item[i].produced => /\ c.toProduce = 0
                                       /\ c.awaiting = AtLeastZero(Pipeline(d, i) - Sent(d, i))
              /\ ~d.item[i].produced =>
                   /\ c.toProduce = ReallocatableProduction(d, i)
                   /\ c.awaiting = AtLeastZero(x.fabIn - x.fabOut + x.completed - Sent(d, i))
<1> DEFINE c == Capacity(d, i)
           e == d.exp[i]
           x == d.swap[i]
           st == Stages(d, i)
           pending == x.pending
           realloc == ReallocatableProduction(d, i)
<1>1. /\ e.avail \in Nat /\ e.del \in Nat /\ e.rem \in Nat /\ pending \in Nat /\ x.completed \in Nat
      /\ x.fabIn \in Nat /\ x.given \in Nat /\ Qty[i] \in Nat /\ realloc \in Nat
  BY Numbers, ReallocatableIsMissing
<1>2. ReadyAvailable(d, i) = e.avail - e.del - e.rem
  <2>1. e.del + e.rem <= e.avail
    BY DEF Fit, Stocked
  <2>2. ReadyAvailable(d, i) = AtLeastZero(e.avail - e.del - e.rem)
    BY DEF ReadyAvailable
  <2> HIDE DEF e
  <2>3. QED BY <1>1, <2>1, <2>2 DEF AtLeastZero
<1>3. /\ c.inGalvanization = st.inGalvanization /\ c.awaiting = AtLeastZero(st.awaiting)
      /\ c.toProduce = AtLeastZero(st.toProduce - pending) /\ c.undefined = st.undefined
  BY DEF Capacity
<1>4. AtLeastZero(0) = 0 /\ \A n \in Nat : AtLeastZero(n) = n
  BY DEF AtLeastZero
<1>5. AtLeastZero(pending - pending) = 0 /\ AtLeastZero(0 + pending - pending) = 0
      /\ AtLeastZero(realloc + pending - pending) = realloc
  BY <1>1, <1>4
<1>6. CASE ~FlowDefined(d, i)
  <2>1. ~Galvanizes(d, i) /\ Sent(d, i) = 0
    BY <1>6, FlowCases DEF Fit, Swapped
  <2>2. Unflowed(d, i)
    BY <1>6, <2>1 DEF Unflowed
  <2>3. /\ st.toProduce = pending /\ st.awaiting = 0 /\ st.inGalvanization = 0
        /\ st.undefined = AtLeastZero(Qty[i] - e.del - ReadyAvailable(d, i) - pending)
    BY <2>2 DEF Stages
  <2>4. pending = 0
    <3>1. x.given = 0 /\ x.given = pending + x.completed + x.fabIn
      BY <1>6 DEF Fit, Swapped
    <3> HIDE DEF pending, x
    <3>2. QED BY <1>1, <3>1
  <2>5. Qty[i] - e.del - ReadyAvailable(d, i) - pending = Qty[i] - e.avail + e.rem
    <3> HIDE DEF e, pending
    <3>1. QED BY <1>1, <1>2, <2>4
  <2>6. QED BY <1>3, <1>4, <1>5, <1>6, <2>1, <2>3, <2>5
<1>7. CASE FlowDefined(d, i) /\ ~Galvanizes(d, i)
  <2>1. ~Unflowed(d, i)
    BY <1>7 DEF Unflowed
  <2>2. st.toProduce = realloc + pending /\ st.awaiting = 0 /\ st.inGalvanization = 0 /\ st.undefined = 0
    BY <1>7, <2>1 DEF Stages, ProductionPending
  <2>3. c.inGalvanization = 0 /\ c.awaiting = 0 /\ c.undefined = 0
    BY <1>3, <1>4, <2>2
  <2>4. c.toProduce = realloc
    <3> HIDE DEF st, pending, realloc, c
    <3>1. QED BY <1>1, <1>3, <2>2 DEF AtLeastZero
  <2>5. QED BY <1>7, <2>3, <2>4
<1>8. CASE Galvanizes(d, i)
  <2>1. FlowDefined(d, i)
    BY <1>8, FlowCases
  <2>2. ~Unflowed(d, i)
    BY <2>1 DEF Unflowed
  <2>3. /\ st.toProduce = (IF d.item[i].produced THEN 0 ELSE realloc) + pending
        /\ st.awaiting = Awaiting(d, i) /\ st.undefined = 0
        /\ st.inGalvanization = AtLeastZero(Sent(d, i) - Back(d, i))
    BY <1>8, <2>2 DEF Stages
  <2>4. Awaiting(d, i) = IF d.item[i].produced THEN Pipeline(d, i) - Sent(d, i)
                         ELSE AtLeastZero(x.fabIn - x.fabOut + x.completed - Sent(d, i))
    BY DEF Awaiting
  <2>5. \A n \in Int : AtLeastZero(AtLeastZero(n)) = AtLeastZero(n)
    BY DEF AtLeastZero
  <2>6. x.fabIn - x.fabOut + x.completed - Sent(d, i) \in Int
    BY Numbers, LoadSums
  <2>7. c.undefined = 0 /\ c.inGalvanization = AtLeastZero(Sent(d, i) - Back(d, i))
    BY <1>3, <2>3
  <2>8. c.toProduce = IF d.item[i].produced THEN 0 ELSE realloc
    <3> HIDE DEF st, pending, realloc, c
    <3>1. QED BY <1>1, <1>3, <2>3 DEF AtLeastZero
  <2>9. c.awaiting = IF d.item[i].produced THEN AtLeastZero(Pipeline(d, i) - Sent(d, i))
                     ELSE AtLeastZero(x.fabIn - x.fabOut + x.completed - Sent(d, i))
    BY <1>3, <2>3, <2>4, <2>5, <2>6
  <2>10. QED BY <1>8, <2>1, <2>7, <2>8, <2>9
<1>9. QED BY <1>6, <1>7, <1>8, FlowCases

\* A destination that receives as many pieces as its stages give stays fit, and
\* the hook can bring it up to date.
LEMMA DestinationKeeps ==
  ASSUME NEW d \in Database, LinksNest(d), NEW e \in Database, LinksNest(e), NEW i \in Items,
         Fit(d, i), Open(d, i),
         NEW n \in Nat, NEW g \in Nat, NEW a \in Nat, NEW p \in Nat, NEW u \in Nat,
         n = p + u + g + a,
         g <= Capacity(d, i).inGalvanization, a <= Capacity(d, i).awaiting,
         p <= Capacity(d, i).toProduce, u <= Capacity(d, i).undefined,
         Receives(d, e, i, n, p + u, g + a, g)
  PROVE  Fit(e, i) /\ (Even(d, i) => Even(e, i)) /\ Ready(e, i)
<1> DEFINE avail == d.exp[i].avail
           del == d.exp[i].del
           rem == d.exp[i].rem
           sep == d.exp[i].sep
           given == d.swap[i].given
           received == d.swap[i].received
           out == d.swap[i].out
           pending == d.swap[i].pending
           completed == d.swap[i].completed
           fabIn == d.swap[i].fabIn
           fabOut == d.swap[i].fabOut
           sent == Sent(d, i)
           back == Back(d, i)
           produced == d.item[i].produced
           Q == Qty[i]
           un == Undone(d, i)
           realloc == ReallocatableProduction(d, i)
<1>1. /\ avail \in Nat /\ del \in Nat /\ rem \in Nat /\ sep \in Nat /\ given \in Nat /\ received \in Nat
      /\ out \in Nat /\ pending \in Nat /\ completed \in Nat /\ fabIn \in Nat /\ fabOut \in Nat
      /\ sent \in Nat /\ back \in Nat /\ back <= sent /\ Q \in Nat /\ Q > 0
  BY Numbers, LoadSums
<1>2. /\ e.exp[i].avail = avail + n /\ e.exp[i].del = del /\ e.exp[i].rem = rem /\ e.exp[i].sep = sep
      /\ e.swap[i].received = received + n /\ e.swap[i].out = out + (p + u)
      /\ e.swap[i].fabOut = fabOut + (g + a) /\ e.swap[i].given = given
      /\ e.swap[i].pending = pending /\ e.swap[i].completed = completed /\ e.swap[i].fabIn = fabIn
      /\ Sent(e, i) = sent - g /\ Back(e, i) = back
      /\ e.item[i].flow = d.item[i].flow /\ e.item[i].produced = produced
      /\ e.item[i].delivered = d.item[i].delivered
  BY DEF Receives
<1>3. (Galvanizes(e, i) <=> Galvanizes(d, i)) /\ (FlowDefined(e, i) <=> FlowDefined(d, i))
  BY <1>2 DEF Galvanizes, FlowDefined
<1>4. un = rem - given /\ Undone(e, i) = un
  BY <1>2 DEF Undone
<1>5. /\ received = out + fabOut /\ given = pending + completed + fabIn
      /\ ~Galvanizes(d, i) => fabIn = 0 /\ fabOut = 0 /\ sent = 0
      /\ ~FlowDefined(d, i) => ~produced /\ given = 0
      /\ del + rem <= avail /\ given <= rem /\ out <= Q + un
      /\ ~(Galvanizes(d, i) /\ produced) => out + fabIn <= avail
      /\ avail <= Supply(d, i)
  BY DEF Fit, Swapped, Stocked
<1>6. Supply(d, i) = IF Galvanizes(d, i) THEN back + received
                     ELSE completed + (IF produced THEN Q + un ELSE received)
  BY DEF Supply
<1>7. Supply(e, i) = IF Galvanizes(d, i) THEN back + (received + n)
                     ELSE completed + (IF produced THEN Q + un ELSE received + n)
  BY <1>2, <1>3, <1>4 DEF Supply
<1>8. Pipeline(d, i) = Q - out + completed + fabIn - fabOut
      /\ Pipeline(e, i) = Q - (out + (p + u)) + completed + fabIn - (fabOut + (g + a))
  BY <1>2 DEF Pipeline
<1>9. Galvanizes(d, i) =>
        IF produced THEN sent <= Pipeline(d, i) + un
        ELSE sent + fabOut <= completed + fabIn /\ fabIn <= fabOut + back
  BY DEF Fit, Piped
<1>10. /\ ~FlowDefined(d, i) => g = 0 /\ a = 0 /\ p = 0 /\ u <= AtLeastZero(Q - avail + rem)
       /\ FlowDefined(d, i) /\ ~Galvanizes(d, i) => g = 0 /\ a = 0 /\ u = 0 /\ p <= realloc
       /\ Galvanizes(d, i) =>
            /\ u = 0 /\ g <= AtLeastZero(sent - back)
            /\ produced => p = 0 /\ a <= AtLeastZero(Pipeline(d, i) - sent)
            /\ ~produced => p <= realloc /\ a <= AtLeastZero(fabIn - fabOut + completed - sent)
  <2> DEFINE c == Capacity(d, i)
  <2>1. /\ ~FlowDefined(d, i) => /\ c.inGalvanization = 0 /\ c.awaiting = 0 /\ c.toProduce = 0
                                 /\ c.undefined = AtLeastZero(Q - avail + rem)
        /\ FlowDefined(d, i) /\ ~Galvanizes(d, i) =>
             /\ c.inGalvanization = 0 /\ c.awaiting = 0 /\ c.undefined = 0 /\ c.toProduce = realloc
        /\ Galvanizes(d, i) =>
             /\ c.undefined = 0 /\ c.inGalvanization = AtLeastZero(sent - back)
             /\ produced => c.toProduce = 0 /\ c.awaiting = AtLeastZero(Pipeline(d, i) - sent)
             /\ ~produced => /\ c.toProduce = realloc
                             /\ c.awaiting = AtLeastZero(fabIn - fabOut + completed - sent)
    BY CapacityOfFlow
  <2>2. \A k \in Nat : k <= 0 => k = 0
    OBVIOUS
  <2>3. g <= c.inGalvanization /\ a <= c.awaiting /\ p <= c.toProduce /\ u <= c.undefined
    OBVIOUS
  <2> HIDE DEF c, avail, rem, sent, back, produced, Q, realloc, fabIn, fabOut, completed
  <2>4. QED BY <2>1, <2>2, <2>3
<1>11. realloc \in Nat /\ realloc <= AtLeastZero(Q + un + fabIn - avail)
  BY ReallocatableIsMissing DEF Missing
<1>12. /\ Even(d, i) => /\ rem = given /\ (d.item[i].delivered => avail > 0)
                        /\ ~produced => out = Q \/ (completed = 0 /\ fabIn = 0)
       /\ /\ rem = given /\ (d.item[i].delivered => avail > 0)
          /\ ~produced => out + (p + u) = Q \/ (completed = 0 /\ fabIn = 0)
          => Even(e, i)
  <2>1. n \in Nat /\ (avail > 0 => avail + n > 0)
    BY <1>1
  <2>2. QED BY <1>2, <2>1 DEF Even
<1>13. sep + rem <= avail /\ (DerivedAvailable(d, i) = avail \/ d.item[i].delivered)
  BY DEF Open
<1>14. produced \in BOOLEAN
  BY ItemRows
<1>15. DerivedAvailable(e, i) \in Nat
  BY DerivedType
<1> DEFINE D == DerivedAvailable(d, i)
           E == DerivedAvailable(e, i)
<1>16. /\ Galvanizes(d, i) =>
            /\ D = IF produced \/ completed + received > 0 THEN back + received ELSE 0
            /\ E = IF produced \/ completed + (received + n) > 0 THEN back + (received + n) ELSE 0
       /\ ~Galvanizes(d, i) /\ FlowDefined(d, i) =>
            /\ D = (IF produced THEN AtLeastZero(Q - out) ELSE 0) + completed + received
            /\ E = (IF produced THEN AtLeastZero(Q - (out + (p + u))) ELSE 0) + completed + (received + n)
       /\ ~FlowDefined(d, i) => D = received /\ E = received + n
  <2>1. CASE Galvanizes(d, i) /\ d.item[i].flow = "SIM" /\ FlowDefined(d, i)
    BY <1>2, <1>3, <2>1 DEF DerivedAvailable
  <2>2. CASE ~Galvanizes(d, i) /\ d.item[i].flow = "NAO" /\ FlowDefined(d, i)
    BY <1>2, <1>3, <2>2 DEF DerivedAvailable
  <2>3. CASE ~Galvanizes(d, i) /\ d.item[i].flow = "INDEFINIDO" /\ ~FlowDefined(d, i)
    BY <1>2, <1>3, <2>3 DEF DerivedAvailable
  <2>4. QED BY <2>1, <2>2, <2>3, FlowCases
<1>17. Ready(e, i) <=> /\ d.item[i].delivered => sep + rem <= avail + n
                       /\ ~d.item[i].delivered => /\ del + rem <= E /\ sep + rem <= E
                                                  /\ E = 0 => avail + n = 0
  BY <1>2 DEF Ready
<1>18. Galvanizes(d, i) => FlowDefined(d, i)
  BY FlowCases
<1>19. Swapped(e, i) <=> /\ received + n = out + (p + u) + (fabOut + (g + a))
                         /\ given = pending + completed + fabIn
                         /\ ~Galvanizes(d, i) => fabIn = 0 /\ fabOut + (g + a) = 0 /\ sent - g = 0
                         /\ ~FlowDefined(d, i) => ~produced /\ given = 0
  BY <1>2, <1>3 DEF Swapped
<1>20. Stocked(e, i) <=> /\ del + rem <= avail + n /\ given <= rem /\ out + (p + u) <= Q + un
                         /\ ~(Galvanizes(d, i) /\ produced) => out + (p + u) + fabIn <= avail + n
                         /\ avail + n <= Supply(e, i)
  BY <1>2, <1>3, <1>4 DEF Stocked
<1>21. Piped(e, i) <=> (Galvanizes(d, i) =>
                          IF produced THEN sent - g <= Pipeline(e, i) + un
                          ELSE /\ sent - g + (fabOut + (g + a)) <= completed + fabIn
                               /\ fabIn <= fabOut + (g + a) + back)
  BY <1>2, <1>3, <1>4 DEF Piped
<1> HIDE DEF avail, del, rem, sep, given, received, out, pending, completed, fabIn, fabOut, sent, back,
             produced, Q, un, realloc, D, E
<1>22. Swapped(e, i)
  BY <1>1, <1>5, <1>10, <1>19
<1>23. out + (p + u) <= Q + un
       /\ (~(Galvanizes(d, i) /\ produced) => out + (p + u) + fabIn <= avail + n)
  <2>1. CASE ~FlowDefined(d, i)
    BY <1>1, <1>4, <1>5, <1>10, <1>18, <2>1 DEF AtLeastZero
  <2>2. CASE FlowDefined(d, i) /\ ~(Galvanizes(d, i) /\ produced)
    <3>1. u = 0 /\ p <= realloc /\ out + fabIn <= avail
      BY <1>5, <1>10, <2>2
    <3>2. p = 0 \/ p <= Q + un + fabIn - avail
      BY <1>1, <1>4, <1>11, <3>1 DEF AtLeastZero
    <3>3. QED BY <1>1, <1>4, <1>5, <3>1, <3>2
  <2>3. CASE Galvanizes(d, i) /\ produced
    BY <1>1, <1>4, <1>5, <1>10, <2>3
  <2>4. QED BY <2>1, <2>2, <2>3
<1>24. avail + n <= Supply(e, i)
  <2>1. CASE Galvanizes(d, i) \/ ~produced
    BY <1>1, <1>5, <1>6, <1>7, <2>1
  <2>2. CASE ~Galvanizes(d, i) /\ produced
    <3>1. n = p /\ p <= realloc /\ fabIn = 0
      BY <1>5, <1>10, <2>2
    <3>2. p = 0 \/ p <= Q + un - avail
      BY <1>1, <1>4, <1>11, <3>1 DEF AtLeastZero
    <3>3. QED BY <1>1, <1>4, <1>5, <1>6, <1>7, <2>2, <3>1, <3>2
  <2>3. QED BY <2>1, <2>2
<1>25. Stocked(e, i)
  BY <1>1, <1>5, <1>20, <1>23, <1>24
<1>26. Piped(e, i)
  <2>1. CASE Galvanizes(d, i) /\ produced
    <3>1. p = 0 /\ u = 0 /\ (a = 0 \/ a <= Pipeline(d, i) - sent) /\ sent <= Pipeline(d, i) + un
      BY <1>1, <1>8, <1>9, <1>10, <2>1 DEF AtLeastZero
    <3>2. sent - g <= Pipeline(e, i) + un
      BY <1>1, <1>4, <1>5, <1>8, <3>1
    <3>3. QED BY <1>21, <2>1, <3>2
  <2>2. CASE Galvanizes(d, i) /\ ~produced
    <3>1. /\ a = 0 \/ a <= fabIn - fabOut + completed - sent
          /\ sent + fabOut <= completed + fabIn /\ fabIn <= fabOut + back
      BY <1>1, <1>9, <1>10, <2>2 DEF AtLeastZero
    <3>2. sent - g + (fabOut + (g + a)) <= completed + fabIn /\ fabIn <= fabOut + (g + a) + back
      BY <1>1, <3>1
    <3>3. QED BY <1>21, <2>2, <3>2
  <2>3. QED BY <1>21, <2>1, <2>2
<1>27. Even(d, i) => Even(e, i)
  <2> SUFFICES ASSUME Even(d, i) PROVE Even(e, i)
    OBVIOUS
  <2>1. rem = given /\ un = 0
    BY <1>1, <1>4, <1>12
  <2>2. ASSUME out = Q PROVE out + (p + u) = Q
    BY <1>1, <1>23, <2>1, <2>2
  <2>3. QED BY <1>12, <2>1, <2>2
<1>28. d.item[i].delivered \/ (avail <= E /\ n <= E)
  <2> SUFFICES ASSUME D = avail PROVE avail <= E /\ n <= E
    BY <1>13 DEF D
  <2>1. CASE ~FlowDefined(d, i)
    BY <1>1, <1>16, <2>1
  <2>2. CASE FlowDefined(d, i) /\ ~Galvanizes(d, i)
    <3>1. n = p + u
      BY <1>10, <2>2
    <3>2. AtLeastZero(Q - out) <= AtLeastZero(Q - (out + (p + u))) + n
      BY <1>1, <3>1 DEF AtLeastZero
    <3>3. AtLeastZero(Q - (out + (p + u))) \in Nat /\ AtLeastZero(Q - out) \in Nat
      BY <1>1 DEF AtLeastZero
    <3>4. QED BY <1>1, <1>16, <2>2, <3>2, <3>3
  <2>3. CASE Galvanizes(d, i)
    BY <1>1, <1>16, <2>3
  <2>4. QED BY <2>1, <2>2, <2>3
<1>29. Ready(e, i)
  <2>1. CASE d.item[i].delivered
    <3>1. sep + rem <= avail + n
      BY <1>1, <1>13
    <3>2. QED BY <1>17, <2>1, <3>1
  <2>2. CASE ~d.item[i].delivered
    <3>1. avail <= E /\ n <= E /\ sep + rem <= avail /\ E \in Nat
      BY <1>13, <1>15, <1>28, <2>2 DEF E
    <3>2. del + rem <= E /\ sep + rem <= E /\ (E = 0 => avail + n = 0)
      BY <1>1, <1>5, <3>1
    <3>3. QED BY <1>17, <2>2, <3>2
  <2>3. QED BY <2>1, <2>2
<1>30. QED BY <1>22, <1>25, <1>26, <1>27, <1>29 DEF Fit

\* A source whose stages change as planned stays fit, and the hook can bring it
\* up to date: it gives no piece that was not ready, and gets fabricated pieces
\* only for what it has received in excess of what it was to produce.
LEMMA SourceKeeps ==
  ASSUME NEW d \in Database, LinksNest(d), NEW e \in Database, LinksNest(e), NEW i \in Items,
         Fit(d, i), Open(d, i), FlowDefined(d, i),
         NEW n \in Nat, NEW o \in Nat, NEW f \in Nat, NEW g \in Nat,
         n = o + f, g <= f, n > 0, ~Galvanizes(d, i) => f = 0,
         Gives(d, e, i, n, o, f, g),
         ReadyAvailable(e, i) = ReadyAvailable(d, i) - n,
         Stages(e, i).toProduce = Stages(d, i).toProduce + o
  PROVE  Fit(e, i) /\ (Even(d, i) => Even(e, i)) /\ Ready(e, i)
<1> DEFINE avail == d.exp[i].avail
           del == d.exp[i].del
           rem == d.exp[i].rem
           given == d.swap[i].given
           received == d.swap[i].received
           out == d.swap[i].out
           pending == d.swap[i].pending
           completed == d.swap[i].completed
           fabIn == d.swap[i].fabIn
           fabOut == d.swap[i].fabOut
           sent == Sent(d, i)
           back == Back(d, i)
           produced == d.item[i].produced
           Q == Qty[i]
           un == Undone(d, i)
<1>1. /\ avail \in Nat /\ del \in Nat /\ rem \in Nat /\ given \in Nat /\ received \in Nat
      /\ out \in Nat /\ pending \in Nat /\ completed \in Nat /\ fabIn \in Nat /\ fabOut \in Nat
      /\ sent \in Nat /\ back \in Nat /\ back <= sent /\ Q \in Nat /\ Q > 0
  BY Numbers, LoadSums
<1>2. /\ e.exp[i].avail = avail /\ e.exp[i].del = del /\ e.exp[i].rem = rem + n
      /\ e.swap[i].received = received /\ e.swap[i].out = out /\ e.swap[i].fabOut = fabOut
      /\ e.swap[i].given = given + n /\ e.swap[i].pending = pending + o
      /\ e.swap[i].completed = completed /\ e.swap[i].fabIn = fabIn + f
      /\ Sent(e, i) = sent + g /\ Back(e, i) = back
      /\ e.item[i].flow = d.item[i].flow /\ e.item[i].produced = produced
      /\ e.item[i].delivered = d.item[i].delivered
  BY DEF Gives
<1>3. (Galvanizes(e, i) <=> Galvanizes(d, i)) /\ FlowDefined(e, i)
  BY <1>2 DEF Galvanizes, FlowDefined
<1>4. un = rem - given /\ Undone(e, i) = (rem + n) - (given + n)
  BY <1>2 DEF Undone
<1>5. /\ received = out + fabOut /\ given = pending + completed + fabIn
      /\ ~Galvanizes(d, i) => fabIn = 0 /\ fabOut = 0 /\ sent = 0
      /\ del + rem <= avail /\ given <= rem /\ out <= Q + un
      /\ ~(Galvanizes(d, i) /\ produced) => out + fabIn <= avail
      /\ avail <= Supply(d, i)
  BY DEF Fit, Swapped, Stocked
<1>6. Supply(d, i) = IF Galvanizes(d, i) THEN back + received
                     ELSE completed + (IF produced THEN Q + un ELSE received)
  BY DEF Supply
<1>7. Supply(e, i) = IF Galvanizes(d, i) THEN back + received
                     ELSE completed + (IF produced THEN Q + Undone(e, i) ELSE received)
  BY <1>2, <1>3 DEF Supply
<1>8. Pipeline(d, i) = Q - out + completed + fabIn - fabOut
      /\ Pipeline(e, i) = Q - out + completed + (fabIn + f) - fabOut
  BY <1>2 DEF Pipeline
<1>9. Galvanizes(d, i) =>
        IF produced THEN sent <= Pipeline(d, i) + un
        ELSE sent + fabOut <= completed + fabIn /\ fabIn <= fabOut + back
  BY DEF Fit, Piped
<1>10. e.exp[i].sep \in Nat /\ (e.exp[i].sep <= del \/ e.exp[i].sep + (rem + n) <= avail)
  BY <1>2, Numbers DEF Gives
<1>11. produced \in BOOLEAN /\ d.item[i].delivered \in BOOLEAN
  BY ItemRows
<1>12. /\ ReadyAvailable(d, i) = AtLeastZero(avail - del - rem)
       /\ ReadyAvailable(e, i) = AtLeastZero(avail - del - (rem + n))
  BY <1>2 DEF ReadyAvailable
<1>13. /\ Even(d, i) => /\ rem = given /\ (d.item[i].delivered => avail > 0)
                        /\ ~produced => out = Q \/ (completed = 0 /\ fabIn = 0)
       /\ /\ rem + n = given + n /\ (d.item[i].delivered => avail > 0)
          /\ ~produced => out = Q \/ (completed = 0 /\ fabIn + f = 0)
          => Even(e, i)
  BY <1>2 DEF Even
<1>14. d.item[i].delivered \/ DerivedAvailable(d, i) = avail
  BY DEF Open
<1>15. DerivedAvailable(e, i) = DerivedAvailable(d, i)
  BY <1>2, <1>3 DEF DerivedAvailable, Galvanizes
<1>16. Swapped(e, i) <=> /\ received = out + fabOut
                         /\ given + n = (pending + o) + completed + (fabIn + f)
                         /\ ~Galvanizes(d, i) => fabIn + f = 0 /\ fabOut = 0 /\ sent + g = 0
  BY <1>2, <1>3 DEF Swapped
<1>17. Stocked(e, i) <=> /\ del + (rem + n) <= avail /\ given + n <= rem + n /\ out <= Q + Undone(e, i)
                         /\ ~(Galvanizes(d, i) /\ produced) => out + (fabIn + f) <= avail
                         /\ avail <= Supply(e, i)
  BY <1>2, <1>3 DEF Stocked
<1>18. Piped(e, i) <=> (Galvanizes(d, i) =>
                          IF produced THEN sent + g <= Pipeline(e, i) + Undone(e, i)
                          ELSE /\ (sent + g) + fabOut <= completed + (fabIn + f)
                               /\ fabIn + f <= fabOut + back)
  BY <1>2, <1>3 DEF Piped
<1>19. Galvanizes(d, i) /\ ~produced =>
         AtLeastZero(Q + un + fabIn + f - avail) = AtLeastZero(Q + un + fabIn - avail)
  <2> SUFFICES ASSUME Galvanizes(d, i), ~produced
               PROVE  AtLeastZero(Q + un + fabIn + f - avail) = AtLeastZero(Q + un + fabIn - avail)
    OBVIOUS
  <2>1. ReallocatableProduction(d, i) = AtLeastZero(Q + un + fabIn - avail)
    BY ReallocatableIsMissing DEF Missing
  <2> DEFINE r == ReallocatableProduction(d, i)
             s == ReallocatableProduction(e, i)
             raw == Q - avail + (rem + n) + out - (pending + o) - completed
  <2>2. s = AtLeastZero(AtLeastZero(raw) - out)
    <3>1. e.exp[i].rem > 0
      BY <1>1, <1>2
    <3>2. NativePending(e, i) = AtLeastZero(raw)
      BY <1>2, <3>1 DEF NativePending
    <3>3. QED BY <1>2, <3>2 DEF ReallocatableProduction
  <2>3. raw \in Int
    BY <1>1
  <2>4. s = AtLeastZero(raw - out) /\ s \in Nat
    <3> HIDE DEF raw, s, out
    <3>1. QED BY <1>1, <2>2, <2>3 DEF AtLeastZero
  <2>5. raw - out = Q + un + fabIn + f - avail
    BY <1>1, <1>4, <1>5
  <2>6. r \in Nat
    BY ReallocatableIsMissing
  <2>7. Stages(d, i).toProduce = r + pending /\ Stages(e, i).toProduce = s + (pending + o)
    <3>1. ~Unflowed(d, i) /\ ~Unflowed(e, i)
      BY <1>3 DEF Unflowed
    <3>2. Galvanizes(e, i) /\ ~e.item[i].produced
      BY <1>2, <1>3
    <3>3. QED BY <1>2, <3>1, <3>2 DEF Stages
  <2>8. s + (pending + o) = r + pending + o
    BY <2>7
  <2> HIDE DEF r, s, raw, pending
  <2>9. s = r
    BY <1>1, <2>4, <2>6, <2>8
  <2>10. QED BY <2>1, <2>4, <2>5, <2>9 DEF r
<1> HIDE DEF avail, del, rem, given, received, out, pending, completed, fabIn, fabOut, sent, back,
             produced, Q, un
<1>20. Undone(e, i) = un /\ un \in Nat
  BY <1>1, <1>4, <1>5
<1>21. del + (rem + n) <= avail
  BY <1>1, <1>5, <1>12 DEF AtLeastZero
<1>22. Swapped(e, i)
  BY <1>1, <1>5, <1>16
<1>23. Galvanizes(d, i) /\ ~produced /\ f > 0 => Q + un + fabIn + f <= avail
  BY <1>1, <1>19, <1>20 DEF AtLeastZero
<1>24. Stocked(e, i)
  <2>1. ~(Galvanizes(d, i) /\ produced) => out + (fabIn + f) <= avail
    <3>1. CASE f = 0
      BY <1>1, <1>5, <3>1
    <3>2. CASE f > 0
      BY <1>1, <1>5, <1>20, <1>23, <3>2
    <3>3. QED BY <3>1, <3>2
  <2>2. avail <= Supply(e, i)
    BY <1>5, <1>6, <1>7, <1>20
  <2>3. given + n <= rem + n
    BY <1>1, <1>5
  <2>4. QED BY <1>5, <1>17, <1>20, <1>21, <2>1, <2>2, <2>3
<1>25. Piped(e, i)
  <2>1. CASE Galvanizes(d, i) /\ produced
    <3>1. sent + g <= Pipeline(e, i) + Undone(e, i)
      BY <1>1, <1>8, <1>9, <1>20, <2>1
    <3>2. QED BY <1>18, <2>1, <3>1
  <2>2. CASE Galvanizes(d, i) /\ ~produced
    <3>1. (sent + g) + fabOut <= completed + (fabIn + f)
      BY <1>1, <1>9, <2>2
    <3>2. fabIn + f <= fabOut + back
      <4>1. CASE f = 0
        BY <1>1, <1>9, <2>2, <4>1
      <4>2. CASE f > 0
        BY <1>1, <1>5, <1>6, <1>20, <1>23, <2>2, <4>2
      <4>3. QED BY <4>1, <4>2
    <3>3. QED BY <1>18, <2>2, <3>1, <3>2
  <2>3. QED BY <1>18, <2>1, <2>2
<1>26. Even(d, i) => Even(e, i)
  <2> SUFFICES ASSUME Even(d, i) PROVE Even(e, i)
    OBVIOUS
  <2>1. rem = given /\ un = 0 /\ rem + n = given + n
    BY <1>1, <1>4, <1>13
  <2>2. ASSUME ~produced PROVE out = Q \/ (completed = 0 /\ fabIn + f = 0)
    <3>1. CASE f = 0
      BY <1>1, <1>13, <2>2, <3>1
    <3>2. CASE f > 0
      <4>1. Galvanizes(d, i)
        BY <3>2
      <4>2. ASSUME completed = 0, fabIn = 0 PROVE FALSE
        <5>1. Q + f <= avail
          BY <1>1, <1>23, <2>1, <2>2, <3>2, <4>1, <4>2
        <5>2. sent = 0 /\ fabOut = 0 /\ back = 0
          BY <1>1, <1>9, <2>2, <4>1, <4>2
        <5>3. avail <= back + (out + fabOut) /\ out <= Q + un
          BY <1>5, <1>6, <4>1
        <5>4. QED BY <1>1, <2>1, <3>2, <5>1, <5>2, <5>3
      <4>3. QED BY <1>13, <2>2, <4>2
    <3>3. QED BY <3>1, <3>2
  <2>3. QED BY <1>13, <2>1, <2>2
<1>27. Fit(e, i)
  BY <1>22, <1>24, <1>25 DEF Fit
<1>28. Ready(e, i)
  <2>1. e.exp[i].sep + (rem + n) <= avail
    BY <1>1, <1>10, <1>21
  <2>2. ~e.item[i].delivered => e.exp[i].avail <= DerivedAvailable(e, i)
    BY <1>1, <1>2, <1>14, <1>15
  <2>3. e.exp[i].sep + e.exp[i].rem <= e.exp[i].avail
    BY <1>2, <2>1
  <2>4. QED BY <1>27, <2>2, <2>3, ReadyIfStocked
<1>29. QED BY <1>26, <1>27, <1>28

-----------------------------------------------------------------------------
\* The sums of the lines, as the plan and the verification have them.
LEMMA KeyedOfSum ==
  ASSUME NEW L, IsFiniteSet(L), NEW f \in [L -> Nat], NEW g \in [L -> Nat], NEW h,
         \A l \in L : h[l] = f[l] + g[l], NEW k, NEW i
  PROVE  Keyed(h, k, L, i) = Keyed(f, k, L, i) + Keyed(g, k, L, i)
<1> DEFINE S == {l \in L : k[l] = i}
<1>1. IsFiniteSet(S) /\ \A l \in S : f[l] \in Int /\ g[l] \in Int /\ h[l] = f[l] + g[l]
  BY FS_Subset
<1>2. SumFunctionOnSet(h, S) = SumFunctionOnSet(f, S) + SumFunctionOnSet(g, S)
  <2> HIDE DEF S
  <2>1. QED BY <1>1, SumOfSums
<1>3. QED BY <1>2 DEF Keyed

LEMMA LineSums ==
  ASSUME NEW d, NEW q, LinesOK(q), NEW w, FitSwaps(d, q, w), \A l \in DOMAIN q : SumOf(w[l]) = q[l],
         NEW k, NEW i
  PROVE  LET in(f) == Keyed(f, k, DOMAIN q, i)
             g == StageOf(w, "inGalvanization")
             a == StageOf(w, "awaiting")
             p == StageOf(w, "toProduce")
             u == StageOf(w, "undefined") IN
         /\ in(g) \in Nat /\ in(a) \in Nat /\ in(p) \in Nat /\ in(u) \in Nat
         /\ in(OwedOf(w)) = in(p) + in(u) /\ in(FabricatedOf(w)) = in(g) + in(a)
         /\ in(q) = in(p) + in(u) + in(g) + in(a) /\ in(AtGalvanizerOf(w)) = in(g)
<1> DEFINE L == DOMAIN q
           in(f) == Keyed(f, k, DOMAIN q, i)
           g == StageOf(w, "inGalvanization")
           a == StageOf(w, "awaiting")
           p == StageOf(w, "toProduce")
           u == StageOf(w, "undefined")
           owed == OwedOf(w)
           made == FabricatedOf(w)
<1>1. IsFiniteSet(L) /\ DOMAIN w = L /\ \A l \in L, n \in Stage4 : w[l][n] \in Nat
  BY DEF LinesOK, FitSwaps
<1>2. \A l \in L : /\ w[l].inGalvanization \in Nat /\ w[l].awaiting \in Nat
                   /\ w[l].toProduce \in Nat /\ w[l].undefined \in Nat
  BY <1>1 DEF Stage4
<1>3. g \in [L -> Nat] /\ a \in [L -> Nat] /\ p \in [L -> Nat] /\ u \in [L -> Nat]
  BY <1>1, <1>2 DEF StageOf
<1>4. \A l \in L : owed[l] = p[l] + u[l] /\ made[l] = g[l] + a[l]
  BY <1>1 DEF StageOf, OwedOf, FabricatedOf, Owed, Fabricated
<1>5. \A l \in L : q[l] = owed[l] + made[l]
  <2> TAKE l \in L
  <2>1. q[l] = w[l].inGalvanization + w[l].awaiting + w[l].toProduce + w[l].undefined
    BY DEF SumOf
  <2>2. owed[l] = w[l].toProduce + w[l].undefined /\ made[l] = w[l].inGalvanization + w[l].awaiting
    BY <1>1 DEF OwedOf, FabricatedOf, Owed, Fabricated
  <2> HIDE DEF owed, made
  <2>3. QED BY <1>2, <2>1, <2>2
<1>6. owed \in [L -> Nat]
  BY LineFunctions
<1>7. made \in [L -> Nat]
  BY LineFunctions
<1>8. in(AtGalvanizerOf(w)) = in(g)
  BY DEF AtGalvanizerOf
<1> HIDE DEF L, g, a, p, u, owed, made
<1>9. /\ Keyed(owed, k, L, i) = Keyed(p, k, L, i) + Keyed(u, k, L, i)
      /\ Keyed(made, k, L, i) = Keyed(g, k, L, i) + Keyed(a, k, L, i)
      /\ Keyed(q, k, L, i) = Keyed(owed, k, L, i) + Keyed(made, k, L, i)
  BY SMTT(30), <1>1, <1>3, <1>4, <1>5, <1>6, <1>7, KeyedOfSum
<1>10. /\ Keyed(g, k, L, i) \in Nat /\ Keyed(a, k, L, i) \in Nat
       /\ Keyed(p, k, L, i) \in Nat /\ Keyed(u, k, L, i) \in Nat
  <2>1. L \in SUBSET L
    OBVIOUS
  <2>2. QED BY <1>1, <1>3, <2>1, KeyedBasics
<1>11. Keyed(q, k, L, i) = Keyed(p, k, L, i) + Keyed(u, k, L, i) + Keyed(g, k, L, i) + Keyed(a, k, L, i)
  BY <1>9, <1>10
<1>12. QED BY <1>8, <1>9, <1>10, <1>11 DEF L, g, a, p, u, owed, made

\* F is f on the lines S, those of L that k maps to i.
Selects(S, L, k, i) == \A l : l \in S <=> l \in L /\ k[l] = i
Follows(F, f, S) == DOMAIN F = S /\ \A l \in S : F[l] = f[l]

LEMMA SumOverLines ==
  ASSUME NEW L, IsFiniteSet(L), NEW f, NEW k, NEW i, NEW S, Selects(S, L, k, i), NEW F, Follows(F, f, S)
  PROVE  SumFunction(F) = Keyed(f, k, L, i)
<1>1. IsFiniteSet(S) /\ S = {l \in L : k[l] = i}
  BY FS_Subset DEF Selects
<1>2. SumFunction(F) = SumFunctionOnSet(F, S)
  BY SumIsOnDomain DEF Follows
<1>3. SumFunctionOnSet(F, S) = SumFunctionOnSet(f, S)
  BY <1>1, SumCongruence DEF Follows
<1>4. QED BY <1>1, <1>2, <1>3 DEF Keyed

LEMMA PlannedIsKeyed ==
  ASSUME NEW d, NEW q, LinesOK(q), NEW w, FitSwaps(d, q, w), NEW i
  PROVE  LET L == DOMAIN q
             in(f) == Keyed(f, ToOf(L), L, i)
             out(f) == Keyed(f, FromOf(L), L, i) IN
         /\ PlannedChange(w, q, i, "delivered") = 0
         /\ PlannedChange(w, q, i, "ready") = in(q) - out(q)
         /\ PlannedChange(w, q, i, "toProduce") = out(OwedOf(w)) - in(StageOf(w, "toProduce"))
         /\ PlannedChange(w, q, i, "undefined") = 0 - in(StageOf(w, "undefined"))
         /\ \A n \in {"awaiting", "inGalvanization"} :
              PlannedChange(w, q, i, n) = out(StageOf(w, n)) - in(StageOf(w, n))
<1> DEFINE L == DOMAIN q
           in(f) == Keyed(f, ToOf(L), L, i)
           out(f) == Keyed(f, FromOf(L), L, i)
           S == {line \in DOMAIN q : line[2] = i}
           T == {line \in DOMAIN q : line[1] = i}
           zero == [l \in L |-> 0]
<1>1. IsFiniteSet(L) /\ DOMAIN w = L
  BY DEF LinesOK, FitSwaps
<1>2. Selects(S, L, FromOf(L), i)
  BY DEF FromOf, Selects
<1>b. Selects(T, L, ToOf(L), i)
  BY DEF ToOf, Selects
<1>3. PlannedChange(w, q, i, "delivered") = 0
  BY DEF PlannedChange
<1>4. PlannedChange(w, q, i, "ready") = SumFunction([line \in T |-> q[line]]) - SumFunction([line \in S |-> q[line]])
  BY DEF PlannedChange
<1>5. PlannedChange(w, q, i, "toProduce")
        = SumFunction([line \in S |-> w[line]["toProduce"] + w[line].undefined])
          - SumFunction([line \in T |-> w[line]["toProduce"]])
  BY DEF PlannedChange
<1>6. PlannedChange(w, q, i, "undefined")
        = SumFunction([line \in S |-> 0]) - SumFunction([line \in T |-> w[line]["undefined"]])
  BY DEF PlannedChange
<1>7. \A n \in {"awaiting", "inGalvanization"} :
        PlannedChange(w, q, i, n) = SumFunction([line \in S |-> w[line][n]]) - SumFunction([line \in T |-> w[line][n]])
  BY DEF PlannedChange
<1>8. \A n : /\ SumFunction([line \in S |-> w[line][n]]) = out(StageOf(w, n))
             /\ SumFunction([line \in T |-> w[line][n]]) = in(StageOf(w, n))
  <2> TAKE n
  <2> DEFINE F == [line \in S |-> w[line][n]]
             G == [line \in T |-> w[line][n]]
             h == StageOf(w, n)
  <2>1. Follows(F, h, S)
    BY <1>1 DEF StageOf, Follows
  <2>3. Follows(G, h, T)
    BY <1>1 DEF StageOf, Follows
  <2> HIDE DEF F, G, h, S, T, L
  <2>c. SumFunction(F) = Keyed(h, FromOf(L), L, i)
    BY <1>1, <1>2, <2>1, SumOverLines
  <2>d. SumFunction(G) = Keyed(h, ToOf(L), L, i)
    BY <1>1, <1>b, <2>3, SumOverLines
  <2>2. SumFunction(F) = Keyed(h, FromOf(L), L, i) /\ SumFunction(G) = Keyed(h, ToOf(L), L, i)
    BY <2>c, <2>d
  <2>4. QED BY <2>2 DEF F, G, h, S, T
<1>9. SumFunction([line \in S |-> q[line]]) = out(q) /\ SumFunction([line \in T |-> q[line]]) = in(q)
  <2> DEFINE F == [line \in S |-> q[line]]
             G == [line \in T |-> q[line]]
             h == q
  <2>1. Follows(F, h, S)
    BY DEF Follows
  <2>3. Follows(G, h, T)
    BY DEF Follows
  <2> HIDE DEF F, G, h, S, T, L
  <2>c. SumFunction(F) = Keyed(h, FromOf(L), L, i)
    BY <1>1, <1>2, <2>1, SumOverLines
  <2>d. SumFunction(G) = Keyed(h, ToOf(L), L, i)
    BY <1>1, <1>b, <2>3, SumOverLines
  <2>2. SumFunction(F) = Keyed(h, FromOf(L), L, i) /\ SumFunction(G) = Keyed(h, ToOf(L), L, i)
    BY <2>c, <2>d
  <2>4. QED BY <2>2 DEF F, G, h
<1>10. SumFunction([line \in S |-> w[line]["toProduce"] + w[line].undefined]) = out(OwedOf(w))
  <2> DEFINE F == [line \in S |-> w[line]["toProduce"] + w[line].undefined]
             h == OwedOf(w)
  <2>1. Follows(F, h, S)
    BY <1>1 DEF OwedOf, Owed, Follows
  <2> HIDE DEF F, S, h, L
  <2>2. SumFunction(F) = Keyed(h, FromOf(L), L, i)
    BY <1>1, <1>2, <2>1, SumOverLines
  <2>3. QED BY <2>2 DEF F, h
<1>11. SumFunction([line \in S |-> 0]) = 0
  <2> DEFINE F == [line \in S |-> 0]
  <2>1. DOMAIN F = S /\ (\A l \in S : F[l] = 0) /\ IsFiniteSet(S)
    BY <1>1, FS_Subset
  <2> HIDE DEF F, S
  <2>2. SumFunction(F) = SumFunctionOnSet(F, S)
    BY <2>1, SumIsOnDomain
  <2>3. SumFunctionOnSet(F, S) = 0
    BY <2>1, SumOfZeros
  <2>4. QED BY <2>2, <2>3 DEF F
<1> HIDE DEF S, T, in, out
<1>12. QED BY <1>3, <1>4, <1>5, <1>6, <1>7, <1>8, <1>9, <1>10, <1>11 DEF in, out

\* What is given is received: the sums over all items grow alike.
LEMMA ExchangesMatch ==
  ASSUME NEW d \in Database, NEW q, LinesOK(q), NEW e \in Database,
         \A i \in Items : /\ e.swap[i].received = d.swap[i].received + Keyed(q, ToOf(DOMAIN q), DOMAIN q, i)
                          /\ e.swap[i].given = d.swap[i].given + Keyed(q, FromOf(DOMAIN q), DOMAIN q, i),
         Given(d) = Received(d)
  PROVE  Given(e) = Received(e)
<1> DEFINE L == DOMAIN q
           to == ToOf(L)
           from == FromOf(L)
           total == SumFunctionOnSet(q, L)
           givenOf(b) == [i \in Items |-> b.swap[i].given]
           receivedOf(b) == [i \in Items |-> b.swap[i].received]
           in == [i \in Items |-> SumFunctionOnSet(q, {l \in L : to[l] = i})]
           out == [i \in Items |-> SumFunctionOnSet(q, {l \in L : from[l] = i})]
<1>1. IsFiniteSet(L) /\ IsFiniteSet(Items) /\ q \in [L -> Nat]
  BY ItemsAssumption DEF LinesOK
<1>2. \A l \in L : q[l] \in Int /\ to[l] \in Items /\ from[l] \in Items
  BY <1>1 DEF LinesOK, ToOf, FromOf
<1>3. SumFunctionOnSet(in, Items) = total /\ SumFunctionOnSet(out, Items) = total
  <2>1. \A l \in L : q[l] \in Int /\ to[l] \in Items
    BY <1>2
  <2>2. \A l \in L : q[l] \in Int /\ from[l] \in Items
    BY <1>2
  <2> HIDE DEF L, to, from
  <2>3. QED BY <1>1, <2>1, <2>2, SumByKey
<1>4. \A i \in Items : in[i] = Keyed(q, to, L, i) /\ out[i] = Keyed(q, from, L, i)
  BY DEF Keyed
<1>5. \A i \in Items : Keyed(q, to, L, i) \in Nat /\ Keyed(q, from, L, i) \in Nat
  <2>1. L \in SUBSET L
    OBVIOUS
  <2>2. QED BY <1>1, <2>1, KeyedBasics
<1>6. /\ Given(d) = SumFunctionOnSet(givenOf(d), Items) /\ Given(e) = SumFunctionOnSet(givenOf(e), Items)
      /\ Received(d) = SumFunctionOnSet(receivedOf(d), Items)
      /\ Received(e) = SumFunctionOnSet(receivedOf(e), Items)
  BY DEF Given, Received, SumFunction
<1>7. \A i \in Items : /\ givenOf(d)[i] \in Int /\ out[i] \in Int /\ givenOf(e)[i] = givenOf(d)[i] + out[i]
                       /\ receivedOf(d)[i] \in Int /\ in[i] \in Int
                       /\ receivedOf(e)[i] = receivedOf(d)[i] + in[i]
  <2> TAKE i \in Items
  <2>1. d.swap[i].given \in Nat /\ d.swap[i].received \in Nat
    BY Numbers
  <2>2. givenOf(d)[i] = d.swap[i].given /\ givenOf(e)[i] = e.swap[i].given
        /\ receivedOf(d)[i] = d.swap[i].received /\ receivedOf(e)[i] = e.swap[i].received
    OBVIOUS
  <2>3. in[i] = Keyed(q, to, L, i) /\ out[i] = Keyed(q, from, L, i)
        /\ Keyed(q, to, L, i) \in Nat /\ Keyed(q, from, L, i) \in Nat
    BY <1>4, <1>5
  <2>4. /\ e.swap[i].received = d.swap[i].received + Keyed(q, to, L, i)
        /\ e.swap[i].given = d.swap[i].given + Keyed(q, from, L, i)
    OBVIOUS
  <2> HIDE DEF givenOf, receivedOf, in, out, to, from, L
  <2>5. QED BY <2>1, <2>2, <2>3, <2>4
<1> DEFINE gd == givenOf(d)
           ge == givenOf(e)
           rd == receivedOf(d)
           re == receivedOf(e)
<1>8. /\ \A i \in Items : gd[i] \in Int /\ out[i] \in Int /\ ge[i] = gd[i] + out[i]
      /\ \A i \in Items : rd[i] \in Int /\ in[i] \in Int /\ re[i] = rd[i] + in[i]
  BY <1>7
<1> HIDE DEF gd, ge, rd, re, in, out, total
<1>9. /\ SumFunctionOnSet(ge, Items) = SumFunctionOnSet(gd, Items) + SumFunctionOnSet(out, Items)
      /\ SumFunctionOnSet(re, Items) = SumFunctionOnSet(rd, Items) + SumFunctionOnSet(in, Items)
  BY <1>1, <1>8, SumOfSums
<1>10. QED BY <1>3, <1>6, <1>9 DEF gd, ge, rd, re

\* An item that is no source receives; one that is no destination gives.
LEMMA ReceiversAndGivers ==
  ASSUME NEW d, NEW e, NEW q, LinesOK(q), NEW w, FitSwaps(d, q, w), NEW i \in Items, d \in Database,
         TrackedItem(d, q, w, DOMAIN q, e, i), \A l \in DOMAIN q : SumOf(w[l]) = q[l]
  PROVE  LET in(f) == Keyed(f, ToOf(DOMAIN q), DOMAIN q, i)
             out(f) == Keyed(f, FromOf(DOMAIN q), DOMAIN q, i)
             g == StageOf(w, "inGalvanization") IN
         /\ (\A l \in DOMAIN q : l[2] # i) =>
              Receives(d, e, i, in(q), in(OwedOf(w)), in(FabricatedOf(w)), in(g))
              /\ \A f \in [DOMAIN q -> Nat] : out(f) = 0
         /\ (\E l \in DOMAIN q : l[2] = i) =>
              Gives(d, e, i, out(q), out(OwedOf(w)), out(FabricatedOf(w)), out(g))
              /\ \A f \in [DOMAIN q -> Nat] : in(f) = 0
<1> DEFINE L == DOMAIN q
           in(f) == Keyed(f, ToOf(L), L, i)
           out(f) == Keyed(f, FromOf(L), L, i)
           g == AtGalvanizerOf(w)
           owed == OwedOf(w)
           made == FabricatedOf(w)
<1>1. IsFiniteSet(L) /\ L \in SUBSET L
  BY DEF LinesOK
<1>2. q \in [L -> Nat]
  BY LineFunctions
<1>3. owed \in [L -> Nat]
  BY LineFunctions
<1>4. made \in [L -> Nat]
  BY LineFunctions
<1>5. g \in [L -> Nat]
  BY LineFunctions
<1>6. ASSUME \A l \in L : l[2] # i, NEW f \in [L -> Nat] PROVE out(f) = 0
  <2>1. \A l \in L : FromOf(L)[l] # i
    BY <1>6 DEF FromOf
  <2> HIDE DEF L
  <2>2. QED BY <1>1, <1>6, <2>1, KeyedBasics
<1>7. ASSUME \E l \in L : l[2] = i, NEW f \in [L -> Nat] PROVE in(f) = 0
  <2>1. \A l \in L : ToOf(L)[l] # i
    BY <1>7 DEF ToOf, LinesOK
  <2> HIDE DEF L
  <2>2. QED BY <1>1, <1>7, <2>1, KeyedBasics
<1>8. /\ e.item[i].flow = d.item[i].flow /\ e.item[i].produced = d.item[i].produced
      /\ e.item[i].delivered = d.item[i].delivered
      /\ e.exp[i].avail = d.exp[i].avail + in(q) /\ e.exp[i].rem = d.exp[i].rem + out(q)
      /\ e.exp[i].del = d.exp[i].del
      /\ IF \E l \in L : l[2] = i
         THEN e.exp[i].sep <= e.exp[i].del \/ e.exp[i].sep + e.exp[i].rem <= e.exp[i].avail
         ELSE e.exp[i].sep = d.exp[i].sep
      /\ e.swap[i].completed = d.swap[i].completed
      /\ e.swap[i].received = d.swap[i].received + in(q)
      /\ e.swap[i].out = d.swap[i].out + in(owed) /\ e.swap[i].fabOut = d.swap[i].fabOut + in(made)
      /\ e.swap[i].given = d.swap[i].given + out(q)
      /\ e.swap[i].pending = d.swap[i].pending + out(owed)
      /\ e.swap[i].fabIn = d.swap[i].fabIn + out(made)
      /\ Sent(e, i) = Sent(d, i) - in(g) + out(g)
      /\ Back(e, i) = Back(d, i)
  BY DEF TrackedItem
<1>9. Sent(d, i) \in Nat
  BY LoadSums
<1>10. g = StageOf(w, "inGalvanization")
  BY DEF AtGalvanizerOf
<1>11. \A f \in [L -> Nat] : in(f) \in Nat /\ out(f) \in Nat
  <2> HIDE DEF L
  <2>1. QED BY <1>1, KeyedBasics
<1>12. ASSUME \A l \in L : l[2] # i
       PROVE  Receives(d, e, i, in(q), in(owed), in(made), in(g))
  <2>1. out(q) = 0 /\ out(owed) = 0 /\ out(made) = 0 /\ out(g) = 0
    BY <1>2, <1>3, <1>4, <1>5, <1>6, <1>12
  <2>2. in(g) \in Nat
    BY <1>5, <1>11
  <2>3. d.exp[i].rem \in Nat /\ d.swap[i].given \in Nat /\ d.swap[i].pending \in Nat /\ d.swap[i].fabIn \in Nat
    BY Numbers
  <2>4. ~(\E l \in L : l[2] = i)
    BY <1>12
  <2> HIDE DEF L, in, out, g, owed, made
  <2>5. e.exp[i].rem = d.exp[i].rem /\ e.swap[i].given = d.swap[i].given
        /\ e.swap[i].pending = d.swap[i].pending /\ e.swap[i].fabIn = d.swap[i].fabIn
        /\ Sent(e, i) = Sent(d, i) - in(g)
    BY <1>8, <1>9, <2>1, <2>2, <2>3
  <2>6. QED BY <1>8, <2>4, <2>5 DEF Receives
<1>13. ASSUME \E l \in L : l[2] = i
       PROVE  Gives(d, e, i, out(q), out(owed), out(made), out(g))
  <2>1. in(q) = 0 /\ in(owed) = 0 /\ in(made) = 0 /\ in(g) = 0
    BY <1>2, <1>3, <1>4, <1>5, <1>7, <1>13
  <2>2. out(g) \in Nat
    BY <1>5, <1>11
  <2>3. d.exp[i].avail \in Nat /\ d.swap[i].received \in Nat /\ d.swap[i].out \in Nat /\ d.swap[i].fabOut \in Nat
    BY Numbers
  <2> HIDE DEF L, in, out, g, owed, made
  <2>4. e.exp[i].avail = d.exp[i].avail /\ e.swap[i].received = d.swap[i].received
        /\ e.swap[i].out = d.swap[i].out /\ e.swap[i].fabOut = d.swap[i].fabOut
        /\ Sent(e, i) = Sent(d, i) + out(g)
    BY <1>8, <1>9, <2>1, <2>2, <2>3
  <2>5. QED BY <1>8, <1>13, <2>4 DEF Gives
<1>14. QED BY <1>6, <1>7, <1>10, <1>12, <1>13

LEMMA ItemIsConfirmed ==
  ASSUME NEW d \in Database, LinksNest(d), NEW i \in Items, Fit(d, i), Open(d, i),
         NEW q, LinesOK(q), Plannable(d, q), Conserves(d, q),
         NEW e, Tracked(d, q, StageSwaps(d, q), DOMAIN q, e), e = Written(d, q)
  PROVE  /\ Fit(e, i) /\ (Even(d, i) => Even(e, i)) /\ Ready(e, i)
         /\ i \notin Changed(e, d) => Open(e, i)
<1> DEFINE L == DOMAIN q
           w == StageSwaps(d, q)
           in(f) == Keyed(f, ToOf(L), L, i)
           out(f) == Keyed(f, FromOf(L), L, i)
           g == StageOf(w, "inGalvanization")
           a == StageOf(w, "awaiting")
           p == StageOf(w, "toProduce")
           u == StageOf(w, "undefined")
           owed == OwedOf(w)
           made == FabricatedOf(w)
<1>1. /\ FitSwaps(d, q, w) /\ IsFiniteSet(L) /\ L \in SUBSET L
      /\ \A l \in L : SumOf(w[l]) = q[l] /\ FlowDefined(d, l[2])
  BY SwapsFit DEF LinesOK, Plannable
<1>2. e \in Database /\ LinksNest(e) /\ TrackedItem(d, q, w, L, e, i)
  BY DEF Tracked
<1>3. q \in [L -> Nat]
  BY <1>1, LineFunctions
<1>4. made \in [L -> Nat]
  BY <1>1, LineFunctions
<1>5. /\ in(g) \in Nat /\ in(a) \in Nat /\ in(p) \in Nat /\ in(u) \in Nat
      /\ in(owed) = in(p) + in(u) /\ in(made) = in(g) + in(a)
      /\ in(q) = in(p) + in(u) + in(g) + in(a)
  <2> HIDE DEF w
  <2>1. QED BY <1>1, LineSums
<1>6. /\ out(g) \in Nat /\ out(a) \in Nat /\ out(p) \in Nat /\ out(u) \in Nat
      /\ out(owed) = out(p) + out(u) /\ out(made) = out(g) + out(a)
      /\ out(q) = out(p) + out(u) + out(g) + out(a)
  <2> HIDE DEF w
  <2>1. QED BY <1>1, LineSums
<1>7. /\ (\A l \in L : l[2] # i) => Receives(d, e, i, in(q), in(owed), in(made), in(g))
      /\ (\E l \in L : l[2] = i) => Gives(d, e, i, out(q), out(owed), out(made), out(g))
  <2> HIDE DEF w
  <2>1. QED BY <1>1, <1>2, ReceiversAndGivers
<1>8. (\E l \in L : l[2] = i) => \A f \in [L -> Nat] : in(f) = 0
  <2> HIDE DEF w
  <2>1. QED BY <1>1, <1>2, ReceiversAndGivers
<1>9. CASE \A l \in L : l[2] # i
  <2>1. Receives(d, e, i, in(q), in(p) + in(u), in(g) + in(a), in(g))
    BY <1>5, <1>7, <1>9
  <2>2. /\ in(g) <= Capacity(d, i).inGalvanization /\ in(a) <= Capacity(d, i).awaiting
        /\ in(p) <= Capacity(d, i).toProduce /\ in(u) <= Capacity(d, i).undefined
    <3>1. \A n \in Stage4 : Keyed(StageOf(w, n), ToOf(L), L, i) <= Capacity(d, i)[n]
      BY <1>1 DEF FitSwaps
    <3>2. QED BY <3>1 DEF Stage4
  <2>3. in(q) \in Nat
    BY <1>5
  <2> HIDE DEF w, g, a, p, u, in
  <2>4. Fit(e, i) /\ (Even(d, i) => Even(e, i)) /\ Ready(e, i)
    BY <1>2, <1>5, <2>1, <2>2, <2>3, DestinationKeeps
  <2>5. ASSUME i \notin Changed(e, d) PROVE Open(e, i)
    <3>1. e.item[i] = d.item[i] /\ e.exp[i] = d.exp[i] /\ e.swap[i] = d.swap[i]
      BY <2>5 DEF Changed
    <3>2. Back(e, i) = Back(d, i)
      BY <2>1 DEF Receives
    <3>3. DerivedAvailable(e, i) = DerivedAvailable(d, i)
      BY <3>1, <3>2, SameDerived
    <3>4. QED BY <3>1, <3>3 DEF Open
  <2>6. QED BY <2>4, <2>5
<1>10. CASE \E l \in L : l[2] = i
  <2>1. PICK l \in L : l[2] = i
    BY <1>10
  <2>2. FlowDefined(d, i)
    BY <1>1, <2>1
  <2>3. out(q) > 0
    <3>1. FromOf(L)[l] = i
      BY <2>1 DEF FromOf
    <3>2. q[l] \in Nat /\ q[l] > 0
      BY DEF LinesOK
    <3>3. q[l] <= out(q)
      <4> HIDE DEF L
      <4>1. QED BY <1>1, <1>3, <3>1, KeyedBasics
    <3>4. out(q) \in Nat
      BY <1>6
    <3> HIDE DEF out
    <3>5. QED BY <3>2, <3>3, <3>4
  <2>4. ~Galvanizes(d, i) => out(made) = 0
    <3> SUFFICES ASSUME ~Galvanizes(d, i) PROVE out(made) = 0
      OBVIOUS
    <3>1. \A m \in L : FromOf(L)[m] = i => made[m] = 0
      BY <1>1 DEF FromOf, FitSwaps, FabricatedOf
    <3> HIDE DEF L, made
    <3>2. QED BY <1>1, <1>4, <3>1, KeyedBasics
  <2>5. i \in Involved(q)
    BY <2>1 DEF Involved
  <2>6. \A n \in StageNames : Stages(e, i)[n] = Stages(d, i)[n] + PlannedChange(w, q, i, n)
    BY <2>5 DEF Conserves
  <2>7. PlannedChange(w, q, i, "ready") = in(q) - out(q)
        /\ PlannedChange(w, q, i, "toProduce") = out(owed) - in(p)
    <3> HIDE DEF w
    <3>1. QED BY <1>1, PlannedIsKeyed
  <2>8. in(q) = 0 /\ in(p) = 0
    <3>1. p \in [L -> Nat]
      <4>1. "toProduce" \in Stage4
        BY DEF Stage4
      <4> HIDE DEF w
      <4>2. \A n \in Stage4 : StageOf(w, n) \in [L -> Nat]
        BY <1>1, LineFunctions
      <4>3. QED BY <4>1, <4>2
    <3>2. QED BY <1>3, <1>8, <1>10, <3>1
  <2>9. Stages(d, i).ready = ReadyAvailable(d, i) /\ Stages(e, i).ready = ReadyAvailable(e, i)
    BY DEF Stages
  <2>10. out(owed) \in Nat /\ out(made) \in Nat /\ out(q) \in Nat /\ out(g) <= out(made)
         /\ out(q) = out(owed) + out(made)
    <3> HIDE DEF out, g, a, p, u, made, owed
    <3>1. QED BY <1>6
  <2>11. ReadyAvailable(d, i) \in Nat
    BY DerivedType
  <2>12. /\ Stages(e, i).ready = Stages(d, i).ready + (in(q) - out(q))
         /\ Stages(e, i).toProduce = Stages(d, i).toProduce + (out(owed) - in(p))
    BY <2>6, <2>7 DEF StageNames
  <2>13. Gives(d, e, i, out(q), out(owed), out(made), out(g))
    BY <1>7, <1>10
  <2> HIDE DEF w, g, a, p, u, in, out, owed, made
  <2>14. ReadyAvailable(e, i) = ReadyAvailable(d, i) - out(q)
    BY <2>8, <2>9, <2>10, <2>11, <2>12
  <2>15. Stages(e, i).toProduce = Stages(d, i).toProduce + out(owed)
    BY <2>8, <2>10, <2>12
  <2>16. Fit(e, i) /\ (Even(d, i) => Even(e, i)) /\ Ready(e, i)
    BY <1>2, <1>6, <2>2, <2>3, <2>4, <2>10, <2>13, <2>14, <2>15, SourceKeeps
  <2>17. i \in Changed(e, d)
    <3>1. e.swap[i].given = d.swap[i].given + out(q) /\ d.swap[i].given \in Nat
      BY <2>13, Numbers DEF Gives
    <3>2. e.swap[i].given # d.swap[i].given
      BY <2>3, <2>10, <3>1
    <3>3. e.swap[i] # d.swap[i]
      BY <3>2
    <3>4. QED BY <3>3 DEF Changed
  <2>18. QED BY <2>16, <2>17
<1>11. QED BY <1>9, <1>10

LEMMA RemanagementIsConfirmed ==
  ASSUME PieceInv, NEW s \in Sessions, LinesOK(request[s].lines), ConfirmRemanagement(s)
  PROVE  Drafted(db', returned') /\ \A j \in Items : Open(db', j)
<1> DEFINE q == request[s].lines
           e == Written(db, q)
<1>1. /\ LinesOK(q) /\ Plannable(db, q) /\ Conserves(db, q) /\ Commit(e) /\ returned' = returned
  BY DEF ConfirmRemanagement
<1>2. /\ db \in Database /\ LinksNest(db) /\ \A i \in Items : Fit(db, i) /\ Open(db, i)
      /\ \A i \in Items \ returned : Even(db, i)
      /\ Given(db) = Received(db)
  BY DEF PieceInv, Drafted
<1>3. db' = Reconciled(e, db)
  BY <1>1, CommitIsReconciled
<1> HIDE DEF q
<1>4. Tracked(db, q, StageSwaps(db, q), DOMAIN q, e)
  BY <1>1, <1>2, WrittenIsTracked
<1>5. \A i \in Items : /\ Fit(e, i) /\ (Even(db, i) => Even(e, i)) /\ Ready(e, i)
                       /\ i \notin Changed(e, db) => Open(e, i)
  <2> TAKE i \in Items
  <2> DEFINE f == Written(db, q)
  <2>1. f = Written(db, q) /\ Tracked(db, q, StageSwaps(db, q), DOMAIN q, f) /\ Fit(db, i) /\ Open(db, i)
    BY <1>2, <1>4
  <2> HIDE DEF f
  <2>2. /\ Fit(f, i) /\ (Even(db, i) => Even(f, i)) /\ Ready(f, i)
        /\ i \notin Changed(f, db) => Open(f, i)
    BY <1>1, <1>2, <2>1, ItemIsConfirmed
  <2>3. QED BY <2>2 DEF f
<1> HIDE DEF e
<1>6. e \in Database /\ LinksNest(e)
  BY <1>4 DEF Tracked
<1>7. Given(e) = Received(e)
  <2>1. \A i \in Items : /\ e.swap[i].received = db.swap[i].received + Keyed(q, ToOf(DOMAIN q), DOMAIN q, i)
                         /\ e.swap[i].given = db.swap[i].given + Keyed(q, FromOf(DOMAIN q), DOMAIN q, i)
    BY <1>4 DEF Tracked, TrackedItem
  <2>2. QED BY <1>1, <1>2, <1>6, <2>1, ExchangesMatch
<1>8. Drafted(e, returned)
  BY <1>2, <1>5, <1>6, <1>7 DEF Drafted
<1>9. Drafted(Reconciled(e, db), returned) /\ \A i \in Items : Open(Reconciled(e, db), i)
  BY <1>5, <1>8, CommitKeeps
<1>10. QED BY <1>1, <1>3, <1>9

-----------------------------------------------------------------------------
\* What sessions have asked for is a request, whenever they are answered.
Asked ==
  /\ DOMAIN request = Sessions
  /\ \A s \in Sessions : request[s] # NoRequest => request[s].lines \in Requests

ExchangeInv == PieceInv /\ Asked

LEMMA ExchangeInvInit == Init => ExchangeInv
<1> SUFFICES ASSUME Init PROVE PieceInv /\ Asked
  BY DEF ExchangeInv
<1>1. PICK flow \in [Items -> Flows] :
        db = [item |-> [i \in Items |-> [flow |-> flow[i], produced |-> FALSE,
                                         galvanized |-> FALSE, delivered |-> FALSE]],
              exp |-> [i \in Items |-> NoRow],
              link |-> [l \in Loads |-> [i \in Items |-> NoLink]],
              away |-> [l \in Loads |-> FALSE],
              swap |-> [i \in Items |-> NoExchange]]
  BY DEF Init
<1>2. \A i \in Items : /\ db.exp[i] = NoRow /\ db.swap[i] = NoExchange
                       /\ ~db.item[i].produced /\ ~db.item[i].delivered
                       /\ \A l \in Loads : db.link[l][i] = NoLink
  BY <1>1
<1>3. db \in Database
  <2>1. NoRow \in ExpeditionItem /\ NoLink \in LoadItem /\ NoExchange \in Exchanged
    BY DEF NoRow, NoLink, NoExchange, ExpeditionItem, LoadItem, Exchanged
  <2>2. \A i \in Items : [flow |-> flow[i], produced |-> FALSE, galvanized |-> FALSE, delivered |-> FALSE] \in Item
    BY DEF Item
  <2>3. /\ db.item \in [Items -> Item] /\ db.exp \in [Items -> ExpeditionItem]
        /\ db.link \in [Loads -> [Items -> LoadItem]] /\ db.away \in [Loads -> BOOLEAN]
        /\ db.swap \in [Items -> Exchanged]
    BY <1>1, <2>1, <2>2
  <2>4. db = [item |-> db.item, exp |-> db.exp, link |-> db.link, away |-> db.away, swap |-> db.swap]
    BY <1>1
  <2>5. QED BY <2>3, <2>4 DEF Database
<1>4. LinksNest(db)
  BY <1>2 DEF LinksNest, NoLink
<1>5. \A i \in Items : Sent(db, i) = 0 /\ Back(db, i) = 0
  <2> TAKE i \in Items
  <2> DEFINE sent == [l \in Loads |-> db.link[l][i].sent]
             back == [l \in Loads |-> db.link[l][i].returned]
  <2>1. Sent(db, i) = SumFunctionOnSet(sent, Loads) /\ Back(db, i) = SumFunctionOnSet(back, Loads)
    BY DEF Sent, Back, SumFunction
  <2>2. \A l \in Loads : sent[l] = 0 /\ back[l] = 0
    BY <1>2 DEF NoLink
  <2> HIDE DEF sent, back
  <2>3. QED BY <2>1, <2>2, LoadsAssumption, SumOfZeros
<1>6. ASSUME NEW i \in Items PROVE Fit(db, i) /\ Even(db, i) /\ Open(db, i)
  <2> DEFINE e == db.exp[i]
             x == db.swap[i]
  <2>1. /\ e.avail = 0 /\ e.sep = 0 /\ e.del = 0 /\ e.rem = 0
        /\ x.out = 0 /\ x.pending = 0 /\ x.completed = 0 /\ x.fabIn = 0 /\ x.fabOut = 0
        /\ x.given = 0 /\ x.received = 0
    BY <1>2 DEF NoRow, NoExchange
  <2>2. ~db.item[i].produced /\ ~db.item[i].delivered /\ Sent(db, i) = 0 /\ Back(db, i) = 0
    BY <1>2, <1>5
  <2>3. Qty[i] \in Nat
    BY QtyAssumption
  <2> HIDE DEF e, x
  <2>4. /\ db.exp[i].avail = 0 /\ db.exp[i].sep = 0 /\ db.exp[i].del = 0 /\ db.exp[i].rem = 0
        /\ db.swap[i].out = 0 /\ db.swap[i].pending = 0 /\ db.swap[i].completed = 0
        /\ db.swap[i].fabIn = 0 /\ db.swap[i].fabOut = 0
        /\ db.swap[i].given = 0 /\ db.swap[i].received = 0
    BY <2>1 DEF e, x
  <2>5. Undone(db, i) = 0
    BY <2>4 DEF Undone
  <2>6. Swapped(db, i)
    BY <2>2, <2>4 DEF Swapped
  <2>7. Supply(db, i) = 0
    BY <2>2, <2>4 DEF Supply
  <2>8. Stocked(db, i)
    BY <2>2, <2>3, <2>4, <2>5, <2>7 DEF Stocked
  <2>9. Piped(db, i)
    BY <2>2, <2>4 DEF Piped
  <2>10. Even(db, i)
    BY <2>2, <2>4 DEF Even
  <2>11. DerivedAvailable(db, i) = 0
    BY <2>2, <2>4 DEF DerivedAvailable, Galvanizes
  <2>12. Open(db, i)
    BY <2>4, <2>11 DEF Open
  <2>13. QED BY <2>6, <2>8, <2>9, <2>10, <2>12 DEF Fit
<1>7. Given(db) = Received(db)
  <2>1. \A i \in Items : db.swap[i].given = db.swap[i].received
    BY <1>2 DEF NoExchange
  <2>2. QED BY <2>1 DEF Given, Received
<1>8. TypeOK
  BY <1>3 DEF Init, TypeOK
<1>9. returned = {}
  BY DEF Init
<1>10. PieceInv
  BY <1>3, <1>4, <1>6, <1>7, <1>8, <1>9 DEF PieceInv, Drafted
<1>11. Asked
  BY DEF Init, Asked
<1>12. QED BY <1>10, <1>11

LEMMA ExchangeInvStep == ExchangeInv /\ [Next]_vars => ExchangeInv'
<1> SUFFICES ASSUME PieceInv, Asked, [Next]_vars PROVE PieceInv' /\ Asked'
  BY DEF ExchangeInv
<1> DEFINE Kept == Drafted(db', returned') /\ \A j \in Items : Open(db', j)
           Asks == \E q \in Reviewed, s \in Sessions, o \in Operations : LookUp(s, o, q)
<1>1. applied \in [Operations -> Nat] /\ returned \subseteq Items
  BY DEF PieceInv, TypeOK
<1>2. Drafted(db, returned) /\ \A j \in Items : Open(db, j)
  BY DEF PieceInv
<1>3. ASSUME NEW i \in Items, ItemStep(i)
      PROVE  Kept /\ returned' \subseteq Items /\ UNCHANGED <<request, applied>>
  <2>1. ASSUME NEW flow \in {"SIM", "NAO"}, DefineFlow(i, flow)
        PROVE  Kept /\ returned' = returned /\ UNCHANGED <<request, applied>>
    <3>1. returned' = returned /\ UNCHANGED <<request, applied>>
      BY <2>1 DEF DefineFlow, KeepRequests
    <3>2. QED BY <2>1, <3>1, FlowIsDefined
  <2>2. ASSUME CompleteProduction(i)
        PROVE  Kept /\ returned' = returned /\ UNCHANGED <<request, applied>>
    <3>1. returned' = returned /\ UNCHANGED <<request, applied>>
      BY <2>2 DEF CompleteProduction, KeepRequests
    <3>2. QED BY <2>2, <3>1, ProductionIsCompleted
  <2>3. ASSUME NEW n \in 1 .. Qty[i], SeparateItem(i, n) \/ DeliverItem(i, n) \/ ReturnToProduction(i, n)
        PROVE  Kept /\ returned' \subseteq Items /\ UNCHANGED <<request, applied>>
    <3>1. returned' \subseteq Items /\ UNCHANGED <<request, applied>>
      BY <1>1, <2>3 DEF SeparateItem, DeliverItem, ReturnToProduction, KeepRequests
    <3>2. QED BY <2>3, <3>1, ExpeditionIsHandled
  <2>4. QED BY <1>1, <1>3, <2>1, <2>2, <2>3 DEF ItemStep
<1>4. ASSUME NEW l \in Loads, LoadStep(l)
      PROVE  Kept /\ returned' = returned /\ UNCHANGED <<request, applied>>
  <2>1. ASSUME NEW S \in SUBSET {i \in Items : Eligible(db, i)},
               NEW load \in [S -> 1 .. Max(Range(Qty))], ComposeLoad(l, load)
        PROVE  Kept /\ returned' = returned /\ UNCHANGED <<request, applied>>
    <3>1. returned' = returned /\ UNCHANGED <<request, applied>>
      BY <2>1 DEF ComposeLoad, KeepRequests
    <3>2. S \in SUBSET Items
      OBVIOUS
    <3>3. QED BY <2>1, <3>1, <3>2, LoadIsComposed
  <2>2. ASSUME ReleaseLoad(l) PROVE Kept /\ returned' = returned /\ UNCHANGED <<request, applied>>
    <3>1. returned' = returned /\ UNCHANGED <<request, applied>>
      BY <2>2 DEF ReleaseLoad, KeepRequests
    <3>2. QED BY <2>2, <3>1, LoadIsReleased
  <2>3. ASSUME NEW i \in Items, NEW n \in 1 .. Qty[i], RegisterReturn(l, i, n)
        PROVE  Kept /\ returned' = returned /\ UNCHANGED <<request, applied>>
    <3>1. returned' = returned /\ UNCHANGED <<request, applied>>
      BY <2>3 DEF RegisterReturn, KeepRequests
    <3>2. QED BY <2>3, <3>1, ReturnIsRegistered
  <2>4. QED BY <1>4, <2>1, <2>2, <2>3 DEF LoadStep
<1>5. ASSUME NEW s \in Sessions, ConfirmRemanagement(s)
      PROVE  Kept /\ returned' = returned /\ Asked' /\ applied' \in [Operations -> Nat]
  <2>1. request[s] # NoRequest /\ returned' = returned /\ Answer(s)
        /\ applied' = [applied EXCEPT ![request[s].operation] = @ + 1]
    BY <1>5 DEF ConfirmRemanagement
  <2>2. LinesOK(request[s].lines)
    BY <2>1, RequestsAreLines DEF Asked
  <2>3. Kept
    BY <1>5, <2>2, RemanagementIsConfirmed
  <2>4. applied' \in [Operations -> Nat]
    <3> DEFINE o == request[s].operation
    <3>1. applied' = [applied EXCEPT ![o] = @ + 1]
      BY <2>1
    <3> HIDE DEF o
    <3>2. CASE o \in Operations
      BY <1>1, <3>1, <3>2
    <3>3. CASE o \notin Operations
      BY <1>1, <3>1, <3>3
    <3>4. QED BY <3>2, <3>3
  <2>5. Asked'
    BY <2>1 DEF Asked, Answer
  <2>6. QED BY <2>1, <2>3, <2>4, <2>5
<1>6. ASSUME NEW s \in Sessions, Replay(s) \/ RefuseRemanagement(s)
      PROVE  UNCHANGED <<db, applied, returned>> /\ Asked'
  BY <1>6 DEF Replay, RefuseRemanagement, Answer, Asked
<1>7. ASSUME Asks PROVE UNCHANGED <<db, applied, returned>> /\ Asked'
  <2>1. PICK q \in Reviewed, s \in Sessions, o \in Operations : LookUp(s, o, q)
    BY <1>7
  <2>2. q \in Requests
    BY DEF Reviewed
  <2>3. request' = [request EXCEPT ![s] = [operation |-> o, lines |-> q]]
        /\ UNCHANGED <<db, applied, returned>>
    BY <2>1 DEF LookUp
  <2>4. QED BY <2>2, <2>3 DEF Asked
<1> HIDE DEF Asks
<1>8. \/ UNCHANGED vars
      \/ \E i \in Items : ItemStep(i)
      \/ \E l \in Loads : LoadStep(l)
      \/ Asks
      \/ \E s \in Sessions : RemanagementStep(s)
  BY DEF Next, Asks
<1>9. Asked'
  <2>1. request' = request => Asked'
    BY DEF Asked
  <2>2. QED BY <1>3, <1>4, <1>5, <1>6, <1>7, <1>8, <2>1 DEF vars, RemanagementStep
<1>10. \/ Kept /\ returned' \subseteq Items /\ applied' \in [Operations -> Nat]
       \/ UNCHANGED <<db, applied, returned>>
  BY <1>1, <1>3, <1>4, <1>5, <1>6, <1>7, <1>8 DEF vars, RemanagementStep
<1>11. PieceInv'
  <2>1. CASE Kept /\ returned' \subseteq Items /\ applied' \in [Operations -> Nat]
    BY <2>1 DEF PieceInv, TypeOK, Drafted
  <2>2. CASE UNCHANGED <<db, applied, returned>>
    BY <2>2 DEF PieceInv, TypeOK
  <2>3. QED BY <1>10, <2>1, <2>2
<1>12. QED BY <1>9, <1>11

\* No column ever holds anything but what it may, through every exchange: in
\* particular no handler and no plan makes a quantity negative.
THEOREM ExchangesKeepTypes == Spec => []TypeOK
<1>1. ExchangeInv => TypeOK
  BY DEF ExchangeInv, PieceInv
<1> QED
  BY <1>1, ExchangeInvInit, ExchangeInvStep, PTL DEF Spec

\* The pieces of every item nest in what was ordered, made and exchanged, and
\* after every commit the Expedition row of an open item is up to date.
THEOREM PiecesNest == Spec => []PieceInv
<1>1. ExchangeInv => PieceInv
  BY DEF ExchangeInv
<1> QED
  BY <1>1, ExchangeInvInit, ExchangeInvStep, PTL DEF Spec

-----------------------------------------------------------------------------
\* The stages of an item, by its flow.
LEMMA StagesOfFlow ==
  ASSUME NEW d \in Database, LinksNest(d), NEW i \in Items, Fit(d, i)
  PROVE  LET st == Stages(d, i)
             e == d.exp[i]
             x == d.swap[i] IN
         /\ st.ready = e.avail - e.del - e.rem /\ st.ready \in Nat
         /\ st.delivered = e.del
         /\ ~FlowDefined(d, i) => /\ st.toProduce = x.pending /\ st.awaiting = 0 /\ st.inGalvanization = 0
                                  /\ st.undefined = AtLeastZero(Qty[i] - e.avail + e.rem)
                                  /\ x.pending = 0
         /\ FlowDefined(d, i) /\ ~Galvanizes(d, i) =>
              /\ st.toProduce = ReallocatableProduction(d, i) + x.pending
              /\ st.awaiting = 0 /\ st.inGalvanization = 0 /\ st.undefined = 0
         /\ Galvanizes(d, i) =>
              /\ st.toProduce = (IF d.item[i].produced THEN 0 ELSE ReallocatableProduction(d, i)) + x.pending
              /\ st.awaiting = IF d.item[i].produced THEN Pipeline(d, i) - Sent(d, i)
                               ELSE x.fabIn - x.fabOut + x.completed - Sent(d, i)
              /\ st.inGalvanization = Sent(d, i) - Back(d, i) /\ st.undefined = 0
<1> DEFINE e == d.exp[i]
           x == d.swap[i]
           st == Stages(d, i)
           pending == x.pending
           realloc == ReallocatableProduction(d, i)
<1>1. /\ e.avail \in Nat /\ e.del \in Nat /\ e.rem \in Nat /\ pending \in Nat /\ x.completed \in Nat
      /\ x.fabIn \in Nat /\ x.fabOut \in Nat /\ x.given \in Nat /\ Qty[i] \in Nat
      /\ Sent(d, i) \in Nat /\ Back(d, i) \in Nat /\ Back(d, i) <= Sent(d, i)
  BY Numbers, LoadSums
<1>2. ReadyAvailable(d, i) = e.avail - e.del - e.rem /\ ReadyAvailable(d, i) \in Nat
  <2>1. e.del + e.rem <= e.avail
    BY DEF Fit, Stocked
  <2>2. ReadyAvailable(d, i) = AtLeastZero(e.avail - e.del - e.rem)
    BY DEF ReadyAvailable
  <2> HIDE DEF e
  <2>3. QED BY <1>1, <2>1, <2>2 DEF AtLeastZero
<1>3. st.ready = ReadyAvailable(d, i) /\ st.delivered = e.del
  BY DEF Stages
<1>4. CASE ~FlowDefined(d, i)
  <2>1. ~Galvanizes(d, i) /\ Sent(d, i) = 0
    BY <1>4, FlowCases DEF Fit, Swapped
  <2>2. Unflowed(d, i)
    BY <1>4, <2>1 DEF Unflowed
  <2>3. /\ st.toProduce = pending /\ st.awaiting = 0 /\ st.inGalvanization = 0
        /\ st.undefined = AtLeastZero(Qty[i] - e.del - ReadyAvailable(d, i) - pending)
    BY <2>2 DEF Stages
  <2>4. pending = 0
    <3>1. x.given = 0 /\ x.given = pending + x.completed + x.fabIn
      BY <1>4 DEF Fit, Swapped
    <3> HIDE DEF pending, x
    <3>2. QED BY <1>1, <3>1
  <2>5. Qty[i] - e.del - ReadyAvailable(d, i) - pending = Qty[i] - e.avail + e.rem
    <3> HIDE DEF e, pending
    <3>1. QED BY <1>1, <1>2, <2>4
  <2>6. QED BY <1>2, <1>3, <1>4, <2>1, <2>3, <2>4, <2>5
<1>5. CASE FlowDefined(d, i) /\ ~Galvanizes(d, i)
  <2>1. ~Unflowed(d, i)
    BY <1>5 DEF Unflowed
  <2>2. st.toProduce = realloc + pending /\ st.awaiting = 0 /\ st.inGalvanization = 0 /\ st.undefined = 0
    BY <1>5, <2>1 DEF Stages, ProductionPending
  <2>3. QED BY <1>2, <1>3, <1>5, <2>2
<1>6. CASE Galvanizes(d, i)
  <2>1. FlowDefined(d, i)
    BY <1>6, FlowCases
  <2>2. ~Unflowed(d, i)
    BY <2>1 DEF Unflowed
  <2>3. /\ st.toProduce = (IF d.item[i].produced THEN 0 ELSE realloc) + pending
        /\ st.awaiting = Awaiting(d, i) /\ st.undefined = 0
        /\ st.inGalvanization = AtLeastZero(Sent(d, i) - Back(d, i))
    BY <1>6, <2>2 DEF Stages
  <2>4. Awaiting(d, i) = IF d.item[i].produced THEN Pipeline(d, i) - Sent(d, i)
                         ELSE AtLeastZero(x.fabIn - x.fabOut + x.completed - Sent(d, i))
    BY DEF Awaiting
  <2>5. ~d.item[i].produced => Sent(d, i) + x.fabOut <= x.completed + x.fabIn
    BY <1>6 DEF Fit, Piped
  <2>6. ~d.item[i].produced => AtLeastZero(x.fabIn - x.fabOut + x.completed - Sent(d, i))
                               = x.fabIn - x.fabOut + x.completed - Sent(d, i)
    <3> HIDE DEF x
    <3>1. QED BY <1>1, <2>5 DEF AtLeastZero
  <2>7. AtLeastZero(Sent(d, i) - Back(d, i)) = Sent(d, i) - Back(d, i)
    BY <1>1 DEF AtLeastZero
  <2>8. QED BY <1>2, <1>3, <1>6, <2>1, <2>3, <2>4, <2>6, <2>7
<1>7. QED BY <1>4, <1>5, <1>6, FlowCases

\* The stages of an open item nothing of which was returned to production add up
\* to what was ordered, and none is negative.
LEMMA StagesAddUp ==
  ASSUME NEW d \in Database, LinksNest(d), NEW i \in Items, Fit(d, i), Even(d, i), Open(d, i),
         ~d.item[i].delivered
  PROVE  Gap(d, i) = 0 /\ \A n \in StageNames : Stages(d, i)[n] \in Nat
<1> DEFINE avail == d.exp[i].avail
           del == d.exp[i].del
           rem == d.exp[i].rem
           given == d.swap[i].given
           received == d.swap[i].received
           out == d.swap[i].out
           pending == d.swap[i].pending
           completed == d.swap[i].completed
           fabIn == d.swap[i].fabIn
           fabOut == d.swap[i].fabOut
           sent == Sent(d, i)
           back == Back(d, i)
           produced == d.item[i].produced
           Q == Qty[i]
           realloc == ReallocatableProduction(d, i)
           pipe == Pipeline(d, i)
           st == Stages(d, i)
           stP == st.toProduce
           stA == st.awaiting
           stG == st.inGalvanization
           stU == st.undefined
           stR == st.ready
           stD == st.delivered
<1>1. /\ avail \in Nat /\ del \in Nat /\ rem \in Nat /\ given \in Nat /\ received \in Nat
      /\ out \in Nat /\ pending \in Nat /\ completed \in Nat /\ fabIn \in Nat /\ fabOut \in Nat
      /\ sent \in Nat /\ back \in Nat /\ back <= sent /\ Q \in Nat /\ Q > 0
  BY Numbers, LoadSums
<1>2. rem = given /\ Undone(d, i) = 0 /\ (~produced => out = Q \/ (completed = 0 /\ fabIn = 0))
  <2>1. rem = given /\ (~produced => out = Q \/ (completed = 0 /\ fabIn = 0))
    BY DEF Even
  <2>2. Undone(d, i) = rem - given
    BY DEF Undone
  <2> HIDE DEF rem, given
  <2>3. QED BY <1>1, <2>1, <2>2
<1>3. /\ received = out + fabOut /\ given = pending + completed + fabIn
      /\ ~Galvanizes(d, i) => fabIn = 0 /\ fabOut = 0 /\ sent = 0
      /\ ~FlowDefined(d, i) => ~produced /\ given = 0
      /\ del + rem <= avail /\ given <= rem /\ out <= Q + 0
  BY <1>2 DEF Fit, Swapped, Stocked
<1>4. avail = IF Galvanizes(d, i) THEN back + received
              ELSE completed + (IF produced THEN Q + 0 ELSE received)
  <2>1. avail = DerivedAvailable(d, i) /\ DerivedAvailable(d, i) = Supply(d, i)
    BY DerivedIsSupply DEF Open
  <2>2. Supply(d, i) = IF Galvanizes(d, i) THEN back + received
                       ELSE completed + (IF produced THEN Q + 0 ELSE received)
    BY <1>2 DEF Supply
  <2>3. QED BY <2>1, <2>2
<1>5. pipe = Q - out + completed + fabIn - fabOut
  BY DEF Pipeline
<1>6. Galvanizes(d, i) =>
        IF produced THEN sent <= pipe + 0
        ELSE sent + fabOut <= completed + fabIn /\ fabIn <= fabOut + back
  BY <1>2 DEF Fit, Piped
<1>7. /\ stR = avail - del - rem /\ stR \in Nat /\ stD = del
      /\ ~FlowDefined(d, i) => stP = pending /\ stA = 0 /\ stG = 0 /\ stU = AtLeastZero(Q - avail + rem)
                               /\ pending = 0
      /\ FlowDefined(d, i) /\ ~Galvanizes(d, i) => stP = realloc + pending /\ stA = 0 /\ stG = 0 /\ stU = 0
      /\ Galvanizes(d, i) =>
           /\ stP = (IF produced THEN 0 ELSE realloc) + pending
           /\ stA = IF produced THEN pipe - sent ELSE fabIn - fabOut + completed - sent
           /\ stG = sent - back /\ stU = 0
  BY StagesOfFlow
<1>8. realloc \in Nat /\ (~produced \/ avail > 0 => realloc = AtLeastZero(Q + 0 + fabIn - avail))
  <2>1. Missing(d, i) = Q + 0 + fabIn - avail
    BY <1>2 DEF Missing
  <2>2. QED BY <2>1, ReallocatableIsMissing
<1>9. Gap(d, i) = Q - stU - stP - stA - stG - stR - stD
  BY DEF Gap
<1>10. Galvanizes(d, i) => FlowDefined(d, i)
  BY FlowCases
<1>11. (\A n \in StageNames : st[n] \in Nat) <=>
          stP \in Nat /\ stA \in Nat /\ stG \in Nat /\ stU \in Nat /\ stR \in Nat /\ stD \in Nat
  BY DEF StageNames
<1>12. produced \in BOOLEAN
  BY ItemRows
<1> HIDE DEF avail, del, rem, given, received, out, pending, completed, fabIn, fabOut, sent, back,
             produced, Q, realloc, pipe, stP, stA, stG, stU, stR, stD
<1> DEFINE Good == /\ Q - stU - stP - stA - stG - stR - stD = 0
                   /\ stP \in Nat /\ stA \in Nat /\ stG \in Nat /\ stU \in Nat /\ stR \in Nat /\ stD \in Nat
<1>13. ASSUME ~FlowDefined(d, i) PROVE Good
  <2>1. avail = out /\ rem = 0 /\ pending = 0 /\ stP = 0 /\ stA = 0 /\ stG = 0
    BY <1>1, <1>2, <1>3, <1>4, <1>7, <1>10, <1>13
  <2>2. stU = Q - avail
    BY <1>1, <1>3, <1>7, <1>13, <2>1 DEF AtLeastZero
  <2>3. QED BY <1>1, <1>3, <1>7, <2>1, <2>2
<1>14. ASSUME FlowDefined(d, i) /\ ~Galvanizes(d, i) PROVE Good
  <2>1. realloc = AtLeastZero(Q - avail) /\ fabIn = 0 /\ fabOut = 0
    BY <1>1, <1>3, <1>4, <1>8, <1>12, <1>14
  <2>2. Q - realloc - avail + completed = 0
    <3>1. CASE produced
      BY <1>1, <1>4, <1>14, <2>1, <3>1 DEF AtLeastZero
    <3>2. CASE ~produced
      BY <1>1, <1>2, <1>3, <1>4, <1>14, <2>1, <3>2 DEF AtLeastZero
    <3>3. QED BY <1>12, <3>1, <3>2
  <2>3. QED BY <1>1, <1>2, <1>3, <1>7, <1>8, <1>14, <2>1, <2>2
<1>15. ASSUME Galvanizes(d, i) /\ produced PROVE Good
  <2>1. stP = pending /\ stA = pipe - sent /\ stG = sent - back /\ stU = 0
        /\ avail = back + received /\ sent <= pipe
    BY <1>1, <1>4, <1>5, <1>6, <1>7, <1>15
  <2>2. QED BY <1>1, <1>2, <1>3, <1>5, <1>7, <2>1
<1>16. ASSUME Galvanizes(d, i) /\ ~produced PROVE Good
  <2>1. stP = realloc + pending /\ stA = fabIn - fabOut + completed - sent /\ stG = sent - back
        /\ stU = 0 /\ avail = back + received
        /\ sent + fabOut <= completed + fabIn /\ fabIn <= fabOut + back
    BY <1>1, <1>4, <1>6, <1>7, <1>16
  <2>2. realloc = Q - out
    BY <1>1, <1>2, <1>3, <1>8, <1>16, <2>1 DEF AtLeastZero
  <2>3. QED BY <1>1, <1>2, <1>3, <1>7, <1>8, <2>1, <2>2
<1>17. Good
  BY <1>10, <1>12, <1>13, <1>14, <1>15, <1>16
<1>18. QED BY <1>9, <1>11, <1>17

\* After every transaction, hook included, the ledger of an open item raises no
\* anomaly, whatever was exchanged: only pieces returned to production break it.
THEOREM EveryLedgerCloses == Spec => []LedgerCloses
<1>1. ASSUME PieceInv PROVE LedgerCloses
  <2> SUFFICES ASSUME NEW i \in Items \ returned, ~db.item[i].delivered
               PROVE  Anomalies(db, i) = {}
    BY DEF LedgerCloses
  <2> DEFINE e == db.exp[i]
             x == db.swap[i]
             D == DerivedAvailable(db, i)
  <2>1. db \in Database /\ LinksNest(db) /\ Fit(db, i) /\ Even(db, i) /\ Open(db, i)
    BY <1>1 DEF PieceInv, Drafted
  <2>2. Gap(db, i) = 0 /\ \A n \in StageNames : Stages(db, i)[n] \in Nat
    BY <2>1, StagesAddUp
  <2>3. /\ e.avail \in Nat /\ e.del \in Nat /\ e.rem \in Nat
        /\ e.del + e.rem <= e.avail /\ e.avail = D /\ x.given = e.rem
    BY <2>1, Numbers DEF Fit, Stocked, Even, Open
  <2>4. ~(\E n \in StageNames : Stages(db, i)[n] < 0)
    <3>1. \A k \in Nat : ~(k < 0)
      OBVIOUS
    <3>2. QED BY <2>2, <3>1
  <2>5. db.item[i].flow = "NAO" => ~(Sent(db, i) > 0)
    <3>1. db.item[i].flow = "NAO" => Sent(db, i) = 0
      BY <2>1, FlowCases DEF Fit, Swapped
    <3>2. QED BY <3>1
  <2>6. e = NoRow => e.avail = 0 /\ e.del = 0 /\ e.rem = 0
    BY DEF NoRow
  <2> HIDE DEF e, D
  <2>7. MaxOf(D, e.del + e.rem) = e.avail /\ ~(e.del + e.rem > e.avail)
    BY <2>3 DEF MaxOf
  <2>8. ~(e = NoRow /\ MaxOf(D, e.del + e.rem) > 0)
    BY <2>3, <2>6, <2>7
  <2>9. x.given \in {0, e.rem}
    BY <2>3
  <2>10. QED BY <2>2, <2>4, <2>5, <2>7, <2>8, <2>9 DEF Anomalies, e, D
<1> QED
  BY <1>1, PiecesNest, PTL

-----------------------------------------------------------------------------
\* No item is delivered beyond its order, and what an item delivers and gives
\* away has arrived at Expedition or was received in exchanges.
LEMMA DeliveredWasThere ==
  ASSUME NEW i \in Items, db \in Database, LinksNest(db), Fit(db, i)
  PROVE  /\ db.exp[i].del <= Qty[i] /\ Arrived(i) \in Int
         /\ db.exp[i].del + db.swap[i].given <= Arrived(i) + db.swap[i].received
<1> DEFINE avail == db.exp[i].avail
           del == db.exp[i].del
           rem == db.exp[i].rem
           given == db.swap[i].given
           received == db.swap[i].received
           out == db.swap[i].out
           pending == db.swap[i].pending
           completed == db.swap[i].completed
           fabIn == db.swap[i].fabIn
           fabOut == db.swap[i].fabOut
           sent == Sent(db, i)
           back == Back(db, i)
           produced == db.item[i].produced
           Q == Qty[i]
           arrived == Arrived(i)
<1>1. /\ avail \in Nat /\ del \in Nat /\ rem \in Nat /\ given \in Nat /\ received \in Nat
      /\ out \in Nat /\ pending \in Nat /\ completed \in Nat /\ fabIn \in Nat /\ fabOut \in Nat
      /\ sent \in Nat /\ back \in Nat /\ back <= sent /\ Q \in Nat
  BY Numbers, LoadSums
<1>2. /\ received = out + fabOut /\ given = pending + completed + fabIn
      /\ ~Galvanizes(db, i) => fabIn = 0 /\ fabOut = 0
      /\ ~FlowDefined(db, i) => ~produced /\ given = 0
      /\ del + rem <= avail /\ given <= rem
  BY DEF Fit, Swapped, Stocked
<1>3. Undone(db, i) = rem - given
  BY DEF Undone
<1>4. out <= Q + Undone(db, i) /\ avail <= Supply(db, i)
  BY DEF Fit, Stocked
<1>5. Supply(db, i) = IF Galvanizes(db, i) THEN back + received
                      ELSE completed + (IF produced THEN Q + Undone(db, i) ELSE received)
  BY DEF Supply
<1>6. Galvanizes(db, i) =>
        IF produced THEN sent <= Pipeline(db, i) + Undone(db, i)
        ELSE sent + fabOut <= completed + fabIn
  BY DEF Fit, Piped
<1>7. Pipeline(db, i) = Q - out + completed + fabIn - fabOut
  BY DEF Pipeline
<1>8. /\ Galvanizes(db, i) => arrived = back
      /\ FlowDefined(db, i) /\ ~Galvanizes(db, i) => arrived = completed + IF produced THEN Q - out ELSE 0
      /\ ~FlowDefined(db, i) => arrived = 0
  BY FlowCases DEF Arrived
<1>9. produced \in BOOLEAN /\ (Galvanizes(db, i) => FlowDefined(db, i))
  BY ItemRows, FlowCases
<1> HIDE DEF avail, del, rem, given, received, out, pending, completed, fabIn, fabOut, sent, back,
             produced, Q, arrived
<1>10. CASE Galvanizes(db, i)
  <2>1. del + given <= arrived + received /\ arrived \in Int
    BY <1>1, <1>2, <1>4, <1>5, <1>8, <1>10
  <2>2. del <= Q
    <3>1. CASE produced
      BY <1>1, <1>2, <1>3, <1>4, <1>5, <1>6, <1>7, <1>10, <3>1
    <3>2. CASE ~produced
      BY <1>1, <1>2, <1>3, <1>4, <1>5, <1>6, <1>10, <3>2
    <3>3. QED BY <1>9, <3>1, <3>2
  <2>3. QED BY <2>1, <2>2 DEF del, given, arrived, received, Q
<1>11. CASE ~Galvanizes(db, i)
  <2>1. del + given <= arrived + received /\ arrived \in Int
    BY <1>1, <1>2, <1>3, <1>4, <1>5, <1>8, <1>9, <1>11
  <2>2. del <= Q
    BY <1>1, <1>2, <1>3, <1>4, <1>5, <1>9, <1>11
  <2>3. QED BY <2>1, <2>2 DEF del, given, arrived, received, Q
<1>12. QED BY <1>10, <1>11

\* No piece is delivered twice, however often it changed owners in between: what
\* an item received for delivery another gave, so over all items the deliveries
\* stay within what galvanizer and production handed to Expedition.
THEOREM PiecesAreDeliveredOnce == Spec => []DeliveredOnce
<1>1. ASSUME PieceInv PROVE DeliveredOnce
  <2> DEFINE del == [i \in Items |-> db.exp[i].del]
             given == [i \in Items |-> db.swap[i].given]
             arrived == [i \in Items |-> Arrived(i)]
             received == [i \in Items |-> db.swap[i].received]
             left == [i \in Items |-> db.exp[i].del + db.swap[i].given]
             came == [i \in Items |-> Arrived(i) + db.swap[i].received]
             Sum(f) == SumFunctionOnSet(f, Items)
  <2>1. db \in Database /\ LinksNest(db) /\ (\A i \in Items : Fit(db, i)) /\ Given(db) = Received(db)
    BY <1>1 DEF PieceInv, Drafted
  <2>2. \A i \in Items : /\ db.exp[i].del \in Nat /\ db.swap[i].given \in Nat
                         /\ db.swap[i].received \in Nat
    BY <2>1, Numbers
  <2>3. \A i \in Items : /\ db.exp[i].del <= Qty[i] /\ Arrived(i) \in Int
                         /\ db.exp[i].del + db.swap[i].given <= Arrived(i) + db.swap[i].received
    BY <2>1, DeliveredWasThere
  <2>4. IsFiniteSet(Items)
    BY ItemsAssumption
  <2>5. \A i \in Items : del[i] \in Int /\ given[i] \in Int /\ left[i] = del[i] + given[i]
    BY <2>2
  <2>6. \A i \in Items : arrived[i] \in Int /\ received[i] \in Int /\ came[i] = arrived[i] + received[i]
    BY <2>2, <2>3
  <2>7. \A i \in Items : left[i] \in Int /\ came[i] \in Int /\ left[i] <= came[i]
    BY <2>2, <2>3
  <2>8. SumFunction(del) = Sum(del) /\ SumFunction(arrived) = Sum(arrived)
    BY DEF SumFunction
  <2>9. Sum(given) = Sum(received)
    BY <2>1 DEF Given, Received, SumFunction
  <2>10. DeliveredOnce <=> (\A i \in Items : db.exp[i].del <= Qty[i]) /\ SumFunction(del) <= SumFunction(arrived)
    BY DEF DeliveredOnce
  <2> HIDE DEF del, given, arrived, received, left, came
  <2>11. Sum(left) = Sum(del) + Sum(given)
    BY <2>4, <2>5, SumOfSums
  <2>12. Sum(came) = Sum(arrived) + Sum(received)
    BY <2>4, <2>6, SumOfSums
  <2>13. Sum(left) <= Sum(came)
    BY <2>4, <2>7, SumIsMonotone
  <2>14. Sum(del) \in Int /\ Sum(given) \in Int /\ Sum(arrived) \in Int /\ Sum(received) \in Int
    BY <2>4, <2>5, <2>6, SumType
  <2>15. Sum(del) <= Sum(arrived)
    BY <2>9, <2>11, <2>12, <2>13, <2>14
  <2>16. QED BY <2>3, <2>8, <2>10, <2>15
<1> QED
  BY <1>1, PiecesNest, PTL

-----------------------------------------------------------------------------
\* The hook finds nothing to change on an item of an exchange that has had no
\* pieces returned to production: the lines already wrote what it derives.
LEMMA NothingToReconcile ==
  ASSUME NEW d \in Database, LinksNest(d), NEW i \in Items, Fit(d, i), Even(d, i), Open(d, i),
         NEW q, NEW w, NEW e, e \in Database, LinksNest(e), Fit(e, i), Even(e, i),
         TrackedItem(d, q, w, DOMAIN q, e, i),
         Keyed(q, ToOf(DOMAIN q), DOMAIN q, i) \in Nat, Keyed(q, FromOf(DOMAIN q), DOMAIN q, i) \in Nat
  PROVE  ReconciledRow(e, i) = e.exp[i]
<1> DEFINE n == Keyed(q, ToOf(DOMAIN q), DOMAIN q, i)
           m == Keyed(q, FromOf(DOMAIN q), DOMAIN q, i)
           source == ExpeditionSource(e, i)
           avail == e.exp[i].avail
           gone == e.exp[i].del + e.exp[i].rem
<1>1. CASE e.item[i].delivered
  BY <1>1 DEF ReconciledRow, ExpeditionSource
<1>2. CASE ~e.item[i].delivered
  <2>1. /\ e.item[i].flow = d.item[i].flow /\ e.item[i].produced = d.item[i].produced
        /\ e.item[i].delivered = d.item[i].delivered
        /\ avail = d.exp[i].avail + n /\ e.exp[i].rem = d.exp[i].rem + m
        /\ e.swap[i].completed = d.swap[i].completed
        /\ e.swap[i].received = d.swap[i].received + n /\ e.swap[i].given = d.swap[i].given + m
        /\ Back(e, i) = Back(d, i)
    BY DEF TrackedItem
  <2>2. d.exp[i].avail = Supply(d, i)
    BY <1>2, <2>1, DerivedIsSupply DEF Open
  <2>3. /\ d.exp[i].avail \in Nat /\ d.exp[i].rem \in Nat /\ d.swap[i].given \in Nat
        /\ d.swap[i].received \in Nat /\ d.swap[i].completed \in Nat /\ Back(d, i) \in Nat /\ Qty[i] \in Nat
        /\ avail \in Nat /\ gone \in Nat /\ source \in Nat /\ n \in Nat /\ m \in Nat
    BY Numbers, LoadSums, DerivedType
  <2>4. Undone(e, i) = Undone(d, i) /\ Undone(d, i) \in Int
    <3> HIDE DEF n, m, avail, gone, source
    <3>1. QED BY <2>1, <2>3 DEF Undone
  <2>5. Supply(e, i) <= Supply(d, i) + n
    <3>1. Galvanizes(e, i) <=> Galvanizes(d, i)
      BY <2>1 DEF Galvanizes
    <3> HIDE DEF n, m, avail, gone, source
    <3>2. QED BY <2>1, <2>3, <2>4, <3>1 DEF Supply
  <2>6. avail <= Supply(e, i) /\ gone <= avail
    BY DEF Fit, Stocked
  <2>7. source = Supply(e, i)
    BY <1>2, DerivedIsSupply DEF ExpeditionSource
  <2>8. source = avail
    <3> HIDE DEF n, m, avail, gone, source
    <3>1. QED BY <2>1, <2>2, <2>3, <2>5, <2>6, <2>7
  <2>9. MaxOf(source, gone) = avail
    <3> HIDE DEF n, m, avail, gone, source
    <3>1. QED BY <2>3, <2>6, <2>8 DEF MaxOf
  <2>10. [e.exp[i] EXCEPT !.avail = avail] = e.exp[i]
    BY ItemRows DEF ExpeditionItem
  <2>11. QED BY <2>9, <2>10 DEF ReconciledRow
<1>3. QED BY <1>1, <1>2

LEMMA SameStages ==
  ASSUME NEW d, NEW e, NEW i, e.item[i] = d.item[i], e.exp[i] = d.exp[i], e.swap[i] = d.swap[i],
         Sent(e, i) = Sent(d, i), Back(e, i) = Back(d, i)
  PROVE  Stages(e, i) = Stages(d, i)
<1>1. /\ (Galvanizes(e, i) <=> Galvanizes(d, i)) /\ (Unflowed(e, i) <=> Unflowed(d, i))
      /\ Pipeline(e, i) = Pipeline(d, i) /\ ReadyAvailable(e, i) = ReadyAvailable(d, i)
      /\ NativePending(e, i) = NativePending(d, i)
  BY DEF Galvanizes, Unflowed, FlowDefined, Pipeline, ReadyAvailable, NativePending
<1>2. /\ Awaiting(e, i) = Awaiting(d, i) /\ ReallocatableProduction(e, i) = ReallocatableProduction(d, i)
  BY <1>1 DEF Awaiting, ReallocatableProduction
<1>3. ProductionPending(e, i) = ProductionPending(d, i)
  BY <1>2 DEF ProductionPending
<1>4. QED BY <1>1, <1>2, <1>3 DEF Stages

LEMMA StageTypes ==
  ASSUME NEW d \in Database, NEW i \in Items
  PROVE  \A n \in StageNames : Stages(d, i)[n] \in Int
<1>1. /\ Sent(d, i) \in Nat /\ Back(d, i) \in Nat /\ ReadyAvailable(d, i) \in Nat
  BY LoadSums, DerivedType
<1>2. Awaiting(d, i) \in Int /\ ProductionPending(d, i) \in Int /\ ReallocatableProduction(d, i) \in Int
  BY <1>1, Numbers DEF Awaiting, Pipeline, ProductionPending, ReallocatableProduction, NativePending,
                       AtLeastZero
<1>3. /\ Stages(d, i).inGalvanization \in Int /\ Stages(d, i).undefined \in Int
      /\ Stages(d, i).awaiting \in Int /\ Stages(d, i).toProduce \in Int
  <2>1. CASE Unflowed(d, i)
    BY <1>1, <2>1, Numbers DEF Stages, AtLeastZero
  <2>2. CASE ~Unflowed(d, i) /\ Galvanizes(d, i)
    BY <1>1, <1>2, <2>2, Numbers DEF Stages, AtLeastZero
  <2>3. CASE ~Unflowed(d, i) /\ ~Galvanizes(d, i)
    BY <1>1, <1>2, <2>3, Numbers DEF Stages, AtLeastZero
  <2>4. QED BY <2>1, <2>2, <2>3
<1>4. Stages(d, i).ready \in Int /\ Stages(d, i).delivered \in Int
  BY <1>1, Numbers DEF Stages
<1>5. QED BY <1>3, <1>4 DEF StageNames

LEMMA HookKeepsRow ==
  ASSUME NEW d \in Database, NEW b, NEW i \in Items, ReconciledRow(d, i) = d.exp[i]
  PROVE  Reconciled(d, b).exp[i] = d.exp[i]
<1> DEFINE S == ItemsOf({Owner[j] : j \in Changed(d, b)})
           e == EnsureExpeditionItems(d, S)
<1>1. S \in SUBSET Items
  BY ChangedAreReconciled
<1>2. Reconciled(d, b) = e
  BY DEF Reconciled
<1> HIDE DEF S
<1>3. e.exp = [j \in Items |-> IF j \in S THEN ReconciledRow(d, j) ELSE d.exp[j]]
  BY <1>1, HookColumns
<1> HIDE DEF e
<1>4. QED BY <1>2, <1>3

\* The hook keeps the stages of an item whose row it would not change.
LEMMA HookKeepsStages ==
  ASSUME NEW d \in Database, NEW b, NEW i \in Items, ReconciledRow(d, i) = d.exp[i]
  PROVE  Stages(Reconciled(d, b), i) = Stages(d, i)
<1> DEFINE S == ItemsOf({Owner[j] : j \in Changed(d, b)})
           e == EnsureExpeditionItems(d, S)
<1>1. S \in SUBSET Items
  BY ChangedAreReconciled
<1>2. Reconciled(d, b) = e
  BY DEF Reconciled
<1> HIDE DEF S
<1>3. e.item = d.item /\ e.link = d.link /\ e.swap = d.swap
  BY <1>1, HookColumns
<1> HIDE DEF e
<1>4. e.exp[i] = d.exp[i]
  BY <1>2, HookKeepsRow
<1>5. Sent(e, i) = Sent(d, i) /\ Back(e, i) = Back(d, i)
  BY <1>3, LinksDecide
<1>6. Stages(e, i) = Stages(d, i)
  BY <1>3, <1>4, <1>5, SameStages
<1>7. QED BY <1>2, <1>6

-----------------------------------------------------------------------------
\* Over the items of a request, what the lines bring is what they take.
LEMMA TotalStays ==
  ASSUME NEW I, IsFiniteSet(I), NEW x, NEW y, NEW more, NEW less,
         \A i \in I : /\ x[i] \in Int /\ more[i] \in Int /\ less[i] \in Int
                      /\ y[i] = x[i] + (more[i] - less[i]),
         SumFunctionOnSet(more, I) = SumFunctionOnSet(less, I)
  PROVE  SumFunctionOnSet(y, I) = SumFunctionOnSet(x, I)
<1> DEFINE z == [i \in I |-> x[i] + more[i]]
           sx == SumFunctionOnSet(x, I)
           sy == SumFunctionOnSet(y, I)
           sz == SumFunctionOnSet(z, I)
           sm == SumFunctionOnSet(more, I)
           sl == SumFunctionOnSet(less, I)
<1>1. \A i \in I : x[i] \in Int /\ more[i] \in Int /\ z[i] = x[i] + more[i]
  OBVIOUS
<1>2. \A i \in I : y[i] \in Int /\ less[i] \in Int /\ z[i] = y[i] + less[i]
  <2> TAKE i \in I
  <2>1. /\ x[i] \in Int /\ more[i] \in Int /\ less[i] \in Int /\ y[i] = x[i] + (more[i] - less[i])
    OBVIOUS
  <2>2. QED BY <2>1
<1>3. sx \in Int /\ sy \in Int /\ sm \in Int /\ sl \in Int
  BY <1>1, <1>2, SumType
<1> HIDE DEF z
<1>4. sz = sx + sm
  BY <1>1, SumOfSums
<1>5. sz = sy + sl
  BY <1>2, SumOfSums
<1>6. sm = sl
  OBVIOUS
<1>7. QED
  <2> SUFFICES sy = sx
    OBVIOUS
  <2> HIDE DEF sx, sy, sz, sm, sl
  <2>1. QED BY <1>3, <1>4, <1>5, <1>6

LEMMA KeyedAddUp ==
  ASSUME NEW L, IsFiniteSet(L), NEW I, IsFiniteSet(I), NEW f \in [L -> Nat],
         NEW k, \A l \in L : k[l] \in I
  PROVE  SumFunctionOnSet([i \in I |-> Keyed(f, k, L, i)], I) = SumFunctionOnSet(f, L)
<1>1. [i \in I |-> Keyed(f, k, L, i)] = [i \in I |-> SumFunctionOnSet(f, {l \in L : k[l] = i})]
  BY DEF Keyed
<1>2. \A l \in L : f[l] \in Int /\ k[l] \in I
  OBVIOUS
<1>3. QED BY <1>1, <1>2, SumByKey

LEMMA InvolvedItems ==
  ASSUME NEW q, LinesOK(q)
  PROVE  /\ Involved(q) \subseteq Items /\ IsFiniteSet(Involved(q))
         /\ \A l \in DOMAIN q : ToOf(DOMAIN q)[l] \in Involved(q) /\ FromOf(DOMAIN q)[l] \in Involved(q)
<1>1. Involved(q) \subseteq Items
  BY DEF Involved, DestinationsOf, LinesOK
<1>2. QED BY <1>1, ItemsAssumption, FS_Subset DEF Involved, DestinationsOf, ToOf, FromOf

\* The pieces in stage n of the items I.
AtStage(b, n, I) == [i \in I |-> Stages(b, i)[n]]

LEMMA TotalsAreSums ==
  ASSUME NEW b, NEW I
  PROVE  TotalsOf(b, I) =
           <<SumFunctionOnSet(AtStage(b, "ready", I), I), SumFunctionOnSet(AtStage(b, "delivered", I), I),
             SumFunctionOnSet(AtStage(b, "inGalvanization", I), I),
             SumFunctionOnSet(AtStage(b, "awaiting", I), I),
             SumFunctionOnSet(AtStage(b, "toProduce", I), I)
               + SumFunctionOnSet(AtStage(b, "undefined", I), I)>>
<1> DEFINE st == [i \in I |-> Stages(b, i)]
           total(n) == SumFunction([i \in I |-> st[i][n]])
<1>1. TotalsOf(b, I) = <<total("ready"), total("delivered"), total("inGalvanization"),
                         total("awaiting"), total("toProduce") + total("undefined")>>
  BY DEF TotalsOf
<1>2. ASSUME NEW n PROVE total(n) = SumFunctionOnSet(AtStage(b, n, I), I)
  <2>1. [i \in I |-> st[i][n]] = AtStage(b, n, I)
    BY DEF AtStage
  <2>2. DOMAIN AtStage(b, n, I) = I
    BY DEF AtStage
  <2>3. SumFunction(AtStage(b, n, I)) = SumFunctionOnSet(AtStage(b, n, I), I)
    BY <2>2, SumIsOnDomain
  <2>4. QED BY <2>1, <2>3
<1> HIDE DEF total
<1>3. QED BY <1>1, <1>2

\* What a stage gains over the items of a request, and what it loses.
LinesOf(q, f, k) == [i \in Involved(q) |-> Keyed(f, k, DOMAIN q, i)]

LEMMA LinesAddUp ==
  ASSUME NEW q, LinesOK(q), NEW f \in [DOMAIN q -> Nat]
  PROVE  /\ SumFunctionOnSet(LinesOf(q, f, ToOf(DOMAIN q)), Involved(q))
              = SumFunctionOnSet(LinesOf(q, f, FromOf(DOMAIN q)), Involved(q))
         /\ \A i \in Involved(q) : /\ LinesOf(q, f, ToOf(DOMAIN q))[i] = Keyed(f, ToOf(DOMAIN q), DOMAIN q, i)
                                   /\ LinesOf(q, f, FromOf(DOMAIN q))[i] = Keyed(f, FromOf(DOMAIN q), DOMAIN q, i)
                                   /\ Keyed(f, ToOf(DOMAIN q), DOMAIN q, i) \in Nat
                                   /\ Keyed(f, FromOf(DOMAIN q), DOMAIN q, i) \in Nat
<1> DEFINE L == DOMAIN q
           I == Involved(q)
<1>1. IsFiniteSet(L) /\ L \in SUBSET L
  BY DEF LinesOK
<1>2. IsFiniteSet(I) /\ \A l \in L : ToOf(L)[l] \in I /\ FromOf(L)[l] \in I
  BY InvolvedItems
<1>3. LinesOf(q, f, ToOf(L)) = [i \in I |-> Keyed(f, ToOf(L), L, i)]
      /\ LinesOf(q, f, FromOf(L)) = [i \in I |-> Keyed(f, FromOf(L), L, i)]
  BY DEF LinesOf
<1> DEFINE to == ToOf(L)
           from == FromOf(L)
<1>4. (\A l \in L : to[l] \in I) /\ (\A l \in L : from[l] \in I)
  BY <1>2
<1> HIDE DEF L, I, to, from
<1>5. f \in [L -> Nat]
  BY DEF L
<1>6. SumFunctionOnSet([i \in I |-> Keyed(f, to, L, i)], I) = SumFunctionOnSet(f, L)
  BY <1>1, <1>2, <1>4, <1>5, KeyedAddUp
<1>7. SumFunctionOnSet([i \in I |-> Keyed(f, from, L, i)], I) = SumFunctionOnSet(f, L)
  BY <1>1, <1>2, <1>4, <1>5, KeyedAddUp
<1>8. \A i \in I : Keyed(f, to, L, i) \in Nat /\ Keyed(f, from, L, i) \in Nat
  BY <1>1, <1>5, KeyedBasics
<1>9. QED BY <1>3, <1>6, <1>7, <1>8 DEF L, I, to, from

LEMMA OwedAddsUp ==
  ASSUME NEW d, NEW q, LinesOK(q), NEW w, FitSwaps(d, q, w), \A l \in DOMAIN q : SumOf(w[l]) = q[l]
  PROVE  \A i : /\ Keyed(OwedOf(w), ToOf(DOMAIN q), DOMAIN q, i)
                     = Keyed(StageOf(w, "toProduce"), ToOf(DOMAIN q), DOMAIN q, i)
                       + Keyed(StageOf(w, "undefined"), ToOf(DOMAIN q), DOMAIN q, i)
                /\ Keyed(StageOf(w, "toProduce"), ToOf(DOMAIN q), DOMAIN q, i) \in Nat
                /\ Keyed(StageOf(w, "undefined"), ToOf(DOMAIN q), DOMAIN q, i) \in Nat
<1> TAKE i
<1> DEFINE k == ToOf(DOMAIN q)
           in(f) == Keyed(f, k, DOMAIN q, i)
           g == StageOf(w, "inGalvanization")
           a == StageOf(w, "awaiting")
           p == StageOf(w, "toProduce")
           u == StageOf(w, "undefined")
<1>1. /\ in(g) \in Nat /\ in(a) \in Nat /\ in(p) \in Nat /\ in(u) \in Nat
      /\ in(OwedOf(w)) = in(p) + in(u) /\ in(FabricatedOf(w)) = in(g) + in(a)
      /\ in(q) = in(p) + in(u) + in(g) + in(a) /\ in(AtGalvanizerOf(w)) = in(g)
  <2> HIDE DEF k
  <2>1. LinesOK(q) /\ FitSwaps(d, q, w) /\ \A l \in DOMAIN q : SumOf(w[l]) = q[l]
    OBVIOUS
  <2>2. QED BY <2>1, LineSums
<1>2. QED BY <1>1

\* Pieces move between the items of a request, and none appears or disappears.
LEMMA BalancedExchange ==
  ASSUME NEW d \in Database, NEW e, NEW q, LinesOK(q), NEW w, FitSwaps(d, q, w),
         \A l \in DOMAIN q : SumOf(w[l]) = q[l],
         \A i \in Involved(q) : \A n \in StageNames :
           Stages(e, i)[n] = Stages(d, i)[n] + PlannedChange(w, q, i, n)
  PROVE  TotalsOf(e, Involved(q)) = TotalsOf(d, Involved(q))
<1> DEFINE L == DOMAIN q
           I == Involved(q)
           to(f) == LinesOf(q, f, ToOf(L))
           from(f) == LinesOf(q, f, FromOf(L))
           p == StageOf(w, "toProduce")
           u == StageOf(w, "undefined")
           owed == OwedOf(w)
           Total(b, n) == SumFunctionOnSet(AtStage(b, n, I), I)
<1>1. IsFiniteSet(I) /\ I \subseteq Items
  BY InvolvedItems
<1>2. \A i \in I, n \in StageNames : Stages(d, i)[n] \in Int
  BY <1>1, StageTypes
<1>3. \A i \in I, n \in StageNames :
        Stages(e, i)[n] = Stages(d, i)[n] + PlannedChange(w, q, i, n)
  OBVIOUS
<1>4. \A b, n : \A i \in I : AtStage(b, n, I)[i] = Stages(b, i)[n]
  BY DEF AtStage
<1>5. q \in [L -> Nat]
  BY LineFunctions
<1>6. owed \in [L -> Nat]
  BY LineFunctions
<1>7. \A n \in Stage4 : StageOf(w, n) \in [L -> Nat]
  BY LineFunctions
<1>8. \A i \in I :
        /\ PlannedChange(w, q, i, "delivered") = 0
        /\ PlannedChange(w, q, i, "ready") = Keyed(q, ToOf(L), L, i) - Keyed(q, FromOf(L), L, i)
        /\ PlannedChange(w, q, i, "toProduce") = Keyed(owed, FromOf(L), L, i) - Keyed(p, ToOf(L), L, i)
        /\ PlannedChange(w, q, i, "undefined") = 0 - Keyed(u, ToOf(L), L, i)
        /\ \A n \in {"awaiting", "inGalvanization"} :
             PlannedChange(w, q, i, n)
               = Keyed(StageOf(w, n), FromOf(L), L, i) - Keyed(StageOf(w, n), ToOf(L), L, i)
  BY PlannedIsKeyed
<1>9. ASSUME NEW f \in [L -> Nat]
      PROVE  /\ SumFunctionOnSet(to(f), I) = SumFunctionOnSet(from(f), I)
             /\ \A i \in I : /\ to(f)[i] = Keyed(f, ToOf(L), L, i) /\ from(f)[i] = Keyed(f, FromOf(L), L, i)
                             /\ to(f)[i] \in Int /\ from(f)[i] \in Int
  <2>1. f \in [DOMAIN q -> Nat]
    OBVIOUS
  <2>2. /\ SumFunctionOnSet(to(f), I) = SumFunctionOnSet(from(f), I)
        /\ \A i \in I : /\ to(f)[i] = Keyed(f, ToOf(L), L, i) /\ from(f)[i] = Keyed(f, FromOf(L), L, i)
                        /\ Keyed(f, ToOf(L), L, i) \in Nat /\ Keyed(f, FromOf(L), L, i) \in Nat
    BY <2>1, LinesAddUp
  <2> HIDE DEF to, from, L, I
  <2>3. QED BY <2>2
<1>10. \A i \in I : Keyed(owed, ToOf(L), L, i) = Keyed(p, ToOf(L), L, i) + Keyed(u, ToOf(L), L, i)
                    /\ Keyed(p, ToOf(L), L, i) \in Nat /\ Keyed(u, ToOf(L), L, i) \in Nat
  BY OwedAddsUp
<1> HIDE DEF to, from, owed, p, u, I, L
<1>11. Total(e, "delivered") = Total(d, "delivered")
  <2>1. "delivered" \in StageNames
    BY DEF StageNames
  <2>2. \A i \in I : AtStage(e, "delivered", I)[i] = AtStage(d, "delivered", I)[i]
    BY <1>2, <1>3, <1>4, <1>8, <2>1
  <2>3. QED BY <1>1, <2>2, SumCongruence
<1>12. Total(e, "ready") = Total(d, "ready")
  <2> DEFINE x == AtStage(d, "ready", I)
             y == AtStage(e, "ready", I)
             more == to(q)
             less == from(q)
  <2>1. "ready" \in StageNames
    BY DEF StageNames
  <2>2. \A i \in I : /\ x[i] \in Int /\ more[i] \in Int /\ less[i] \in Int
                     /\ y[i] = x[i] + (more[i] - less[i])
    BY <1>2, <1>3, <1>4, <1>5, <1>8, <1>9, <2>1
  <2>3. SumFunctionOnSet(more, I) = SumFunctionOnSet(less, I)
    BY <1>5, <1>9
  <2> HIDE DEF x, y, more, less
  <2>4. SumFunctionOnSet(y, I) = SumFunctionOnSet(x, I)
    BY <1>1, <2>2, <2>3, TotalStays
  <2>5. QED BY <2>4 DEF x, y
<1>13. \A n \in {"awaiting", "inGalvanization"} : Total(e, n) = Total(d, n)
  <2> TAKE n \in {"awaiting", "inGalvanization"}
  <2> DEFINE g == StageOf(w, n)
             x == AtStage(d, n, I)
             y == AtStage(e, n, I)
             more == from(g)
             less == to(g)
  <2>1. n \in StageNames /\ n \in Stage4
    BY DEF StageNames, Stage4
  <2>2. g \in [L -> Nat]
    BY <1>7, <2>1
  <2>3. \A i \in I : PlannedChange(w, q, i, n) = Keyed(g, FromOf(L), L, i) - Keyed(g, ToOf(L), L, i)
    BY <1>8
  <2> HIDE DEF g
  <2>4. \A i \in I : /\ x[i] \in Int /\ more[i] \in Int /\ less[i] \in Int
                     /\ y[i] = x[i] + (more[i] - less[i])
    BY <1>2, <1>3, <1>4, <1>9, <2>1, <2>2, <2>3
  <2>5. SumFunctionOnSet(more, I) = SumFunctionOnSet(less, I)
    BY <1>9, <2>2
  <2> HIDE DEF x, y, more, less
  <2>6. SumFunctionOnSet(y, I) = SumFunctionOnSet(x, I)
    BY <1>1, <2>4, <2>5, TotalStays
  <2>7. QED BY <2>6 DEF x, y
<1>14. Total(e, "toProduce") + Total(e, "undefined") = Total(d, "toProduce") + Total(d, "undefined")
  <2> DEFINE px == AtStage(d, "toProduce", I)
             ux == AtStage(d, "undefined", I)
             py == AtStage(e, "toProduce", I)
             uy == AtStage(e, "undefined", I)
             x == [i \in I |-> px[i] + ux[i]]
             y == [i \in I |-> py[i] + uy[i]]
             more == from(owed)
             less == to(owed)
  <2>1. "toProduce" \in StageNames /\ "undefined" \in StageNames
    BY DEF StageNames
  <2>2. \A i \in I : /\ px[i] \in Int /\ ux[i] \in Int
                     /\ py[i] = px[i] + (Keyed(owed, FromOf(L), L, i) - Keyed(p, ToOf(L), L, i))
                     /\ uy[i] = ux[i] + (0 - Keyed(u, ToOf(L), L, i))
    BY <1>2, <1>3, <1>4, <1>8, <2>1
  <2>3. \A i \in I : /\ more[i] \in Int /\ less[i] \in Int /\ more[i] = Keyed(owed, FromOf(L), L, i)
                     /\ less[i] = Keyed(p, ToOf(L), L, i) + Keyed(u, ToOf(L), L, i)
                     /\ Keyed(p, ToOf(L), L, i) \in Nat /\ Keyed(u, ToOf(L), L, i) \in Nat
    BY <1>6, <1>9, <1>10
  <2>4. SumFunctionOnSet(more, I) = SumFunctionOnSet(less, I)
    BY <1>6, <1>9
  <2>5. \A i \in I : x[i] = px[i] + ux[i] /\ y[i] = py[i] + uy[i]
    OBVIOUS
  <2> HIDE DEF x, y, px, ux, py, uy, more, less
  <2>6. \A i \in I : /\ x[i] \in Int /\ y[i] = x[i] + (more[i] - less[i])
                     /\ py[i] \in Int /\ uy[i] \in Int
    <3> TAKE i \in I
    <3> DEFINE o == Keyed(owed, FromOf(L), L, i)
               a == Keyed(p, ToOf(L), L, i)
               b == Keyed(u, ToOf(L), L, i)
    <3>1. /\ px[i] \in Int /\ ux[i] \in Int /\ py[i] = px[i] + (o - a) /\ uy[i] = ux[i] + (0 - b)
          /\ more[i] \in Int /\ less[i] \in Int /\ more[i] = o /\ less[i] = a + b /\ a \in Nat /\ b \in Nat
          /\ x[i] = px[i] + ux[i] /\ y[i] = py[i] + uy[i]
      BY <2>2, <2>3, <2>5
    <3> HIDE DEF o, a, b
    <3>2. QED BY <3>1
  <2>7. SumFunctionOnSet(y, I) = SumFunctionOnSet(x, I)
    BY <1>1, <2>3, <2>4, <2>6, TotalStays
  <2>8. SumFunctionOnSet(x, I) = SumFunctionOnSet(px, I) + SumFunctionOnSet(ux, I)
    BY <1>1, <2>2, <2>5, SumOfSums
  <2>9. SumFunctionOnSet(y, I) = SumFunctionOnSet(py, I) + SumFunctionOnSet(uy, I)
    BY <1>1, <2>5, <2>6, SumOfSums
  <2>10. QED BY <2>7, <2>8, <2>9 DEF px, ux, py, uy
<1>15. Total(e, "awaiting") = Total(d, "awaiting") /\ Total(e, "inGalvanization") = Total(d, "inGalvanization")
  BY <1>13
<1>16. \A b : TotalsOf(b, I) = <<Total(b, "ready"), Total(b, "delivered"), Total(b, "inGalvanization"),
                                 Total(b, "awaiting"), Total(b, "toProduce") + Total(b, "undefined")>>
  BY TotalsAreSums
<1> HIDE DEF Total
<1>17. TotalsOf(e, I) = TotalsOf(d, I)
  BY <1>11, <1>12, <1>14, <1>15, <1>16
<1>18. QED BY <1>17 DEF I

LEMMA ConfirmedIsBalanced ==
  ASSUME PieceInv, NEW s \in Sessions, LinesOK(request[s].lines), ConfirmRemanagement(s),
         Involved(request[s].lines) \cap returned = {}
  PROVE  TotalsOf(db', Involved(request[s].lines)) = TotalsOf(db, Involved(request[s].lines))
<1> DEFINE q == request[s].lines
           e == Written(db, q)
           w == StageSwaps(db, q)
<1>1. LinesOK(q) /\ Plannable(db, q) /\ Conserves(db, q) /\ Commit(e) /\ Involved(q) \cap returned = {}
  BY DEF ConfirmRemanagement
<1>2. /\ db \in Database /\ LinksNest(db) /\ \A i \in Items : Fit(db, i) /\ Open(db, i)
      /\ \A i \in Items \ returned : Even(db, i)
  BY DEF PieceInv, Drafted
<1>3. db' = Reconciled(e, db)
  BY <1>1, CommitIsReconciled
<1> SUFFICES TotalsOf(db', Involved(q)) = TotalsOf(db, Involved(q))
  OBVIOUS
<1> HIDE DEF q
<1>4. Tracked(db, q, w, DOMAIN q, e)
  BY <1>1, <1>2, WrittenIsTracked
<1>5. FitSwaps(db, q, w) /\ \A l \in DOMAIN q : SumOf(w[l]) = q[l]
  BY <1>1, <1>2, SwapsFit DEF Plannable
<1>6. \A i \in Involved(q) : \A n \in StageNames :
        Stages(e, i)[n] = Stages(db, i)[n] + PlannedChange(w, q, i, n)
  BY <1>1 DEF Conserves
<1>7. \A i \in Items : Fit(e, i) /\ (Even(db, i) => Even(e, i))
  <2> TAKE i \in Items
  <2> DEFINE f == Written(db, q)
  <2>1. f = Written(db, q) /\ Tracked(db, q, StageSwaps(db, q), DOMAIN q, f) /\ Fit(db, i) /\ Open(db, i)
    BY <1>2, <1>4
  <2> HIDE DEF f
  <2>2. /\ Fit(f, i) /\ (Even(db, i) => Even(f, i)) /\ Ready(f, i)
        /\ i \notin Changed(f, db) => Open(f, i)
    BY <1>1, <1>2, <2>1, ItemIsConfirmed
  <2>3. QED BY <2>2 DEF f
<1>8. IsFiniteSet(DOMAIN q) /\ q \in [DOMAIN q -> Nat] /\ DOMAIN q \in SUBSET (DOMAIN q)
  BY <1>1 DEF LinesOK
<1> HIDE DEF e, w
<1>9. \A i \in Involved(q) : Stages(db', i) = Stages(e, i)
  <2> TAKE i \in Involved(q)
  <2>1. i \in Items /\ i \notin returned
    BY <1>1, InvolvedItems
  <2>2. e \in Database /\ LinksNest(e) /\ TrackedItem(db, q, w, DOMAIN q, e, i)
    BY <1>4, <2>1 DEF Tracked
  <2>3. Fit(db, i) /\ Open(db, i) /\ Even(db, i) /\ Fit(e, i) /\ Even(e, i)
    BY <1>2, <1>7, <2>1
  <2>4. Keyed(q, ToOf(DOMAIN q), DOMAIN q, i) \in Nat
    BY <1>8, KeyedBasics
  <2>5. Keyed(q, FromOf(DOMAIN q), DOMAIN q, i) \in Nat
    BY <1>8, KeyedBasics
  <2>6. ReconciledRow(e, i) = e.exp[i]
    BY <1>2, <2>1, <2>2, <2>3, <2>4, <2>5, NothingToReconcile
  <2>7. Stages(Reconciled(e, db), i) = Stages(e, i)
    BY <2>1, <2>2, <2>6, HookKeepsStages
  <2>8. QED BY <1>3, <2>7
<1> DEFINE c == db'
<1>10. \A i \in Involved(q) : \A n \in StageNames :
         Stages(c, i)[n] = Stages(db, i)[n] + PlannedChange(w, q, i, n)
  BY <1>6, <1>9
<1> HIDE DEF c
<1>11. TotalsOf(c, Involved(q)) = TotalsOf(db, Involved(q))
  BY <1>1, <1>2, <1>5, <1>10, BalancedExchange
<1>12. QED BY <1>11 DEF c

LEMMA NothingInvolved == ASSUME NEW b, NEW c PROVE TotalsOf(b, Involved(<<>>)) = TotalsOf(c, Involved(<<>>))
<1>1. Involved(<<>>) = {}
  BY DEF Involved, DestinationsOf
<1>2. \A a : TotalsOf(a, {}) = <<0, 0, 0, 0, 0 + 0>>
  BY TotalsAreSums, SumOfNothing
<1>3. QED BY <1>1, <1>2

LEMMA OnlyConfirmationsApply ==
  ASSUME [Next]_vars, applied' # applied
  PROVE  \E t \in Sessions : ConfirmRemanagement(t)
<1>1. \A i \in Items : ItemStep(i) => applied' = applied
  BY ItemsAndLoadsKeepApplied
<1>2. \A l \in Loads : LoadStep(l) => applied' = applied
  BY ItemsAndLoadsKeepApplied
<1>3. \A q, r, o : LookUp(r, o, q) => applied' = applied
  BY DEF LookUp
<1>4. \A r \in Sessions : Replay(r) \/ RefuseRemanagement(r) => applied' = applied
  BY DEF Replay, RefuseRemanagement
<1>5. QED BY <1>1, <1>2, <1>3, <1>4 DEF Next, vars, RemanagementStep

\* The golden rule of remanagement, hook included, whatever was exchanged before:
\* as long as nothing was returned to production, an exchange moves pieces
\* between owners and never changes how many are in each stage.
THEOREM ExchangesChangeOwnersOnly == Spec => OnlyOwnersChangeOfMadeItems
<1> DEFINE Balanced ==
             \A s \in Sessions :
               Exchange(s) /\ request'[s] = NoRequest /\ Involved(request[s].lines) \cap returned = {} =>
                 TotalsOf(db', Involved(request[s].lines)) = TotalsOf(db, Involved(request[s].lines))
<1>1. ASSUME ExchangeInv, [Next]_vars PROVE Balanced
  <2> SUFFICES ASSUME NEW s \in Sessions, Exchange(s), request'[s] = NoRequest,
                      Involved(request[s].lines) \cap returned = {}
               PROVE  TotalsOf(db', Involved(request[s].lines)) = TotalsOf(db, Involved(request[s].lines))
    OBVIOUS
  <2>1. PieceInv /\ Asked
    BY <1>1 DEF ExchangeInv
  <2>2. applied' # applied
    BY DEF Exchange
  <2>3. PICK t \in Sessions : ConfirmRemanagement(t)
    BY <1>1, <2>2, OnlyConfirmationsApply
  <2>4. request[t] # NoRequest /\ Answer(t)
    BY <2>3 DEF ConfirmRemanagement
  <2>5. LinesOK(request[t].lines)
    BY <2>1, <2>4, RequestsAreLines DEF Asked
  <2>6. CASE s = t
    BY <2>1, <2>3, <2>5, <2>6, ConfirmedIsBalanced
  <2>7. CASE s # t
    <3>1. request[s] = NoRequest
      BY <2>1, <2>4, <2>7 DEF Answer, Asked
    <3>2. request[s].lines = <<>>
      BY <3>1 DEF NoRequest
    <3>3. QED BY <3>2, NothingInvolved
  <2>8. QED BY <2>6, <2>7
<1>2. OnlyOwnersChangeOfMadeItems <=> [][Balanced]_vars
  BY DEF OnlyOwnersChangeOfMadeItems
<1> HIDE DEF Balanced
<1> QED
  BY <1>1, <1>2, ExchangeInvInit, ExchangeInvStep, PTL DEF Spec

LEMMA ConfirmedCanLeave ==
  ASSUME PieceInv, NEW s \in Sessions, LinesOK(request[s].lines), ConfirmRemanagement(s),
         NEW y \in DestinationsOf(request[s].lines) \ returned
  PROVE  Active(db', y)
<1> DEFINE q == request[s].lines
           e == Written(db, q)
           w == StageSwaps(db, q)
           L == DOMAIN q
           in(f) == Keyed(f, ToOf(L), L, y)
           out(f) == Keyed(f, FromOf(L), L, y)
<1>1. LinesOK(q) /\ Plannable(db, q) /\ Conserves(db, q) /\ Commit(e)
      /\ y \in DestinationsOf(q) /\ y \notin returned
  BY DEF ConfirmRemanagement
<1>2. /\ db \in Database /\ LinksNest(db) /\ \A i \in Items : Fit(db, i) /\ Open(db, i)
      /\ \A i \in Items \ returned : Even(db, i)
  BY DEF PieceInv, Drafted
<1>3. db' = Reconciled(e, db)
  BY <1>1, CommitIsReconciled
<1> HIDE DEF q
<1>4. Tracked(db, q, w, L, e) /\ Opened(L, e)
  BY <1>1, <1>2, WrittenIsTracked
<1>5. PICK l \in L : l[1] = y
  BY <1>1 DEF DestinationsOf
<1>6. /\ y \in Items /\ Fit(db, y) /\ Open(db, y) /\ Even(db, y) /\ IsFiniteSet(L) /\ q \in [L -> Nat]
      /\ q[l] > 0 /\ q[l] \in Nat /\ L \in SUBSET L /\ \A m \in L : m[2] # y
  BY <1>1, <1>2, <1>5 DEF LinesOK
<1>7. e \in Database /\ LinksNest(e) /\ TrackedItem(db, q, w, L, e, y)
  BY <1>4, <1>6 DEF Tracked
<1>8. in(q) \in Nat /\ in(q) > 0
  <2>1. in(q) \in Nat /\ \A m \in L : ToOf(L)[m] = y => q[m] <= in(q)
    BY <1>6, KeyedBasics
  <2>2. ToOf(L)[l] = y
    BY <1>5 DEF ToOf
  <2> HIDE DEF in
  <2>3. QED BY <1>5, <1>6, <2>1, <2>2
<1>9. out(q) \in Nat /\ out(q) = 0
  <2>1. \A m \in L : FromOf(L)[m] # y
    BY <1>6 DEF FromOf
  <2>2. QED BY <1>6, <2>1, KeyedBasics
<1>10. Fit(e, y) /\ Even(e, y)
  <2> DEFINE f == Written(db, q)
  <2>1. f = Written(db, q) /\ Tracked(db, q, StageSwaps(db, q), DOMAIN q, f)
    BY <1>4
  <2> HIDE DEF f
  <2>2. Fit(f, y) /\ (Even(db, y) => Even(f, y))
    BY <1>1, <1>2, <1>6, <2>1, ItemIsConfirmed
  <2>3. QED BY <1>6, <2>2 DEF f
<1> HIDE DEF e, w
<1>11. ReconciledRow(e, y) = e.exp[y]
  <2>1. Keyed(q, ToOf(DOMAIN q), DOMAIN q, y) \in Nat /\ Keyed(q, FromOf(DOMAIN q), DOMAIN q, y) \in Nat
    BY <1>8, <1>9
  <2> HIDE DEF in, out
  <2>2. QED BY <1>2, <1>6, <1>7, <1>10, <2>1, NothingToReconcile
<1>12. Reconciled(e, db).exp[y] = e.exp[y]
  BY <1>6, <1>7, <1>11, HookKeepsRow
<1>13. ~e.exp[y].closed
  BY <1>4, <1>5 DEF Opened
<1>14. /\ e.exp[y].avail = db.exp[y].avail + in(q) /\ e.exp[y].rem = db.exp[y].rem + out(q)
       /\ e.exp[y].del = db.exp[y].del
  BY <1>7 DEF TrackedItem
<1>15. db.exp[y].del + db.exp[y].rem <= db.exp[y].avail
  BY <1>6 DEF Fit, Stocked
<1>16. /\ db.exp[y].avail \in Nat /\ db.exp[y].rem \in Nat /\ db.exp[y].del \in Nat
       /\ e.exp[y].avail \in Nat /\ e.exp[y].rem \in Nat /\ e.exp[y].del \in Nat
  BY <1>2, <1>6, <1>7, Numbers
<1>17. Outstanding(e.exp[y]) > 0
  <2>1. \A a, b, c \in Nat : \A m \in Nat : m > 0 /\ b + c <= a => a + m - b - c > 0
    OBVIOUS
  <2> DEFINE a == db.exp[y].avail
             b == db.exp[y].del
             c == db.exp[y].rem
             m == in(q)
  <2>2. e.exp[y].avail = a + m /\ e.exp[y].del = b /\ e.exp[y].rem = c
        /\ a \in Nat /\ b \in Nat /\ c \in Nat /\ m \in Nat /\ m > 0 /\ b + c <= a
    BY <1>8, <1>9, <1>14, <1>15, <1>16
  <2> HIDE DEF a, b, c, m
  <2>3. Outstanding(e.exp[y]) = a + m - b - c
    BY <2>2 DEF Outstanding
  <2>4. QED BY <2>1, <2>2, <2>3
<1>18. QED BY <1>3, <1>12, <1>13, <1>17 DEF Active

\* What an exchange hands to an item is in the queue of Expedition when it is
\* committed, also where the item had been delivered whole before and its row was
\* closed, as long as none of its own pieces were returned to production.
THEOREM ReceivedPiecesCanLeave == Spec => ReceivedCanLeave
<1> DEFINE Queued ==
             \A s \in Sessions :
               Exchange(s) /\ request'[s] = NoRequest =>
                 \A y \in DestinationsOf(request[s].lines) \ returned : Active(db', y)
<1>1. ASSUME ExchangeInv, [Next]_vars PROVE Queued
  <2> SUFFICES ASSUME NEW s \in Sessions, Exchange(s), request'[s] = NoRequest,
                      NEW y \in DestinationsOf(request[s].lines) \ returned
               PROVE  Active(db', y)
    OBVIOUS
  <2>1. PieceInv /\ Asked
    BY <1>1 DEF ExchangeInv
  <2>2. PICK t \in Sessions : ConfirmRemanagement(t)
    BY <1>1, OnlyConfirmationsApply DEF Exchange
  <2>3. request[t] # NoRequest /\ Answer(t)
    BY <2>2 DEF ConfirmRemanagement
  <2>4. LinesOK(request[t].lines)
    BY <2>1, <2>3, RequestsAreLines DEF Asked
  <2>5. CASE s = t
    BY <2>1, <2>2, <2>4, <2>5, ConfirmedCanLeave
  <2>6. CASE s # t
    <3>1. request[s] = NoRequest
      BY <2>1, <2>3, <2>6 DEF Answer, Asked
    <3>2. request[s].lines = <<>>
      BY <3>1 DEF NoRequest
    <3>3. DestinationsOf(<<>>) = {}
      BY DEF DestinationsOf
    <3>4. QED BY <3>2, <3>3
  <2>7. QED BY <2>5, <2>6
<1>2. ReceivedCanLeave <=> [][Queued]_vars
  BY DEF ReceivedCanLeave
<1> HIDE DEF Queued
<1> QED
  BY <1>1, <1>2, ExchangeInvInit, ExchangeInvStep, PTL DEF Spec

-----------------------------------------------------------------------------
\* What the verification compares, for an honest plan: a destination loses from
\* each stage what the lines take of it, and has the ready pieces instead.
LEMMA DestinationBalances ==
  ASSUME NEW d \in Database, LinksNest(d), NEW e \in Database, LinksNest(e), NEW i \in Items,
         Fit(d, i), Open(d, i), Even(d, i),
         NEW n \in Nat, NEW g \in Nat, NEW a \in Nat, NEW p \in Nat, NEW u \in Nat,
         n = p + u + g + a, n > 0,
         g <= Capacity(d, i).inGalvanization, a <= Capacity(d, i).awaiting,
         p <= Capacity(d, i).toProduce, u <= Capacity(d, i).undefined,
         Receives(d, e, i, n, p + u, g + a, g)
  PROVE  /\ Stages(e, i).ready = Stages(d, i).ready + n
         /\ Stages(e, i).delivered = Stages(d, i).delivered
         /\ Stages(e, i).toProduce = Stages(d, i).toProduce - p
         /\ Stages(e, i).undefined = Stages(d, i).undefined - u
         /\ Stages(e, i).awaiting = Stages(d, i).awaiting - a
         /\ Stages(e, i).inGalvanization = Stages(d, i).inGalvanization - g
<1> DEFINE avail == d.exp[i].avail
           del == d.exp[i].del
           rem == d.exp[i].rem
           given == d.swap[i].given
           received == d.swap[i].received
           out == d.swap[i].out
           pending == d.swap[i].pending
           completed == d.swap[i].completed
           fabIn == d.swap[i].fabIn
           fabOut == d.swap[i].fabOut
           sent == Sent(d, i)
           back == Back(d, i)
           produced == d.item[i].produced
           Q == Qty[i]
           realloc == ReallocatableProduction(d, i)
           after == ReallocatableProduction(e, i)
           is == Stages(e, i)
           was == Stages(d, i)
<1>0. Fit(e, i) /\ Even(e, i)
  BY DestinationKeeps
<1>1. /\ avail \in Nat /\ del \in Nat /\ rem \in Nat /\ given \in Nat /\ received \in Nat
      /\ out \in Nat /\ pending \in Nat /\ completed \in Nat /\ fabIn \in Nat /\ fabOut \in Nat
      /\ sent \in Nat /\ back \in Nat /\ back <= sent /\ Q \in Nat /\ Q > 0
  BY Numbers, LoadSums
<1>2. /\ e.exp[i].avail = avail + n /\ e.exp[i].del = del /\ e.exp[i].rem = rem
      /\ e.swap[i].received = received + n /\ e.swap[i].out = out + (p + u)
      /\ e.swap[i].fabOut = fabOut + (g + a) /\ e.swap[i].given = given
      /\ e.swap[i].pending = pending /\ e.swap[i].completed = completed /\ e.swap[i].fabIn = fabIn
      /\ Sent(e, i) = sent - g /\ Back(e, i) = back
      /\ e.item[i].flow = d.item[i].flow /\ e.item[i].produced = produced
  BY DEF Receives
<1>3. (Galvanizes(e, i) <=> Galvanizes(d, i)) /\ (FlowDefined(e, i) <=> FlowDefined(d, i))
  BY <1>2 DEF Galvanizes, FlowDefined
<1>4. rem = given /\ Undone(d, i) = 0 /\ Undone(e, i) = 0
      /\ (~produced => out = Q \/ (completed = 0 /\ fabIn = 0))
  <2>1. rem = given /\ (~produced => out = Q \/ (completed = 0 /\ fabIn = 0))
    BY DEF Even
  <2>2. Undone(d, i) = rem - given /\ Undone(e, i) = rem - given
    BY <1>2 DEF Undone
  <2> HIDE DEF rem, given
  <2>3. QED BY <1>1, <2>1, <2>2
<1>5. /\ received = out + fabOut /\ given = pending + completed + fabIn
      /\ ~Galvanizes(d, i) => fabIn = 0 /\ fabOut = 0
      /\ ~FlowDefined(d, i) => ~produced /\ given = 0
      /\ del + rem <= avail /\ out <= Q + 0
      /\ ~(Galvanizes(d, i) /\ produced) => out + fabIn <= avail
  BY <1>4 DEF Fit, Swapped, Stocked
<1>6. Pipeline(d, i) = Q - out + completed + fabIn - fabOut
      /\ Pipeline(e, i) = Q - (out + (p + u)) + completed + fabIn - (fabOut + (g + a))
  BY <1>2 DEF Pipeline
<1>7. Galvanizes(d, i) /\ ~produced => sent + fabOut <= completed + fabIn /\ fabIn <= fabOut + back
  BY DEF Fit, Piped
<1>8. /\ ~FlowDefined(d, i) => g = 0 /\ a = 0 /\ p = 0 /\ u <= AtLeastZero(Q - avail + rem)
      /\ FlowDefined(d, i) /\ ~Galvanizes(d, i) => g = 0 /\ a = 0 /\ u = 0 /\ p <= realloc
      /\ Galvanizes(d, i) =>
           /\ u = 0 /\ g <= AtLeastZero(sent - back)
           /\ produced => p = 0 /\ a <= AtLeastZero(Pipeline(d, i) - sent)
           /\ ~produced => p <= realloc /\ a <= AtLeastZero(fabIn - fabOut + completed - sent)
  <2> DEFINE c == Capacity(d, i)
  <2>1. /\ ~FlowDefined(d, i) => /\ c.inGalvanization = 0 /\ c.awaiting = 0 /\ c.toProduce = 0
                                 /\ c.undefined = AtLeastZero(Q - avail + rem)
        /\ FlowDefined(d, i) /\ ~Galvanizes(d, i) =>
             /\ c.inGalvanization = 0 /\ c.awaiting = 0 /\ c.undefined = 0 /\ c.toProduce = realloc
        /\ Galvanizes(d, i) =>
             /\ c.undefined = 0 /\ c.inGalvanization = AtLeastZero(sent - back)
             /\ produced => c.toProduce = 0 /\ c.awaiting = AtLeastZero(Pipeline(d, i) - sent)
             /\ ~produced => /\ c.toProduce = realloc
                             /\ c.awaiting = AtLeastZero(fabIn - fabOut + completed - sent)
    BY CapacityOfFlow
  <2>2. \A k \in Nat : k <= 0 => k = 0
    OBVIOUS
  <2>3. g <= c.inGalvanization /\ a <= c.awaiting /\ p <= c.toProduce /\ u <= c.undefined
    OBVIOUS
  <2> HIDE DEF c, avail, rem, sent, back, produced, Q, realloc, fabIn, fabOut, completed
  <2>4. QED BY <2>1, <2>2, <2>3
<1>9. /\ realloc \in Nat /\ after \in Nat
      /\ ~produced \/ avail > 0 => realloc = AtLeastZero(Q + 0 + fabIn - avail)
      /\ after = AtLeastZero(Q + 0 + fabIn - (avail + n))
  <2>1. Missing(d, i) = Q + 0 + fabIn - avail /\ Missing(e, i) = Q + 0 + fabIn - (avail + n)
    BY <1>2, <1>4 DEF Missing
  <2>2. e.exp[i].avail > 0
    BY <1>1, <1>2
  <2>3. QED BY <1>0, <2>1, <2>2, ReallocatableIsMissing
<1>10. produced /\ avail = 0 => realloc = 0
  <2> SUFFICES ASSUME produced, avail = 0 PROVE realloc = 0
    OBVIOUS
  <2>1. rem = 0
    <3>1. del + rem <= avail /\ avail = 0
      BY <1>5
    <3> HIDE DEF rem, del, avail
    <3>2. QED BY <1>1, <3>1
  <2>2. NativePending(d, i) = 0
    BY <1>1, <2>1 DEF NativePending
  <2>3. realloc = AtLeastZero(0 - out)
    BY <2>2 DEF ReallocatableProduction
  <2>4. QED BY <1>1, <2>3 DEF AtLeastZero
<1>11. /\ was.ready = avail - del - rem /\ was.delivered = del
       /\ ~FlowDefined(d, i) => /\ was.toProduce = pending /\ was.awaiting = 0 /\ was.inGalvanization = 0
                                /\ was.undefined = AtLeastZero(Q - avail + rem)
       /\ FlowDefined(d, i) /\ ~Galvanizes(d, i) =>
            was.toProduce = realloc + pending /\ was.awaiting = 0 /\ was.inGalvanization = 0 /\ was.undefined = 0
       /\ Galvanizes(d, i) =>
            /\ was.toProduce = (IF produced THEN 0 ELSE realloc) + pending
            /\ was.awaiting = IF produced THEN Pipeline(d, i) - sent ELSE fabIn - fabOut + completed - sent
            /\ was.inGalvanization = sent - back /\ was.undefined = 0
  BY StagesOfFlow
<1>12. /\ is.ready = (avail + n) - del - rem /\ is.delivered = del
       /\ ~FlowDefined(d, i) => /\ is.toProduce = pending /\ is.awaiting = 0 /\ is.inGalvanization = 0
                                /\ is.undefined = AtLeastZero(Q - (avail + n) + rem)
       /\ FlowDefined(d, i) /\ ~Galvanizes(d, i) =>
            is.toProduce = after + pending /\ is.awaiting = 0 /\ is.inGalvanization = 0 /\ is.undefined = 0
       /\ Galvanizes(d, i) =>
            /\ is.toProduce = (IF produced THEN 0 ELSE after) + pending
            /\ is.awaiting = IF produced THEN Pipeline(e, i) - (sent - g)
                             ELSE fabIn - (fabOut + (g + a)) + completed - (sent - g)
            /\ is.inGalvanization = sent - g - back /\ is.undefined = 0
  <2>1. /\ is.ready = e.exp[i].avail - e.exp[i].del - e.exp[i].rem /\ is.delivered = e.exp[i].del
        /\ ~FlowDefined(e, i) => /\ is.toProduce = e.swap[i].pending /\ is.awaiting = 0
                                 /\ is.inGalvanization = 0
                                 /\ is.undefined = AtLeastZero(Q - e.exp[i].avail + e.exp[i].rem)
        /\ FlowDefined(e, i) /\ ~Galvanizes(e, i) =>
             /\ is.toProduce = after + e.swap[i].pending /\ is.awaiting = 0
             /\ is.inGalvanization = 0 /\ is.undefined = 0
        /\ Galvanizes(e, i) =>
             /\ is.toProduce = (IF e.item[i].produced THEN 0 ELSE after) + e.swap[i].pending
             /\ is.awaiting = IF e.item[i].produced THEN Pipeline(e, i) - Sent(e, i)
                              ELSE e.swap[i].fabIn - e.swap[i].fabOut + e.swap[i].completed - Sent(e, i)
             /\ is.inGalvanization = Sent(e, i) - Back(e, i) /\ is.undefined = 0
    BY <1>0, StagesOfFlow
  <2> HIDE DEF is, after
  <2>2. QED BY <1>2, <1>3, <2>1
<1>13. produced \in BOOLEAN /\ (Galvanizes(d, i) => FlowDefined(d, i))
  BY ItemRows, FlowCases
<1> DEFINE isR == is.ready
           isD == is.delivered
           isP == is.toProduce
           isU == is.undefined
           isA == is.awaiting
           isG == is.inGalvanization
           wasR == was.ready
           wasD == was.delivered
           wasP == was.toProduce
           wasU == was.undefined
           wasA == was.awaiting
           wasG == was.inGalvanization
<1> SUFFICES /\ isR = wasR + n /\ isD = wasD /\ isP = wasP - p /\ isU = wasU - u
             /\ isA = wasA - a /\ isG = wasG - g
  OBVIOUS
<1> HIDE DEF is, was
<1> HIDE DEF avail, del, rem, given, received, out, pending, completed, fabIn, fabOut, sent, back,
             produced, Q, realloc, after
<1>14. isR = wasR + n /\ isD = wasD
  BY <1>1, <1>11, <1>12
<1>15. CASE ~FlowDefined(d, i)
  <2>1. wasU = AtLeastZero(Q - avail + rem) /\ isU = AtLeastZero(Q - (avail + n) + rem) /\ n = u
        /\ u <= AtLeastZero(Q - avail + rem) /\ g = 0 /\ a = 0 /\ p = 0
        /\ isP = pending /\ wasP = pending /\ isA = 0 /\ wasA = 0 /\ isG = 0 /\ wasG = 0
    BY <1>8, <1>11, <1>12, <1>15
  <2>2. isU = wasU - u
    <3> HIDE DEF isU, wasU
    <3>1. QED BY <1>1, <2>1 DEF AtLeastZero
  <2> HIDE DEF isR, isD, isP, isU, isA, isG, wasR, wasD, wasP, wasU, wasA, wasG
  <2>3. QED BY <1>1, <1>14, <2>1, <2>2
<1>16. CASE FlowDefined(d, i) /\ ~Galvanizes(d, i)
  <2>1. /\ isP = after + pending /\ wasP = realloc + pending /\ isA = 0 /\ wasA = 0 /\ isG = 0 /\ wasG = 0
        /\ isU = 0 /\ wasU = 0 /\ g = 0 /\ a = 0 /\ u = 0 /\ n = p /\ p <= realloc
    BY <1>8, <1>11, <1>12, <1>16
  <2>2. avail > 0 \/ ~produced
    BY <1>1, <1>9, <1>10, <1>13, <2>1
  <2>3. after = realloc - p
    BY <1>1, <1>9, <2>1, <2>2 DEF AtLeastZero
  <2> HIDE DEF isR, isD, isP, isU, isA, isG, wasR, wasD, wasP, wasU, wasA, wasG
  <2>4. QED BY <1>1, <1>9, <1>14, <2>1, <2>3
<1>17. CASE Galvanizes(d, i) /\ produced
  <2>1. /\ isP = 0 + pending /\ wasP = 0 + pending /\ isU = 0 /\ wasU = 0
        /\ isA = Pipeline(e, i) - (sent - g) /\ wasA = Pipeline(d, i) - sent
        /\ isG = sent - g - back /\ wasG = sent - back /\ u = 0 /\ p = 0
    BY <1>8, <1>11, <1>12, <1>17
  <2> HIDE DEF isR, isD, isP, isU, isA, isG, wasR, wasD, wasP, wasU, wasA, wasG
  <2>2. QED BY <1>1, <1>6, <1>14, <2>1
<1>18. CASE Galvanizes(d, i) /\ ~produced
  <2>1. /\ isP = after + pending /\ wasP = realloc + pending /\ isU = 0 /\ wasU = 0
        /\ isA = fabIn - (fabOut + (g + a)) + completed - (sent - g)
        /\ wasA = fabIn - fabOut + completed - sent
        /\ isG = sent - g - back /\ wasG = sent - back /\ u = 0 /\ p <= realloc
        /\ a <= AtLeastZero(fabIn - fabOut + completed - sent) /\ g <= AtLeastZero(sent - back)
        /\ out + fabIn <= avail
    BY <1>5, <1>8, <1>11, <1>12, <1>18
  <2>2. after = realloc - p
    <3>1. CASE out = Q
      <4>1. realloc = 0
        BY <1>1, <1>9, <1>18, <2>1, <3>1 DEF AtLeastZero
      <4>2. after = 0
        BY <1>1, <1>9, <2>1, <3>1 DEF AtLeastZero
      <4>3. QED BY <2>1, <4>1, <4>2
    <3>2. CASE completed = 0 /\ fabIn = 0
      <4>1. sent = 0 /\ fabOut = 0
        BY <1>1, <1>7, <1>18, <3>2
      <4>2. a = 0 /\ g = 0
        BY <1>1, <2>1, <3>2, <4>1 DEF AtLeastZero
      <4>3. QED BY <1>1, <1>9, <1>18, <2>1, <4>2 DEF AtLeastZero
    <3>3. QED BY <1>4, <1>18, <3>1, <3>2
  <2> HIDE DEF isR, isD, isP, isU, isA, isG, wasR, wasD, wasP, wasU, wasA, wasG
  <2>3. QED BY <1>1, <1>9, <1>14, <2>1, <2>2
<1>19. QED BY <1>13, <1>15, <1>16, <1>17, <1>18

\* A source has the pieces of the destination in the stages they were in, and
\* the ready ones no more; f of them are fabricated, g of those at the galvanizer.
LEMMA SourceBalances ==
  ASSUME NEW d \in Database, LinksNest(d), NEW e \in Database, LinksNest(e), NEW i \in Items,
         Fit(d, i), Open(d, i), FlowDefined(d, i),
         NEW n \in Nat, NEW o \in Nat, NEW f \in Nat, NEW g \in Nat,
         n = o + f, g <= f, n > 0, n <= ReadyAvailable(d, i),
         f > 0 => Galvanizes(d, i) /\ d.item[i].produced,
         Gives(d, e, i, n, o, f, g)
  PROVE  /\ Stages(e, i).ready = Stages(d, i).ready - n
         /\ Stages(e, i).delivered = Stages(d, i).delivered
         /\ Stages(e, i).toProduce = Stages(d, i).toProduce + o
         /\ Stages(e, i).undefined = Stages(d, i).undefined
         /\ Stages(e, i).awaiting = Stages(d, i).awaiting + (f - g)
         /\ Stages(e, i).inGalvanization = Stages(d, i).inGalvanization + g
<1> DEFINE avail == d.exp[i].avail
           del == d.exp[i].del
           rem == d.exp[i].rem
           out == d.swap[i].out
           pending == d.swap[i].pending
           completed == d.swap[i].completed
           fabIn == d.swap[i].fabIn
           fabOut == d.swap[i].fabOut
           sent == Sent(d, i)
           back == Back(d, i)
           produced == d.item[i].produced
           Q == Qty[i]
           realloc == ReallocatableProduction(d, i)
           after == ReallocatableProduction(e, i)
           is == Stages(e, i)
           was == Stages(d, i)
<1>1. /\ avail \in Nat /\ del \in Nat /\ rem \in Nat
      /\ out \in Nat /\ pending \in Nat /\ completed \in Nat /\ fabIn \in Nat /\ fabOut \in Nat
      /\ sent \in Nat /\ back \in Nat /\ back <= sent /\ Q \in Nat /\ Q > 0
  BY Numbers, LoadSums
<1>2. /\ e.exp[i].avail = avail /\ e.exp[i].del = del /\ e.exp[i].rem = rem + n
      /\ e.swap[i].out = out /\ e.swap[i].fabOut = fabOut /\ e.swap[i].fabIn = fabIn + f
      /\ e.swap[i].pending = pending + o /\ e.swap[i].completed = completed
      /\ Sent(e, i) = sent + g /\ Back(e, i) = back
      /\ e.item[i].flow = d.item[i].flow /\ e.item[i].produced = produced
  BY DEF Gives
<1>3. (Galvanizes(e, i) <=> Galvanizes(d, i)) /\ (FlowDefined(e, i) <=> FlowDefined(d, i))
  BY <1>2 DEF Galvanizes, FlowDefined
<1>4. produced \in BOOLEAN /\ realloc \in Nat /\ (f > 0 => produced)
  BY ItemRows, ReallocatableIsMissing
<1>5. Pipeline(d, i) = Q - out + completed + fabIn - fabOut
      /\ Pipeline(e, i) = Q - out + completed + (fabIn + f) - fabOut
  BY <1>2 DEF Pipeline
<1>6. del + rem <= avail /\ ReadyAvailable(d, i) = AtLeastZero(avail - del - rem)
      /\ ReadyAvailable(e, i) = AtLeastZero(avail - del - (rem + n))
  BY <1>2 DEF Fit, Stocked, ReadyAvailable
<1>7. /\ was.ready = avail - del - rem /\ was.delivered = del
      /\ ~Galvanizes(d, i) =>
           was.toProduce = realloc + pending /\ was.awaiting = 0 /\ was.inGalvanization = 0 /\ was.undefined = 0
      /\ Galvanizes(d, i) =>
           /\ was.toProduce = (IF produced THEN 0 ELSE realloc) + pending
           /\ was.awaiting = IF produced THEN Pipeline(d, i) - sent ELSE fabIn - fabOut + completed - sent
           /\ was.inGalvanization = sent - back /\ was.undefined = 0
  BY StagesOfFlow
<1>8. NativePending(d, i) = (IF avail > 0 \/ rem > 0 THEN AtLeastZero(Q - avail + rem + out - pending - completed)
                             ELSE IF produced THEN 0 ELSE Q)
      /\ NativePending(e, i) = (IF avail > 0 \/ rem + n > 0
                                THEN AtLeastZero(Q - avail + (rem + n) + out - (pending + o) - completed)
                                ELSE IF produced THEN 0 ELSE Q)
  BY <1>2 DEF NativePending
<1>9. realloc = AtLeastZero(NativePending(d, i) - out) /\ after = AtLeastZero(NativePending(e, i) - out)
  BY <1>2 DEF ReallocatableProduction
<1>10. /\ is.ready = ReadyAvailable(e, i)
       /\ is.toProduce = (IF Galvanizes(d, i) /\ produced THEN 0 ELSE after) + (pending + o)
  <2>1. ~Unflowed(e, i)
    BY <1>3 DEF Unflowed
  <2>2. /\ is.ready = ReadyAvailable(e, i)
        /\ Galvanizes(e, i) => is.toProduce = (IF e.item[i].produced THEN 0 ELSE after) + e.swap[i].pending
        /\ ~Galvanizes(e, i) => is.toProduce = ProductionPending(e, i)
    BY <2>1 DEF Stages
  <2>3. ProductionPending(e, i) = after + e.swap[i].pending
    BY DEF ProductionPending
  <2>4. CASE Galvanizes(d, i)
    BY <1>2, <1>3, <2>2, <2>4
  <2>5. CASE ~Galvanizes(d, i)
    BY <1>2, <1>3, <2>2, <2>3, <2>5
  <2>6. QED BY <2>4, <2>5
<1>11. ReadyAvailable(e, i) = ReadyAvailable(d, i) - n /\ ReadyAvailable(d, i) = avail - del - rem
       /\ avail > 0
  <2> DEFINE r == ReadyAvailable(d, i)
             s == ReadyAvailable(e, i)
  <2>1. r = AtLeastZero(avail - del - rem) /\ s = AtLeastZero(avail - del - (rem + n)) /\ n <= r
    BY <1>6
  <2> HIDE DEF r, s, avail, del, rem
  <2>2. r = avail - del - rem
    BY <1>1, <1>6, <2>1 DEF AtLeastZero
  <2>3. s = r - n /\ avail > 0
    BY <1>1, <2>1, <2>2 DEF AtLeastZero
  <2>4. QED BY <2>2, <2>3 DEF r, s
<1>12. f = 0 => after = realloc
  <2> SUFFICES ASSUME f = 0 PROVE after = realloc
    OBVIOUS
  <2> HIDE DEF avail, rem, out, pending, completed, Q, produced, realloc, after
  <2>1. Q - avail + (rem + n) + out - (pending + o) - completed = Q - avail + rem + out - pending - completed
    BY <1>1
  <2>2. NativePending(e, i) = NativePending(d, i)
    BY <1>1, <1>8, <1>11, <2>1
  <2>3. QED BY <1>9, <2>2
<1>13. f = 0 \/ (Galvanizes(d, i) /\ produced)
  <2>1. f > 0 => Galvanizes(d, i) /\ produced
    OBVIOUS
  <2>2. f \in Nat
    OBVIOUS
  <2>3. QED BY <2>1, <2>2
<1>14. Stages(e, i).toProduce = Stages(d, i).toProduce + o
  <2> DEFINE x == is.toProduce
             y == was.toProduce
  <2>1. x = (IF Galvanizes(d, i) /\ produced THEN 0 ELSE after) + (pending + o)
        /\ y = (IF Galvanizes(d, i) /\ produced THEN 0 ELSE realloc) + pending
    BY <1>4, <1>7, <1>10
  <2> SUFFICES x = y + o
    OBVIOUS
  <2> HIDE DEF x, y, pending, produced, after, realloc
  <2>2. CASE Galvanizes(d, i) /\ produced
    BY <1>1, <2>1, <2>2
  <2>3. CASE ~(Galvanizes(d, i) /\ produced)
    <3>1. after = realloc
      BY <1>12, <1>13, <2>3
    <3>2. x = realloc + (pending + o) /\ y = realloc + pending
      BY <2>1, <2>3, <3>1
    <3>3. QED BY <1>1, <1>4, <3>2
  <2>4. QED BY <2>2, <2>3
<1>15. Fit(e, i)
  <2>1. ~Galvanizes(d, i) => f = 0
    BY <1>13
  <2>2. ReadyAvailable(e, i) = ReadyAvailable(d, i) - n
    BY <1>11
  <2>3. QED BY <1>14, <2>1, <2>2, SourceKeeps
<1>16. /\ is.delivered = del
       /\ ~Galvanizes(d, i) => is.awaiting = 0 /\ is.inGalvanization = 0 /\ is.undefined = 0
       /\ Galvanizes(d, i) =>
            /\ is.awaiting = IF produced THEN Pipeline(e, i) - (sent + g)
                             ELSE (fabIn + f) - fabOut + completed - (sent + g)
            /\ is.inGalvanization = (sent + g) - back /\ is.undefined = 0
  <2>1. /\ is.delivered = e.exp[i].del
        /\ FlowDefined(e, i) /\ ~Galvanizes(e, i) =>
             is.awaiting = 0 /\ is.inGalvanization = 0 /\ is.undefined = 0
        /\ Galvanizes(e, i) =>
             /\ is.awaiting = IF e.item[i].produced THEN Pipeline(e, i) - Sent(e, i)
                              ELSE e.swap[i].fabIn - e.swap[i].fabOut + e.swap[i].completed - Sent(e, i)
             /\ is.inGalvanization = Sent(e, i) - Back(e, i) /\ is.undefined = 0
    BY <1>15, StagesOfFlow
  <2>2. FlowDefined(e, i)
    BY <1>3
  <2> HIDE DEF is
  <2>3. is.delivered = del
    BY <1>2, <2>1
  <2>4. ~Galvanizes(d, i) => is.awaiting = 0 /\ is.inGalvanization = 0 /\ is.undefined = 0
    BY <1>3, <2>1, <2>2
  <2>5. Galvanizes(d, i) => is.inGalvanization = (sent + g) - back /\ is.undefined = 0
    BY <1>2, <1>3, <2>1
  <2>6. Galvanizes(d, i) => is.awaiting = IF produced THEN Pipeline(e, i) - (sent + g)
                                          ELSE (fabIn + f) - fabOut + completed - (sent + g)
    BY <1>2, <1>3, <2>1
  <2> HIDE DEF del, sent, back, fabIn, fabOut, completed, produced
  <2>7. QED BY <2>3, <2>4, <2>5, <2>6
<1>17. is.ready = was.ready - n /\ is.delivered = was.delivered
  BY <1>7, <1>10, <1>11, <1>16
<1> DEFINE isA == is.awaiting
           isG == is.inGalvanization
           wasA == was.awaiting
           wasG == was.inGalvanization
<1>18. isA = wasA + (f - g) /\ isG = wasG + g
  <2>1. CASE ~Galvanizes(d, i)
    <3>1. isA = 0 /\ isG = 0 /\ wasA = 0 /\ wasG = 0 /\ f = 0
      BY <1>7, <1>13, <1>16, <2>1
    <3> HIDE DEF isA, isG, wasA, wasG
    <3>2. QED BY <3>1
  <2>2. CASE Galvanizes(d, i)
    <3>1. /\ isA = IF produced THEN Pipeline(e, i) - (sent + g)
                   ELSE (fabIn + f) - fabOut + completed - (sent + g)
          /\ wasA = IF produced THEN Pipeline(d, i) - sent ELSE fabIn - fabOut + completed - sent
          /\ isG = (sent + g) - back /\ wasG = sent - back
      BY <1>7, <1>16, <2>2
    <3> HIDE DEF isA, isG, wasA, wasG, sent, back, fabIn, fabOut, completed, produced, Q, out
    <3>2. QED BY <1>1, <1>4, <1>5, <3>1
  <2>3. QED BY <2>1, <2>2
<1>19. is.undefined = was.undefined
  BY <1>7, <1>16
<1>20. QED BY <1>14, <1>17, <1>18, <1>19

-----------------------------------------------------------------------------
LEMMA KeyedOfOnly ==
  ASSUME NEW L, IsFiniteSet(L), NEW f \in [L -> Nat], NEW k, NEW l \in L,
         \A m \in L : k[m] = k[l] => m = l
  PROVE  Keyed(f, k, L, k[l]) = f[l]
<1> DEFINE S == {m \in L : k[m] = k[l]}
<1>1. S = {l}
  OBVIOUS
<1>2. IsFiniteSet(S) /\ (\A m \in S : f[m] \in Int) /\ l \in S /\ S \ {l} = {}
  BY <1>1, FS_Subset
<1>3. Keyed(f, k, L, k[l]) = SumFunctionOnSet(f, S)
  BY DEF Keyed
<1> HIDE DEF S
<1>4. SumFunctionOnSet(f, S) = f[l] + SumFunctionOnSet(f, S \ {l})
  BY <1>2, SumOfOneAndRest
<1>5. SumFunctionOnSet(f, S \ {l}) = 0
  BY <1>2, SumOfNothing
<1>6. f[l] \in Nat
  OBVIOUS
<1>7. QED BY <1>3, <1>4, <1>5, <1>6

\* Every item of a request that is honest and can be planned ends up in the
\* stages its plan says.
LEMMA HonestItemBalances ==
  ASSUME NEW d \in Database, LinksNest(d), NEW i \in Items, Fit(d, i), Open(d, i), Even(d, i),
         NEW q, LinesOK(q), Plannable(d, q), Honest(d, q), i \in Involved(q),
         NEW e, Tracked(d, q, StageSwaps(d, q), DOMAIN q, e)
  PROVE  \A n \in StageNames :
           Stages(e, i)[n] = Stages(d, i)[n] + PlannedChange(StageSwaps(d, q), q, i, n)
<1> DEFINE L == DOMAIN q
           w == StageSwaps(d, q)
           in(f) == Keyed(f, ToOf(L), L, i)
           out(f) == Keyed(f, FromOf(L), L, i)
           g == StageOf(w, "inGalvanization")
           a == StageOf(w, "awaiting")
           p == StageOf(w, "toProduce")
           u == StageOf(w, "undefined")
           owed == OwedOf(w)
           made == FabricatedOf(w)
           planned(n) == PlannedChange(w, q, i, n)
           is == Stages(e, i)
           was == Stages(d, i)
<1>1. /\ FitSwaps(d, q, w) /\ IsFiniteSet(L) /\ L \in SUBSET L
      /\ \A l \in L : /\ SumOf(w[l]) = q[l] /\ FlowDefined(d, l[2])
                      /\ q[l] <= ReadyAvailable(d, l[2])
                      /\ Fabricated(w[l]) > 0 => d.item[l[2]].produced
      /\ \A l, m \in L : l[2] = m[2] => l = m
  BY SwapsFit DEF LinesOK, Plannable, Honest
<1>0. FitSwaps(d, q, w) /\ \A l \in L : SumOf(w[l]) = q[l]
  BY <1>1
<1>2. e \in Database /\ LinksNest(e) /\ TrackedItem(d, q, w, L, e, i)
  BY DEF Tracked
<1>3. q \in [L -> Nat]
  BY <1>1, LineFunctions
<1>4. owed \in [L -> Nat]
  BY <1>1, LineFunctions
<1>5. made \in [L -> Nat]
  BY <1>1, LineFunctions
<1>6. g \in [L -> Nat] /\ a \in [L -> Nat] /\ p \in [L -> Nat] /\ u \in [L -> Nat]
  <2>1. \A n \in Stage4 : StageOf(w, n) \in [L -> Nat]
    <3> HIDE DEF w
    <3>1. QED BY <1>1, LineFunctions
  <2>2. QED BY <2>1 DEF Stage4
<1>7. /\ in(g) \in Nat /\ in(a) \in Nat /\ in(p) \in Nat /\ in(u) \in Nat
      /\ in(owed) = in(p) + in(u) /\ in(made) = in(g) + in(a)
      /\ in(q) = in(p) + in(u) + in(g) + in(a)
  <2> HIDE DEF w
  <2>1. QED BY <1>0, LineSums
<1>8. /\ out(g) \in Nat /\ out(a) \in Nat /\ out(p) \in Nat /\ out(u) \in Nat
      /\ out(owed) = out(p) + out(u) /\ out(made) = out(g) + out(a)
      /\ out(q) = out(p) + out(u) + out(g) + out(a)
  <2> HIDE DEF w
  <2>1. QED BY <1>0, LineSums
<1>9. /\ (\A l \in L : l[2] # i) => Receives(d, e, i, in(q), in(owed), in(made), in(g))
      /\ (\E l \in L : l[2] = i) => Gives(d, e, i, out(q), out(owed), out(made), out(g))
  <2> HIDE DEF w
  <2>1. QED BY <1>0, <1>2, ReceiversAndGivers
<1>10. (\A l \in L : l[2] # i) => \A f \in [L -> Nat] : out(f) = 0
  <2> HIDE DEF w
  <2>1. QED BY <1>0, <1>2, ReceiversAndGivers
<1>11. (\E l \in L : l[2] = i) => \A f \in [L -> Nat] : in(f) = 0
  <2> HIDE DEF w
  <2>1. QED BY <1>0, <1>2, ReceiversAndGivers
<1>12. /\ planned("delivered") = 0 /\ planned("ready") = in(q) - out(q)
       /\ planned("toProduce") = out(owed) - in(p) /\ planned("undefined") = 0 - in(u)
       /\ planned("awaiting") = out(a) - in(a) /\ planned("inGalvanization") = out(g) - in(g)
  <2>1. /\ planned("delivered") = 0 /\ planned("ready") = in(q) - out(q)
        /\ planned("toProduce") = out(owed) - in(p) /\ planned("undefined") = 0 - in(u)
        /\ \A n \in {"awaiting", "inGalvanization"} : planned(n) = out(StageOf(w, n)) - in(StageOf(w, n))
    <3> HIDE DEF w
    <3>1. QED BY <1>1, PlannedIsKeyed
  <2>2. QED BY <2>1
<1>13. (\A n \in StageNames : is[n] = was[n] + planned(n)) <=>
         /\ is.ready = was.ready + planned("ready") /\ is.delivered = was.delivered + planned("delivered")
         /\ is.toProduce = was.toProduce + planned("toProduce")
         /\ is.undefined = was.undefined + planned("undefined")
         /\ is.awaiting = was.awaiting + planned("awaiting")
         /\ is.inGalvanization = was.inGalvanization + planned("inGalvanization")
  BY DEF StageNames
<1>14. /\ was.ready \in Int /\ was.delivered \in Int /\ was.toProduce \in Int /\ was.undefined \in Int
       /\ was.awaiting \in Int /\ was.inGalvanization \in Int
  BY StageTypes DEF StageNames
<1>15. CASE \A l \in L : l[2] # i
  <2>1. Receives(d, e, i, in(q), in(p) + in(u), in(g) + in(a), in(g))
    BY <1>7, <1>9, <1>15
  <2>2. /\ in(g) <= Capacity(d, i).inGalvanization /\ in(a) <= Capacity(d, i).awaiting
        /\ in(p) <= Capacity(d, i).toProduce /\ in(u) <= Capacity(d, i).undefined
    <3>1. \A n \in Stage4 : Keyed(StageOf(w, n), ToOf(L), L, i) <= Capacity(d, i)[n]
      BY <1>1 DEF FitSwaps
    <3>2. QED BY <3>1 DEF Stage4
  <2>3. in(q) \in Nat
    BY <1>7
  <2>4. in(q) > 0
    <3>1. PICK l \in L : l[1] = i
      BY <1>15 DEF Involved, DestinationsOf
    <3>2. ToOf(L)[l] = i
      BY <3>1 DEF ToOf
    <3>3. q[l] \in Nat /\ q[l] > 0
      BY DEF LinesOK
    <3>4. q[l] <= in(q)
      <4> HIDE DEF L
      <4>1. QED BY <1>1, <1>3, <3>2, KeyedBasics
    <3> HIDE DEF in
    <3>5. QED BY <2>3, <3>3, <3>4
  <2>5. out(q) = 0 /\ out(owed) = 0 /\ out(a) = 0 /\ out(g) = 0
    BY <1>3, <1>4, <1>6, <1>10, <1>15
  <2> HIDE DEF w, g, a, p, u, in, out
  <2>6. /\ is.ready = was.ready + in(q) /\ is.delivered = was.delivered
        /\ is.toProduce = was.toProduce - in(p) /\ is.undefined = was.undefined - in(u)
        /\ is.awaiting = was.awaiting - in(a) /\ is.inGalvanization = was.inGalvanization - in(g)
    BY <1>2, <1>7, <2>1, <2>2, <2>3, <2>4, DestinationBalances
  <2> HIDE DEF is, was, planned, owed, made
  <2>7. /\ planned("ready") = in(q) /\ planned("delivered") = 0
        /\ planned("toProduce") = 0 - in(p) /\ planned("undefined") = 0 - in(u)
        /\ planned("awaiting") = 0 - in(a) /\ planned("inGalvanization") = 0 - in(g)
    BY <1>7, <1>12, <2>3, <2>5
  <2>8. \A n \in StageNames : is[n] = was[n] + planned(n)
    BY <1>7, <1>13, <1>14, <2>3, <2>6, <2>7
  <2>9. QED BY <2>8 DEF is, was, planned, w
<1>16. CASE \E l \in L : l[2] = i
  <2>1. PICK l \in L : l[2] = i
    BY <1>16
  <2>2. FromOf(L)[l] = i /\ \A m \in L : FromOf(L)[m] = FromOf(L)[l] => m = l
    BY <1>1, <2>1 DEF FromOf
  <2>3. ASSUME NEW f \in [L -> Nat] PROVE out(f) = f[l]
    <3> DEFINE k == FromOf(L)
    <3>1. k[l] = i /\ \A m \in L : k[m] = k[l] => m = l
      BY <2>2
    <3> HIDE DEF k, L
    <3>2. Keyed(f, k, L, k[l]) = f[l]
      BY <1>1, <3>1, KeyedOfOnly
    <3>3. Keyed(f, k, L, i) = f[l]
      BY <3>1, <3>2
    <3>4. QED BY <3>3 DEF k
  <2>4. out(q) = q[l]
    BY <1>3, <2>3
  <2>5. out(made) = made[l]
    BY <1>5, <2>3
  <2>6. FlowDefined(d, i) /\ q[l] <= ReadyAvailable(d, i) /\ q[l] \in Nat /\ q[l] > 0
    BY <1>1, <2>1 DEF LinesOK
  <2>7. made[l] > 0 => Galvanizes(d, i) /\ d.item[i].produced
    <3>1. made[l] = Fabricated(w[l])
      <4> HIDE DEF w
      <4>1. QED BY <1>1, LineQuantities
    <3>2. Fabricated(w[l]) > 0 => d.item[i].produced
      BY <1>1, <2>1
    <3>3. ~Galvanizes(d, i) => Fabricated(w[l]) = 0
      BY <1>1, <2>1 DEF FitSwaps
    <3>4. Fabricated(w[l]) > 0 => Fabricated(w[l]) # 0
      <4>1. \A k \in Nat : k > 0 => k # 0
        OBVIOUS
      <4>2. made[l] \in Nat
        BY <1>5
      <4>3. QED BY <3>1, <4>1, <4>2
    <3>5. QED BY <3>1, <3>2, <3>3, <3>4
  <2>8. Gives(d, e, i, out(q), out(owed), out(made), out(g))
    BY <1>9, <1>16
  <2>9. in(q) = 0 /\ in(p) = 0 /\ in(u) = 0 /\ in(a) = 0 /\ in(g) = 0
    BY <1>3, <1>6, <1>11, <1>16
  <2>10. /\ out(q) \in Nat /\ out(owed) \in Nat /\ out(made) \in Nat /\ out(g) \in Nat /\ out(a) \in Nat
         /\ out(q) = out(owed) + out(made) /\ out(g) <= out(made) /\ out(made) - out(g) = out(a)
    <3> HIDE DEF out, w, g, a, p, u, owed, made
    <3>1. QED BY <1>8
  <2>11. /\ out(q) > 0 /\ out(q) <= ReadyAvailable(d, i)
         /\ out(made) > 0 => Galvanizes(d, i) /\ d.item[i].produced
    BY <2>4, <2>5, <2>6, <2>7
  <2> HIDE DEF w, g, a, p, u, in, out, owed, made
  <2>12. /\ is.ready = was.ready - out(q) /\ is.delivered = was.delivered
         /\ is.toProduce = was.toProduce + out(owed) /\ is.undefined = was.undefined
         /\ is.awaiting = was.awaiting + (out(made) - out(g))
         /\ is.inGalvanization = was.inGalvanization + out(g)
    BY <1>2, <2>6, <2>8, <2>10, <2>11, SourceBalances
  <2> HIDE DEF is, was, planned
  <2>13. /\ planned("ready") = 0 - out(q) /\ planned("delivered") = 0
         /\ planned("toProduce") = out(owed) /\ planned("undefined") = 0
         /\ planned("awaiting") = out(a) /\ planned("inGalvanization") = out(g)
    BY <1>12, <2>9, <2>10
  <2>14. \A n \in StageNames : is[n] = was[n] + planned(n)
    BY <1>13, <1>14, <2>10, <2>12, <2>13
  <2>15. QED BY <2>14 DEF is, was, planned, w
<1>17. QED BY <1>15, <1>16

\* The verification never refuses a plan that names each source once, gives
\* fabricated pieces only to sources made themselves, and touches no item of
\* which pieces were returned to production: what is written is what was planned.
THEOREM HonestPlansAreConfirmed == Spec => []HonestPlansBalance
<1>1. ASSUME PieceInv PROVE HonestPlansBalance
  <2> SUFFICES ASSUME NEW q \in Requests, Plannable(db, q), Honest(db, q), Involved(q) \cap returned = {}
               PROVE  Conserves(db, q)
    BY DEF HonestPlansBalance, Reviewed
  <2>1. LinesOK(q)
    BY RequestsAreLines
  <2>2. /\ db \in Database /\ LinksNest(db) /\ \A i \in Items : Fit(db, i) /\ Open(db, i)
        /\ \A i \in Items \ returned : Even(db, i)
    BY <1>1 DEF PieceInv, Drafted
  <2> DEFINE e == Written(db, q)
             w == StageSwaps(db, q)
  <2>3. Tracked(db, q, w, DOMAIN q, e)
    BY <2>1, <2>2, WrittenIsTracked
  <2>4. \A i \in Involved(q) : i \in Items /\ i \notin returned
    BY <2>1, InvolvedItems
  <2>5. (\A i \in Involved(q) : \A n \in StageNames :
           Stages(e, i)[n] = Stages(db, i)[n] + PlannedChange(w, q, i, n)) => Conserves(db, q)
    BY DEF Conserves
  <2> HIDE DEF e
  <2>6. ASSUME NEW i \in Involved(q)
        PROVE  \A n \in StageNames : Stages(e, i)[n] = Stages(db, i)[n] + PlannedChange(w, q, i, n)
    BY <2>1, <2>2, <2>3, <2>4, HonestItemBalances
  <2>7. QED BY <2>5, <2>6
<1> QED
  BY <1>1, PiecesNest, PTL
=============================================================================
