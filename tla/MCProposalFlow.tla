--------------------------- MODULE MCProposalFlow ---------------------------
(***************************************************************************)
(* Instances of ProposalFlow for TLC. The family instance has two items of *)
(* one piece and room for four children, so splitting, merging, rebirth    *)
(* and splitting again all happen; the loads instance has one item of      *)
(* three pieces and two loads, so every partial quantity happens.          *)
(***************************************************************************)
EXTENDS ProposalFlow, TLC

CONSTANTS i1, i2

TwoItems == {i1, i2}
OnePieceEach == [i \in TwoItems |-> 1]
OneLoad == {"l1"}
AnyFlow == [i \in TwoItems |->
  {<<"INDEFINIDO", "INDEFINIDO">>, <<"SIM", "SIM">>, <<"SIM", "NAO">>, <<"NAO", "NAO">>}]

OneItem == {i1}
ThreePieces == [i \in OneItem |-> 3]
TwoLoads == {"l1", "l2"}
GalvanizedFlow == [i \in OneItem |->
  {<<"INDEFINIDO", "INDEFINIDO">>, <<"SIM", "SIM">>, <<"NAO", "SIM">>}]
=============================================================================
