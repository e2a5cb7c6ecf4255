-------------------------- MODULE MCRemanagement --------------------------
EXTENDS Remanagement

\* One item in the first proposal, two in the second.
ThreeItems == <<1, 2, 2>>
OneTwoOne == <<1, 2, 1>>
EveryFlow == <<{"INDEFINIDO"}, {"SIM"}, {"NAO"}>>

TwoOwners == <<1, 2>>
TwoPieces == <<2, 2>>
AnyFlow == <<{"SIM", "NAO"}, {"SIM", "NAO", "INDEFINIDO"}>>

Symmetry == Permutations(Operations) \cup Permutations(Sessions)
=============================================================================
