--------------------------- MODULE MCFinalization ---------------------------
(***************************************************************************)
(* Two forks above the first block: 1 <- 2 <- 4 and 1 <- 3 <- 5.  A node's *)
(* chain ends at 4 or 5, so it prevotes up to 2 or 3.                      *)
(***************************************************************************)
EXTENDS Finalization, TLC

CONSTANTS n1, n2, n3, n4

MCBlocks == 1 .. 5

MCAncestors == <<{1}, {1, 2}, {1, 3}, {1, 2, 4}, {1, 3, 5}>>

MCHeads == {4, 5}

\* Three voters: n1 and any other are a quorum.
MCVoters == {n1, n2, n3}

MCWeight == n1 :> 40 @@ n2 :> 30 @@ n3 :> 30

MCHeaviest == {n1}

Symmetry == Permutations({n2, n3})

\* Four voters of equal weight: any three are a quorum.
MCFourVoters == {n1, n2, n3, n4}

MCEqualWeight == [v \in MCFourVoters |-> 25]

MCOneOfFour == {n4}

SymmetryOfFour == Permutations({n1, n2, n3})
=============================================================================
