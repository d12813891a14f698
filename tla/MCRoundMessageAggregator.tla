---------------------- MODULE MCRoundMessageAggregator ----------------------
(***************************************************************************)
(* Four voters of equal weight, any three of which are a quorum.  Block 1  *)
(* is finalized everywhere, one of its children 2 and 3 only at some       *)
(* voters, which may be on either fork; 4 and 5 are the children of 2.     *)
(***************************************************************************)
EXTENDS RoundMessageAggregator, TLC

CONSTANTS v1, v2, v3, v4

MCBlocks == 1 .. 5

MCAncestors == <<{1}, {1, 2}, {1, 3}, {1, 2, 4}, {1, 2, 5}>>

MCVoters == {v1, v2, v3, v4}

MCWeight == [v \in MCVoters |-> 25]

MCStarts == {1, 2, 3}

Symmetry == Permutations(MCVoters)
=============================================================================
