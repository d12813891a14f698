------------------------ MODULE MCChainSynchronizer ------------------------
(* A small network with forks of different depth and score. *)
EXTENDS ChainSynchronizer

CONSTANT p1

\* The fork is behind the first batch of hashes and before the second one, so that the search goes back, and it is
\* deeper than one pull; a peer that switches to the best chain between two pulls mixes two chains.
Long == <<1, 1, 1, 1, 1, 1, 1>>
Fork == <<1, 1, 1, 2, 2, 2>>
Best == <<1, 2, 2, 2, 2, 2>>

MCChains == {SubSeq(c, 1, n) : c \in {Long, Fork, Best}, n \in 1 .. 6} \cup {Long}
MCStartChains == {Long, Fork, Front(Fork)}
MCPeers == {p1}
=============================================================================
