------------------------ MODULE MCFinalityProofs ------------------------
(* The decisions of small networks. *)
EXTENDS FinalityProofs

Round(epoch, point, heights) == [round |-> <<epoch, point>>, heights |-> heights]

\* The proofs of the second epoch finalize a block in the middle of it and, when more messages are known, its last one.
MCDecided == <<Round(2, 1, {2, 3}), Round(3, 1, {6})>>

\* The same in the third of four epochs, which a node that is behind can reach in one poll.
MCDecidedLater == <<Round(2, 1, {2}), Round(3, 1, {3, 4}), Round(4, 1, {6})>>

\* The node votes in the first round and may go on to the next one.
MCVotingRounds == {<<2, 1>>}
=============================================================================
