---------------------------- MODULE MCHarvesting ----------------------------
(***************************************************************************)
(* "spend" needs "fund", "change" needs "spend", and "rival" excludes      *)
(* "fund".  The node starts with "fund" confirmed.  A peer may offer a     *)
(* better block instead of it, with or without "rival", a block on top of  *)
(* it, and the first chain again with a block more.                        *)
(***************************************************************************)
EXTENDS Harvesting

Block(txs, score) == [txs |-> txs, score |-> score]

MCTxs == {"fund", "spend", "rival", "change"}
MCConflicts == {{"fund", "rival"}}
MCRequires == [tx \in MCTxs |-> 
    CASE tx = "spend" -> {"fund"} [] tx = "change" -> {"spend"} [] OTHER -> {}]
MCSubCaches == <<"accounts", "hashes">>
MCStartChain == <<Block(<<>>, 1), Block(<<"fund">>, 1)>>
MCPeerChains == {<<Block(<<>>, 2)>>, <<Block(<<"rival">>, 2)>>, <<Block(<<"spend">>, 1)>>,
                 <<Block(<<"fund">>, 1), Block(<<>>, 2)>>}
MCNewBatches == {<<"spend">>, <<"spend", "change">>, <<"rival", "fund", "spend">>}
=============================================================================
