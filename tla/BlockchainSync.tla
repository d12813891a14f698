--------------------------- MODULE BlockchainSync ---------------------------
(* The local chain of a node and the consumer that changes it: blocks come   *)
(* from the chain synchronizer, from pushing peers and from the harvester,   *)
(* wait in the block dispatcher, and BlockchainSyncConsumer links, scores    *)
(* and commits them one after the other, while the finalization thread saves *)
(* proofs.  A chain is the sequence of the scores of its blocks; a block is  *)
(* the chain that ends in it, so that equal blocks have equal ancestors as   *)
(* equal hashes do.                                                          *)
EXTENDS SequenceOps

CONSTANTS
    Chains,         \* the chains that exist in the network, closed under prefixes
    StartChains,    \* the chains a node may have at the beginning
    Capacity,       \* elements the block dispatcher holds
    MaxEvents,      \* bound: blocks harvested or pushed, chains changed by peers, proofs saved
    MaxFaults       \* bound: blocks refused by an earlier consumer, requests that fail

Nemesis == <<1>>

ASSUME ChainsAssumption ==
    /\ StartChains \subseteq Chains
    /\ \A c \in Chains : c \in Seq(Nat) /\ IsPrefix(Nemesis, c)
    /\ \A c \in Chains : c = Nemesis \/ Front(c) \in Chains
ASSUME BlockchainSyncBounds == Capacity \in Nat \ {0} /\ MaxEvents \in Nat /\ MaxFaults \in Nat

VARIABLES
    local,      \* block storage of the node
    proofs,     \* proof storage: the finalized block of every epoch, the last one still moving
    queue,      \* block dispatcher: what was pushed and is not completed
    freed,      \* whether the slot of the first of them is free again, its completion being still to be handled
    work,       \* the finalized blocks that the sync consumer has read: the local one, then the network's
    events,     \* number of environment events so far
    faults      \* number of faults so far

syncVars == <<local, proofs, queue, freed, work, events, faults>>

Sources == {"Local", "Remote_Push", "Remote_Pull"}
Blocks(chain, first, last) == [i \in 1 .. last - first + 1 |-> SubSeq(chain, 1, first + i - 1)]

\* CalculatePartialChainScore, and the score that unwindLocalChain collects.
Score(blocks) ==
    LET sum[i \in 0 .. Len(blocks)] == IF i = 0 THEN 0 ELSE sum[i - 1] + blocks[i]
    IN  sum[Len(blocks)]
ScoreAbove(chain, height) == Score(SubSeq(chain, height + 1, Len(chain)))

\* IsChainLink: the height and the previous block hash of the child.
IsChainLink(parent, child) == Front(child) = parent

\* The check of BlockchainCheckConsumer on the links between the blocks of one element.
IsChain(blocks) == \A i \in 1 .. Len(blocks) - 1 : IsChainLink(blocks[i], blocks[i + 1])

\* LocalFinalizedHeightHashPairSupplier: the block of the newest proof that is in the storage.
LocalFinalized == proofs[SelectLastInSeq(proofs, LAMBDA block : IsPrefix(block, local))]

\* NetworkFinalizedHeightHashPairSupplier.
NetworkFinalized == Last(proofs)

SyncInit ==
    /\ local \in StartChains
    /\ proofs = <<Nemesis>>
    /\ queue = <<>>
    /\ freed = FALSE
    /\ work = <<>>
    /\ events = 0
    /\ faults = 0

-----------------------------------------------------------------------------
(* The block dispatcher. *)

Occupied == Len(queue) - (IF freed THEN 1 ELSE 0)

\* Mutant: one element too many.
HasSpaceOff == Occupied <= Capacity

HasSpace == Occupied < Capacity

\* processElement.  own is set by the synchronizer, whose elements have a completion handler.
ProcessElement(source, blocks, own) ==
    queue' = Append(queue, [own |-> own, source |-> source, blocks |-> blocks, status |-> "Pending"])

\* The harvester finds a block on top of the local chain.
Harvest ==
    /\ events < MaxEvents /\ HasSpace
    /\ \E chain \in Chains :
        /\ IsChainLink(local, chain)
        /\ ProcessElement("Local", <<chain>>, FALSE)
    /\ events' = events + 1
    /\ UNCHANGED <<local, proofs, freed, work, faults>>

\* RegisterPushBlockHandler: a peer pushes its last block.
PushBlock(chain) ==
    /\ events < MaxEvents /\ HasSpace
    /\ ProcessElement("Remote_Push", <<chain>>, FALSE)
    /\ events' = events + 1
    /\ UNCHANGED <<local, proofs, freed, work, faults>>

-----------------------------------------------------------------------------
(* The consumers. *)

\* The element that the sync consumer is at, or 0.
NextPending == SelectInSeq(queue, LAMBDA input : input.status = "Pending")

SetStatus(i, status) == queue' = [queue EXCEPT ![i].status = status]

\* Another consumer aborts, or the sync consumer does for a reason that the model leaves out.
Refuse ==
    /\ NextPending # 0
    /\ IF IsChain(queue[NextPending].blocks)
       THEN faults < MaxFaults /\ faults' = faults + 1
       ELSE UNCHANGED faults
    /\ SetStatus(NextPending, "Aborted")
    /\ work' = <<>>
    /\ UNCHANGED <<local, proofs, freed, events>>

\* preprocess, step 0: the finalized blocks are read one after the other and before the storage lock is taken.
ReadLocalFinalized ==
    /\ NextPending # 0 /\ work = <<>>
    /\ IsChain(queue[NextPending].blocks)
    /\ work' = <<LocalFinalized>>
    /\ UNCHANGED <<local, proofs, queue, freed, events, faults>>

ReadNetworkFinalized ==
    /\ Len(work) = 1
    /\ work' = Append(work, NetworkFinalized)
    /\ UNCHANGED <<local, proofs, queue, freed, events, faults>>

\* Mutant: blocks on top of the local chain are refused.
IsLinkedOff(start, source) ==
    /\ start >= 2
    /\ start <= Len(local)
    /\ source = "Remote_Pull" \/ Len(local) <= start

\* IsLinked.
IsLinked(start, source) ==
    /\ start >= 2
    /\ start <= Len(local) + 1
    /\ source = "Remote_Pull" \/ Len(local) <= start

\* The network's finalized block is new to the node and in the blocks.
IsFinalizedBlockUpdate(blocks) == ~IsPrefix(work[2], local) /\ work[2] \in ToSet(blocks)

\* Mutant: a chain may go back behind the finalized block.
CanPreprocessUnfinalized(input) ==
    LET start == Len(input.blocks[1])
    IN  /\ IsLinked(start, input.source)
        /\ \/ ScoreAbove(Last(input.blocks), start - 1) > ScoreAbove(local, start - 1)
           \/ IsFinalizedBlockUpdate(input.blocks)

\* Mutant: the scores are not compared.
CanPreprocessUnscored(input) ==
    LET start == Len(input.blocks[1])
    IN  /\ IsLinked(start, input.source)
        /\ start > Len(work[1]) \/ IsFinalizedBlockUpdate(input.blocks)

\* preprocess, steps 1 to 6.
CanPreprocess(input) ==
    LET start == Len(input.blocks[1])
    IN  /\ IsLinked(start, input.source)
        /\ \/ /\ start > Len(work[1])
              /\ ScoreAbove(Last(input.blocks), start - 1) > ScoreAbove(local, start - 1)
           \/ IsFinalizedBlockUpdate(input.blocks)

\* The processor links the first block to the common block by its hash.
CanProcess(input) == IsPrefix(Front(input.blocks[1]), local)

\* sync: the rest of preprocess, process and commitAll, which hold the storage.
Sync ==
    LET input == queue[NextPending]
    IN  /\ Len(work) = 2
        /\ IF CanPreprocess(input) /\ CanProcess(input)
           THEN local' = Last(input.blocks) /\ SetStatus(NextPending, "Normal")
           ELSE UNCHANGED local /\ SetStatus(NextPending, "Aborted")
        /\ work' = <<>>
        /\ UNCHANGED <<proofs, freed, events, faults>>

\* All consumers are done with the first element.
IsProcessed == queue # <<>> /\ Head(queue).status # "Pending"

\* advance by the last consumer: the barrier frees the slot of an element before its completion is handled.
Advance ==
    /\ IsProcessed /\ ~freed
    /\ freed' = TRUE
    /\ UNCHANGED <<local, proofs, queue, work, events, faults>>

-----------------------------------------------------------------------------
(* Finalization. *)

\* saveProof: one proof is kept for an epoch.  The voters agree, so finalized blocks are on one chain.
SaveProof(block, isNewEpoch) ==
    /\ events < MaxEvents
    /\ IsStrictPrefix(NetworkFinalized, block)
    /\ isNewEpoch \/ Len(proofs) > 1
    /\ proofs' = Append(IF isNewEpoch THEN proofs ELSE Front(proofs), block)
    /\ events' = events + 1
    /\ UNCHANGED <<local, queue, freed, work, faults>>
=============================================================================
