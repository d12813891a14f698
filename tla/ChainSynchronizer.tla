-------------------------- MODULE ChainSynchronizer --------------------------
(* The synchronizer task of a node: it compares the local chain with the     *)
(* chain of a peer (CompareChains), pulls the blocks that are missing and    *)
(* hands them to the block dispatcher, while the blocks it handed over       *)
(* before are still unprocessed.                                             *)
EXTENDS BlockchainSync

CONSTANTS
    Peers,              \* the remote nodes
    HashesPerBatch,     \* MaxHashesPerSyncAttempt
    BlocksPerPull,      \* MaxBlocksPerSyncAttempt
    MaxUnprocessed      \* limit of the unprocessed bytes, a block being one byte

ASSUME SynchronizerAssumption ==
    /\ HashesPerBatch \in Nat /\ HashesPerBatch > 2
    /\ BlocksPerPull \in Nat \ {0}
    /\ MaxUnprocessed \in Nat \ {0}

VARIABLES
    peers,          \* the chain of every peer
    elements,       \* m_elements: end height and size of the ranges in the dispatcher
    pendingSync,    \* m_hasPendingSync
    dirty,          \* m_dirty
    task,           \* the synchronization in progress
    removed         \* history: end height and completion status of the last range removed

unprocessedVars == <<elements, pendingSync, dirty, removed>>
vars == <<local, proofs, queue, freed, work, events, faults, peers, unprocessedVars, task>>

NoTask == [stage |-> "Idle"]

Init ==
    /\ SyncInit
    /\ peers \in [Peers -> StartChains]
    /\ elements = <<>>
    /\ pendingSync = FALSE
    /\ dirty = FALSE
    /\ task = NoTask
    /\ removed = [endHeight |-> 0, status |-> "Normal"]

-----------------------------------------------------------------------------
(* UnprocessedElements. *)

NumBytes == FoldFunction(LAMBDA element, sum : sum + element.size, 0, elements)
HasPendingOperation == elements # <<>> \/ pendingSync

\* Conditions of add: the state is not dirty and the dispatcher accepts the range.
CanAdd == ~dirty /\ HasSpace

\* Mutant: a range that the dispatcher refuses is counted as unprocessed.
AddElementAlways(blocks) ==
    /\ IF CanAdd THEN ProcessElement("Remote_Pull", blocks, TRUE) ELSE UNCHANGED queue
    /\ elements' = Append(elements, [endHeight |-> Len(Last(blocks)), size |-> Len(blocks)])

\* add.  One step, as it holds the lock that remove takes: a range that is completed as soon as it is pushed is in
\* elements when it is removed.
AddElement(blocks) ==
    IF CanAdd
    THEN /\ ProcessElement("Remote_Pull", blocks, TRUE)
         /\ elements' = Append(elements, [endHeight |-> Len(Last(blocks)), size |-> Len(blocks)])
    ELSE UNCHANGED <<queue, elements>>

\* Mutant: the state is dirty only while other ranges wait, not while a pull continues the range.
RemoveElementQueued(status) ==
    /\ elements' = Tail(elements)
    /\ dirty' = (elements' # <<>> /\ status # "Normal")

\* remove
RemoveElement(status) ==
    /\ elements' = Tail(elements)
    /\ dirty' = (HasPendingOperation' /\ status # "Normal")

\* The completion of the dispatcher's first element; remove for a range of the synchronizer.
Complete ==
    /\ IsProcessed /\ freed
    /\ freed' = FALSE
    /\ queue' = Tail(queue)
    /\ UNCHANGED pendingSync
    /\ IF Head(queue).own
       THEN /\ RemoveElement(Head(queue).status)
            /\ removed' = [endHeight |-> Head(elements).endHeight, status |-> Head(queue).status]
       ELSE UNCHANGED <<elements, dirty, removed>>
    /\ UNCHANGED <<local, proofs, work, events, faults, peers, task>>

-----------------------------------------------------------------------------
(* The task. *)

\* shouldStartSync
ShouldStartSync(p) ==
    /\ task = NoTask
    /\ NumBytes < MaxUnprocessed /\ ~pendingSync /\ ~dirty
    /\ pendingSync' = TRUE
    /\ task' = [stage |-> "Start", peer |-> p]
    /\ UNCHANGED <<local, proofs, queue, freed, work, events, faults, peers, elements, dirty, removed>>

\* A step of the task that changes nothing else.
TaskStep(stage, next) ==
    /\ task.stage = stage
    /\ task' = next
    /\ UNCHANGED <<local, proofs, queue, freed, work, events, faults, peers, unprocessedVars>>

Remote == peers[task.peer]

\* The end of a synchronization with a comparison code or the end of the pull.
\* stable is a history variable: no chain and no proof changed since the comparison began.
Done(code, stable) == [stage |-> "Done", peer |-> task.peer, code |-> code, stable |-> stable]

\* syncWithPeer when the code is Remote_Is_Not_Synced.
SyncWithPeer(common, forkDepth, isCompared, stable) ==
    [stage |-> "Pull", peer |-> task.peer, common |-> common, forkDepth |-> forkDepth, blocks |-> <<>>,
     isCompared |-> isCompared, stable |-> stable]

\* compareChains: empty and maxHeight take the lock one after the other.
CheckEmpty ==
    TaskStep("Start", [stage |-> IF elements = <<>> THEN "Compare" ELSE "MaxHeight", peer |-> task.peer])

ReadMaxHeight ==
    TaskStep("MaxHeight", SyncWithPeer(IF elements = <<>> THEN 0 ELSE Last(elements).endHeight, 0, FALSE, FALSE))

\* startNextCompare in stage Statistics; then chainStatistics reads the height and the score.
ReadLowerBound ==
    LET finalized == Len(LocalFinalized)
    IN  TaskStep("Compare", [stage |-> "LocalHeight", peer |-> task.peer, stable |-> TRUE,
                             lower |-> finalized, start |-> finalized, upper |-> 0, isFirst |-> TRUE,
                             localHeight |-> 0, localScore |-> 0, remoteHeight |-> 0, hashes |-> <<>>])

ReadLocalHeight ==
    TaskStep("LocalHeight", [task EXCEPT !.stage = "LocalScore", !.localHeight = Len(local), !.upper = Len(local)])

ReadLocalScore ==
    TaskStep("LocalScore", [task EXCEPT !.stage = "Statistics", !.localScore = Score(local)])

\* compareChainStatistics, when the statistics of the peer arrive.
CompareChainStatistics ==
    TaskStep("Statistics",
        IF Len(Remote) <= Len(LocalFinalized) THEN Done("Remote_Is_Too_Far_Behind", task.stable)
        ELSE IF Score(Remote) > task.localScore
        THEN [task EXCEPT !.stage = "LocalHashes", !.remoteHeight = Len(Remote)]
        ELSE Done("Remote_Reported_Lower_Or_Equal_Chain_Score", task.stable))

\* hashesFrom, of the local node and of the handler of the peer.
HashesFrom(chain, height) ==
    IF height \in 1 .. Len(chain)
    THEN Blocks(chain, height, Min({Len(chain), height + HashesPerBatch - 1}))
    ELSE <<>>

\* compareHashes asks the local node, which throws when it has no hashes.
ReadLocalHashes ==
    LET hashes == HashesFrom(local, task.start)
    IN  TaskStep("LocalHashes",
            IF hashes = <<>> THEN Done("Exception", task.stable)
            ELSE [task EXCEPT !.stage = "Hashes", !.hashes = hashes])

\* Mutant: the later batches are still taken for the first one.
TryContinueFirst(context, start) ==
    IF start = context.start THEN Done("Remote_Lied_About_Chain_Score", task.stable)
    ELSE [context EXCEPT !.stage = "LocalHashes", !.start = start, !.hashes = <<>>]

\* tryContinue
TryContinue(context, start) ==
    IF start = context.start THEN Done("Remote_Lied_About_Chain_Score", task.stable)
    ELSE [context EXCEPT !.stage = "LocalHashes", !.start = start, !.isFirst = FALSE, !.hashes = <<>>]

\* compareHashes, when the hashes of the peer arrive.
CompareHashes(remoteHashes) ==
    LET firstDifference == CommonLength(task.hashes, remoteHashes)
        common == task.start + firstDifference - 1
        derivedHeight == task.start + Min({Len(task.hashes), Len(remoteHashes)}) - 1
    IN  CASE remoteHashes = <<>> -> Done("Remote_Returned_Too_Many_Hashes", task.stable)
          [] remoteHashes # <<>> /\ firstDifference = 0 ->
                IF task.isFirst THEN Done("Remote_Is_Forked", task.stable)
                ELSE TryContinue([task EXCEPT !.upper = task.start], (task.lower + task.start) \div 2)
          [] remoteHashes # <<>> /\ firstDifference = Len(remoteHashes) ->
                IF derivedHeight < task.localHeight
                THEN TryContinue([task EXCEPT !.lower = task.start], (task.start + task.upper) \div 2)
                ELSE IF derivedHeight < task.remoteHeight THEN TryContinue(task, derivedHeight - 1)
                ELSE [task EXCEPT !.stage = "LocalScoreAgain", !.hashes = <<>>]
          [] OTHER -> SyncWithPeer(common, Max({task.localHeight, derivedHeight}) - common, TRUE, task.stable)

ReceiveHashes == TaskStep("Hashes", CompareHashes(HashesFrom(Remote, task.start)))

\* compareLocalScore
CompareLocalScore ==
    TaskStep("LocalScoreAgain",
        Done(IF Score(local) > task.localScore THEN "Local_Score_Updated" ELSE "Remote_Lied_About_Chain_Score", task.stable))

\* The blocks that the handler of the peer returns.
BlocksFrom(chain, height) ==
    IF height \in 1 .. Len(chain) THEN Blocks(chain, height, Min({Len(chain), height + BlocksPerPull - 1})) ELSE <<>>

\* Mutant: a peer that has no more blocks is asked again.
IsCompleteAtDepth(range, blocks) == task.forkDepth <= Len(blocks)

\* The pull is complete when the peer returns nothing or the fork is resolved.
IsComplete(range, blocks) == range = <<>> \/ task.forkDepth <= Len(blocks)

\* ChainBlocksFrom: one answer of the peer; the last one adds the merged range.
ChainBlocksFrom ==
    LET range == BlocksFrom(Remote, task.common + Len(task.blocks) + 1)
        blocks == task.blocks \o range
    IN  /\ task.stage = "Pull"
        /\ IF ~IsComplete(range, blocks)
           THEN task' = [task EXCEPT !.blocks = blocks, !.stable = FALSE] /\ UNCHANGED <<queue, elements>>
           ELSE /\ task' = Done("Pulled", FALSE)
                /\ IF blocks = <<>> THEN UNCHANGED <<queue, elements>> ELSE AddElement(blocks)
        /\ UNCHANGED <<local, proofs, freed, work, events, faults, peers, pendingSync, dirty, removed>>

\* A request to the peer fails or times out.
RequestFails ==
    /\ task.stage \in {"Statistics", "Hashes", "Pull"}
    /\ faults < MaxFaults
    /\ faults' = faults + 1
    /\ task' = Done("Exception", FALSE)
    /\ UNCHANGED <<local, proofs, queue, freed, work, events, peers, unprocessedVars>>

\* clearPendingSync
ClearPendingSync ==
    /\ task.stage = "Done"
    /\ task' = NoTask
    /\ pendingSync' = FALSE
    /\ UNCHANGED elements
    /\ dirty' = (dirty /\ HasPendingOperation')
    /\ UNCHANGED <<local, proofs, queue, freed, work, events, faults, peers, removed>>

-----------------------------------------------------------------------------
(* The rest of the node and the network. *)

\* Record that a chain or a proof changed under a comparison.
Disturb == task' = IF "stable" \in DOMAIN task THEN [task EXCEPT !.stable = FALSE] ELSE task

\* A peer switches to another chain with a higher score.
PeerChange(p) ==
    /\ events < MaxEvents
    /\ \E chain \in Chains : Score(chain) > Score(peers[p]) /\ peers' = [peers EXCEPT ![p] = chain]
    /\ events' = events + 1
    /\ IF task # NoTask /\ task.peer = p THEN Disturb ELSE UNCHANGED task
    /\ UNCHANGED <<local, proofs, queue, freed, work, faults, unprocessedVars>>

Input == Harvest \/ \E p \in Peers : PushBlock(peers[p])
Consume == Refuse \/ ReadLocalFinalized \/ ReadNetworkFinalized \/ Advance

DispatcherStep ==
    \/ Consume /\ UNCHANGED <<peers, unprocessedVars, task>>
    \/ Sync /\ Disturb /\ UNCHANGED <<peers, unprocessedVars>>
    \/ Complete

CompareStep ==
    \/ CheckEmpty \/ ReadMaxHeight
    \/ ReadLowerBound \/ ReadLocalHeight \/ ReadLocalScore \/ CompareChainStatistics
    \/ ReadLocalHashes \/ ReceiveHashes \/ CompareLocalScore

SyncStep == CompareStep \/ ChainBlocksFrom \/ ClearPendingSync

Next ==
    \/ Input /\ UNCHANGED <<peers, unprocessedVars, task>>
    \/ \E block \in Chains, isNewEpoch \in BOOLEAN :
        SaveProof(block, isNewEpoch) /\ Disturb /\ UNCHANGED <<peers, unprocessedVars>>
    \/ \E p \in Peers : PeerChange(p)
    \/ DispatcherStep
    \/ \E p \in Peers : ShouldStartSync(p)
    \/ SyncStep
    \/ RequestFails

\* The dispatcher threads and the scheduler run; every peer is picked again and again.
Fairness ==
    /\ WF_vars(DispatcherStep)
    /\ WF_vars(SyncStep)
    /\ \A p \in Peers : SF_vars(ShouldStartSync(p))

Spec == Init /\ [][Next]_vars /\ Fairness

-----------------------------------------------------------------------------
(* Properties. *)

Heights == 0 .. Max({Len(c) : c \in Chains}) + 1

\* The variables have their types, heights and the fork depth included: no subtraction goes below zero.
TypeOK ==
    /\ local \in Chains
    /\ proofs \in Seq(Chains) /\ work \in Seq(Chains) /\ Len(work) <= 2
    /\ freed \in BOOLEAN /\ Occupied <= Capacity
    /\ freed => IsProcessed
    /\ \A i \in DOMAIN queue :
        /\ queue[i].own \in BOOLEAN /\ queue[i].source \in Sources
        /\ queue[i].status \in {"Pending", "Normal", "Aborted"}
        /\ queue[i].blocks \in Seq(Chains) \ {<<>>}
    /\ peers \in [Peers -> Chains]
    /\ elements \in Seq([endHeight : Heights, size : Heights])
    /\ pendingSync \in BOOLEAN /\ dirty \in BOOLEAN
    /\ task.stage = "Pull" => task.common \in Heights /\ task.forkDepth \in Heights
    /\ "start" \in DOMAIN task => task.start \in Heights /\ task.lower \in Heights /\ task.upper \in Heights

\* The ranges that the synchronizer knows are the ones it has in the dispatcher, in their order: remove never meets an
\* element id other than that of the first element, and the byte count returns to zero.
ElementsMatchQueue ==
    \E place \in [DOMAIN elements -> DOMAIN queue] :
        /\ \A i, j \in DOMAIN elements : i < j => place[i] < place[j]
        /\ \A k \in DOMAIN queue : queue[k].own <=> \E i \in DOMAIN elements : place[i] = k
        /\ \A i \in DOMAIN elements :
            LET blocks == queue[place[i]].blocks
            IN  elements[i] = [endHeight |-> Len(Last(blocks)), size |-> Len(blocks)]

\* A range that was pulled to continue another one is handed over only while the other one waits in front of it or
\* after it was completed normally (add, remove, clearPendingSync).
ContinuesAcceptedRange ==
    [][Len(elements') > Len(elements) =>
        \/ task.isCompared
        \/ elements # <<>> /\ Last(elements).endHeight = task.common
        \/ elements = <<>> /\ removed.status = "Normal"]_vars

\* A step of the sync consumer that changes the chain raises its score, or gains the block that the network has
\* finalized: two nodes never exchange equal chains back and forth.
OnlyBetterChains ==
    [][local' # local =>
        \/ Score(local') > Score(local)
        \/ ~IsPrefix(work[2], local) /\ IsPrefix(work[2], local')]_vars

\* The block that was finalized locally when the consumer began with an element survives the element, whatever proofs
\* are saved while it is processed.
FinalizedKept == [][local' # local => IsPrefix(work[1], local')]_vars

\* A comparison that nothing disturbed finds the last common block and the depth of the fork, and a peer whose chain
\* contains the local finalized block is never taken for forked or lying.  This needs a chain that is not shorter than
\* the local one by more than a batch: the search halves the heights of the local chain, and a peer that is asked for
\* hashes above its chain has none.
CompareExact ==
    /\ task.stage = "Pull" /\ task.stable =>
        /\ task.common = CommonLength(local, Remote)
        /\ task.forkDepth = Len(local) - task.common
    /\ task.stage = "Done" /\ task.stable
        /\ task.code \in {"Remote_Returned_Too_Many_Hashes", "Remote_Is_Forked", "Remote_Lied_About_Chain_Score", "Exception"}
        => ~(IsPrefix(LocalFinalized, Remote) /\ Len(local) <= Len(Remote) + HashesPerBatch)

\* Every synchronization ends and another one can start: the search for the common block terminates, and neither the
\* dirty flag nor the byte limit blocks the synchronizer for good.
SyncAvailable == []<>(\E p \in Peers : ENABLED ShouldStartSync(p))

\* What a synchronization with the peer pulls from the current chains is a chain that the sync consumer would take.
PullIsBetter(p) ==
    LET common == CommonLength(local, peers[p])
        depth == Len(local) - common
        pulled == BlocksPerPull * Max({1, (depth + BlocksPerPull - 1) \div BlocksPerPull})
        tip == SubSeq(peers[p], 1, Min({Len(peers[p]), common + pulled}))
    IN  common >= Len(LocalFinalized) /\ ScoreAbove(tip, common) > ScoreAbove(local, common)

\* The node catches up: it never has forever a peer from which it could pull a better chain.
CatchesUp == \A p \in Peers : []<>~PullIsBetter(p)

\* Once the chain of the node contains a finalized block, it keeps it.
FinalizedNeverRolledBack ==
    [][\A i \in DOMAIN proofs : IsPrefix(proofs[i], local) => IsPrefix(proofs[i], local')]_vars
=============================================================================
