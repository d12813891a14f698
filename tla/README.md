# Catapult: TLA+ specifications, model checks and proofs

These modules specify the parts of the Symbol node (`client/catapult`, "catapult") whose correctness depends on the
order in which threads, peers, disks and crashes do things. TLC checks them on small instances, liveness included; TLAPS
proves nearly all of the safety properties for every instance.

Paths below are relative to `client/catapult/src/catapult` unless they start with `extensions/`, which is
`client/catapult/extensions`.

## The system

A catapult node is a server process, optionally with a broker process beside it that copies the server's changes to a
database, and a recovery process that an operator runs after a crash. The server is built from these parts.

| part | where | state | operations | what makes it hard |
| --- | --- | --- | --- | --- |
| dispatchers | `disruptor` | circular buffer, barriers, memory counter | `processElement`, consumer threads, `shutdown` | producers and consumer threads share slots without a lock |
| block commit | `consumers/BlockchainSyncConsumer.cpp`, `io` | block storage, staging area, caches, `commit_step.dat` | `commitAll` | a dozen writes to different files, each of which may be the last |
| state directory | `extensions/LocalNodeStateFileStorage.cpp`, `local/server` | `state`, `state.tmp` | load, save with checkpoints, move | purge and rename are two steps |
| spooling | `io/FileQueue.cpp`, `subscribers` | message files and index files | write, publish, read | server, broker and recovery share the indexes |
| recovery | `local/recovery` | all of the above | `RepairSpooling`, `RepairState`, replay, reapply | must finish or undo whatever a crash interrupted, and may be interrupted itself |
| broker | `local/broker` | its position in each queue, a database | `ReadAll` | lags behind the server by any distance |
| finalization round | `extensions/finalization/src/chain` | hash tree, weights, messages of a round | `add` | votes arrive in any order, for branches that start at different blocks |
| finalization | `extensions/finalization/src` | voting status, aggregators, proofs | `poll`: prevote, precommit, next round, save, finalize | every voter sees other messages; nodes restart |
| epochs and proofs | `extensions/finalization/src` | epoch of the orchestrator, proof storage, backups | `setEpoch`, `prune`, proof pulls, boot | two tasks save proofs, by statistics that they have read earlier |
| chain synchronizer | `chain/ChainSynchronizer.cpp`, `chain/CompareChains.cpp` | elements pushed and not completed, dirty flag | compare, pull, push, completion | pulls continue on blocks that may still be refused; chains change under a comparison |
| block consumers | `consumers/BlockchainSyncConsumer.cpp` | local chain | link, score, commit | finalized heights are read before the storage is locked |
| locks | `utils/SpinReaderWriterLock.h` | one atomic word | acquire, promote, release | promotions compete with writers |
| catapult cache | `cache`, `cache_core` | sub caches, commit counters, height | attached and detached deltas, commit | a commit covers many locks, one after the other |
| unconfirmed transactions | `chain/UtUpdater.cpp`, `cache_tx` | transaction cache, detached delta | `update` (new), `update` (after a block) | races with the commit of blocks |
| harvesting | `extensions/harvesting` | facade, block in flight, pending flag | harvest, completion | builds on a chain that moves on |
| partial transactions | `extensions/partialtransaction` | transactions with cosignatures | add, cosign, prune | races with blocks and with completion |
| nodes and connections | `ionet`, `net` | node container, sockets | connect, age, ban | callbacks after closing |

The chain synchronizer, pushing peers and the harvester give blocks to the block dispatcher, which runs the consumers.
The last ones decide whether a chain is better and commit it: they write the block storage and the state directory, spool
the changes for the broker, and tell the unconfirmed transactions. Finalization reads the block storage for its
prevotes, and what it has finalized bounds what the consumer may roll back. The recovery process replaces the server and
works on the same files.

Outside the node are the REST gateway, the SDKs, the catbuffer schemas and their parser, the OpenAPI documents, the
documentation site and the build scripts.

## Modules

| module | models | role |
| --- | --- | --- |
| `ConsumerDispatcher` | the disruptor and its threads | component |
| `ConsumerDispatcherProofs` | | theorems about it |
| `AtomicLedger` | what committing blocks promises | abstract specification |
| `BlockCommit` | commit, save, boot, crash, recovery, broker | component, shown to implement `AtomicLedger` |
| `MCBlockCommit` | | configurations and crash windows of the runs |
| `BlockCommitProofs`, `BlockCommitTheorems` | | the inductive invariant and half of its steps; the other half and the theorems |
| `RoundContext` | hash tree, weights and predicates of a round | operators used by the next two |
| `RoundMessageAggregator` | the messages of one round, in any order | component |
| `MCRoundMessageAggregator` | | voters, blocks and weights |
| `Finalization` | all voters in one epoch, with restarts | composes the round with the orchestrator |
| `MCFinalization` | | voters, forks and weights |
| `RoundTheorems` | | theorems about the round and about the voters of a round |
| `FinalityProofs` | one voting node across epochs: proof storage, backups, voting status, crashes | component |
| `MCFinalityProofs` | | what the network decides |
| `FinalityTheorems` | | theorems about it |
| `BlockchainSync` | local chain, block dispatcher as a queue, sync consumer, saved proofs | component |
| `ChainSynchronizer` | the synchronizer task, the comparison, the pulls, the peers | composed with `BlockchainSync` |
| `MCChainSynchronizer` | | chains of the network |
| `ChainSynchronizerProofs` | | theorems about both |
| `LockWord` | the atomic word of a lock and its operations | operators used by the next two |
| `SpinReaderWriterLock` | one lock and any number of threads | what a lock promises |
| `CatapultCache` | sub caches, their locks and counters, the cache height | component, implements `SpinReaderWriterLock` lock by lock |
| `UnconfirmedTransactions` | the two updates of the unconfirmed transactions | composed with `CatapultCache` |
| `Harvesting` | the harvesting task | composed with the two above |
| `MCHarvesting` | | transactions and chains |
| `HarvestingProofs`, `UnconfirmedTheorems` | | theorems about locks and deltas; about unconfirmed transactions and harvested blocks |
| `SequenceOps` | | the operators on sequences that the last two groups use |

Definitions commented as *Mutant* are deliberately wrong versions of another definition. Each stands for a plausible slip
in the code; in the place of the right one it makes TLC report the property that should notice. `PROJECT.json` pairs them,
and maps every definition to the lines it models.

### ConsumerDispatcher

State: the slots of the circular buffer, the barriers, each consumer's own position, the memory counter, and where every
thread is. A producer that holds `m_addSpinLock` takes three steps: `Reserve` (both checks and the reservation), `Push`
and `Publish`. `Reject` is the full dispatcher. A consumer thread takes `Loop`, `TryNext`, `Consume`, `Advance` and, if
it is the last one, `Inspect` and `MarkProcessingComplete`. Histories of what was called with which element are kept to
state the properties. Positions grow without bound here; they are `size_t` in the code.

### BlockCommit

A block is the number of the commit that made it, a chain is a sequence of blocks, and a state (of a cache, of the
state directory, of the broker's database) is the chain whose execution gives it. Every write of `commitAll`, of
`SaveStateToDirectoryWithCheckpointing` and of the recovery process is an action; `pc` says which comes next. `Crash`
drops the memory and, in the mode without a cache database, the caches. `CrashPoints` says where a process may be
killed.

Assumptions:
- after a crash the operator runs recovery, and runs it again while a `.lock` file is left; the lock of a killed recovery
  process is removed by hand;
- a server that finds different heights at boot ends and leaves its lock;
- an exception that leaves a consumer ends the process without unwinding (`TerminateHandler` aborts);
- the broker is in use (`index_broker_r.dat` exists) and handles a message in one step; its operations are idempotent
  while recovery runs;
- the broker is told of blocks directly, and of state changes through the queue;
- purging a directory, and writing an index file, are single steps;
- verifiable state is used only with a cache database.

`SafeWindows`, the crash points of the passing run and of the theorems, is not every point. It leaves out
- the windows of the two violations below;
- `renameState`: `moveTo` purges `state` before it renames `state.tmp`; killed in between, recovery finds no state, takes
  it for a reseed and throws;
- in the recovery process: the second and third step of `RepairState` (applying the interrupted commit's messages, setting
  the reader index), and everything from the move of the state directory to the end of the move of the staged blocks. TLC
  shows that the next recovery can fail after a crash there. No text of the repository promises that recovery may be
  interrupted.

Without a cache database the state directory dates from the last shutdown; when blocks below that height are rolled back
and the server crashes, recovery executes the new blocks on a state of the old ones, and TLC finds a running node that is
not consistent. `MaxMemoryRollback = 0` keeps the memory mode to chains that extend the local one.

Not in the model: importance files, the queues that recovery leaves alone, and the first boot of a new node.

`AtomicLedger` promises that a chain replaces the end of the previous one in a single step and is never lost, and that
an observer sees all of them in order. The refinement mapping of `BlockCommit` counts the staged blocks as part of the
chain from `State_Written` on.

### RoundContext, RoundMessageAggregator

A block stands for its (height, hash) pair, and blocks are numbered in the order of the pairs. `RoundContext` has the
hash tree as it is built: a block keeps the parent with which it was inserted first, so whether two branches are
connected depends on the order of the prevotes. `RoundMessageAggregator` adds any message that voters may send, in any
order. Voters prevote a branch from a block of `Starts` and precommit blocks that a quorum of prevotes can name.
Signatures are taken as valid.

`CompletedRoundIsBounded` is stated for trees that are *whole* (`IsWhole`). A prevote that starts at a block which is not
in the tree yet inserts it without its parent, and `addBranch` leaves it so when a longer branch comes; `isDescendant`
then misses it, and `isCompletable` lets a voter leave the round although `RoundContext.cpp:100` says "if any `best
prevote` descendant can reach precommit threshold, round is not yet completable". An instance: five voters of weights 35,
15, 20, 20, 10 and the chain 1-2-3; the last voter prevotes {3}, the second {1}, the first and the third {1, 2, 3}, the
first precommits 3. The best prevote is 1, the round is completable and has no estimate; the fourth voter's prevote then
makes 3 the best prevote. Four voters of equal weight never get there, and the property holds for them in every tree.

### Finalization

Every voter has its voting status, the round and the proof it booted with, and its proof storage. All messages ever sent
are in one set. What a node's aggregator holds is not stored: each step picks anew any subset of the messages sent, at
most one of every voter, round and stage. This covers loss, delay and reordering, and it allows more than the code
does, since a real aggregator does not forget; safety that holds here holds with aggregators that remember. One fact is
kept: of a round that a node has left since it booted it holds enough to make the round completable. By
`CompletedRoundIsBounded` this never changes in a whole tree, and with the voters and blocks of the configurations in
every tree.

`poll` is split into `SendPrevote`, `SendPrecommit`, `StartNextRound` and `Finalize`, because messages come in while it
runs. The finalizer of a poll that has too few messages does nothing, and that is a poll without `Finalize`.
The waits of the stage advancer are left out: enough time may always have passed.

`Finalize` saves the best precommit, or does nothing when it is as high as the stored proof; when it is lower,
`saveProof` throws, which ends the process, and the node boots again. A node that booted holds other messages than before, so
this does happen.

`Restart` stops a node between two polls. `LoseSave` stops it after a vote has left and before `voting_status.dat` is
written. Only nodes in `Crashing` do so. `EnableRevoteOnBoot` is off, as in the shipped configuration. One epoch is
modelled; `prune` and `setEpoch` are in `FinalityProofs`.

### FinalityProofs

One voting node with its finalization task (`PollStatistics` to `Finalize`, the backup of a prevote included), its proof
task (`PullStatistics` to `PullNothing`), the save of a proof that both call (`SaveProof`, `WriteProof`, `WriteIndex`,
`Notify`), its chain and its files. `Decided` lists the rounds that the network finalizes and the heights that proofs of
them can have; the messages of the other voters are abstracted to that. The sync consumer is there as far as finalization
meets it: `Synchronize` moves along the finalized chain; `PreprocessFork` reads the last finalized block and begins a change
to another chain, and `Fork` commits or refuses it, whatever was finalized in between, so that finalized blocks may be rolled
back as they may in the code. `Crash` stops the node between any two writes, and `Boot` reads the files
again. An exception that nobody catches ends the process (`Terminate`).

What writing the model showed and no property states: an uncaught exception of the finalization task ends the process;
`FinalizationProofSynchronizer` catches `catapult_runtime_error` only, so `saveProof`, which throws
`catapult_invalid_argument`, ends the chain of pulls; a best precommit that is lower after a boot than the saved proof
gives a node that ends at every start; and a proof that is written again leaves a cut file when the node is killed in the
write.

### BlockchainSync, ChainSynchronizer

A chain is the sequence of the scores of its blocks, and a block (or its hash) is the chain that ends in it, so that equal
hashes have equal ancestors. The dispatcher is a queue of elements with their completion status; `ConsumerDispatcher` is
its detail. As there, the last consumer frees the slot of an element (`Advance`) before the completion handler runs
(`Complete`), and a range may be pushed in between. `AddElement` is one step: `add` keeps its lock across the push, and
`remove`, which the completion handler calls, waits for that lock.
The sync consumer takes three steps, `ReadLocalFinalized`, `ReadNetworkFinalized` and `Sync`, because
`preprocess` reads both finalized heights before it takes the storage lock; proofs are saved in between.

The synchronizer is the `task`: the comparison reads the lower bound, the local height and the local score one after the
other, asks the peer for its statistics, and then asks for batches of hashes until the first difference is found.
`TryContinue` is the binary search. A pull ends with `AddElement`. `stable` is a history field: it says that no chain and
no proof has changed since the comparison began, which is when its result can be exact.

`CompareExact` is stated for peers whose chain is at most one batch of hashes (`HashesPerBatch`,
`maxHashesPerSyncAttempt`) shorter than the local one. The proof needs it and the code does not have it: the search
halves the heights up to `m_upperBoundHeight`, which is the local height, and may ask the peer for hashes above the
peer's chain. The peer returns none, and a peer with a better, much shorter chain is classified as
`Remote_Returned_Too_Many_Hashes`. TLC finds it with nine blocks of score 1 against `<<1, 1, 1, 9>>` and batches of
three. `CatchesUp` has the same limit and is checked on chains within it.

### Locks, cache, unconfirmed transactions, harvesting

`LockWord` has the three bit fields of `SpinReaderWriterLock` as a record, and one operator per compare and exchange or
subtraction. `SpinReaderWriterLock` lets any number of threads use one lock as its guards allow. In `CatapultCache` every
thread has guards on every lock (one per sub cache, the height, the storage, the unconfirmed transactions), and `at` says
where in its program it is; loops over the sub caches are loops in the model. What a sub cache holds is the chain it was
committed for.

`UnconfirmedTransactions` has the thread of the block dispatcher (commit, then rebase of the unconfirmed state) and that
of the transaction dispatcher (add new ones). A state is the set of transactions applied; `Requires` and `Conflicts` say
which transaction is valid on which. `Harvesting` adds the task that reads the last block, opens a facade, selects,
builds, reads the storage again and hands the block to the dispatcher. Which account has a hit, which valid transactions
are selected, and what the spam throttle makes of fees are choices.

Two comments differ from the code beside them, without consequence for a property: the note of `promoteToWriter`
(`utils/SpinReaderWriterLock.h`) warns of a deadlock of concurrent promotions, but a promotion gives its reader up when
it marks itself as a writer, so the promotions take turns; and `MemoryUtCacheUtils.cpp:75` says stable sort where
`std::sort` is called. A full dispatcher leaves the pending flag of the harvester set (`dropped`); `HarvestingResumes` is
stated for blocks that the dispatcher took.


## Runs

| run | instance | shows |
| --- | --- | --- |
| `dispatcher` | 2 consumers, 3 slots, memory 4, sizes 1 and 2, 4 elements | elements in use are not overwritten, complete once and in order, memory is accounted for, aborted elements bypass later consumers, accepted elements complete, shutdown ends every thread |
| `commit` | with and without a cache database, 2 caches, rollbacks of 2, height 4, 2 commits, 2 crashes | recovery succeeds, the running node is consistent, the broker catches up, `BlockCommit` implements `AtomicLedger`, the node always runs again |
| `crash_moving_blocks`, `crash_publishing_index` | one crash in one window | violations, see below |
| `round_messages` | 4 voters of weight 25, 5 blocks on forks, prevotes from 3 starts | weights do not depend on the order; best precommits only move up; a completed round is bounded by its estimate |
| `finalization` | weights 40, 30, 30, 2 rounds, 2 forks, the heaviest voter restarts once between two polls; no save is lost (`MaxLostSaves = 0`) | agreement; who precommits in the second round covers all that the first can still finalize |
| `finalization_round` | 4 voters of weight 25, 1 round; one stops up to twice between a vote and the save of its voting status | agreement although one voter votes twice |
| `finality_proofs` | epochs of 3 blocks, two decided rounds, one fork, one crash | the storage never goes back, an epoch is left with its proof unless it was jumped, a prevote has its backup, the node reaches the epoch of the network |
| `epoch_proof_gap` | epochs of 2 blocks, a later decision of the network, no fork, no crash | violation, see below |
| `chain_sync` | 7 blocks against two forks, 1 peer, 2 events, 1 fault, batches of 3 hashes and 2 blocks | the elements match the dispatcher, comparisons are exact, only better chains are taken, finalized blocks stay, a synchronizer is never stuck, the node catches up |
| `finalized_rollback` | a proof between two reads | violation, see below |
| `harvesting` | 2 sub caches, 4 transactions that depend and conflict, 2 peer chains, 1 batch, 1 harvest | locks exclude, a commit is seen whole or not at all, deltas are of one chain, the unconfirmed state is current, no valid transaction is lost, harvested blocks are valid, no thread waits for ever |

`PROJECT.json` names the properties of each run, and for each hazard of the code the properties that watch it, or why none
does: the crash windows that `commit` leaves out, the wrap of the quorum's product, the cut rewrite of a proof and the full
dispatcher of the harvester are described there and here, and no property is claimed of them.

### Why the bounds are enough to be interesting

- *Dispatcher.* With 3 slots and 4 elements the buffer wraps; with 2 consumers there is a first one that is not the last.
  Memory 4 refuses inputs before the slots do.
- *Commit.* Two commits and two crashes give a crash in the recovery from a crash, and a commit after a recovery. Rollbacks
  replace up to 2 blocks of a chain of 2 to 4.
- *Round.* 67 of 100 needs three of four voters, so one missing or conflicting vote matters. Two forks above one block, and
  starts at different heights, make the insertion order of the tree matter.
- *Finalization.* Two rounds are the least in which an estimate is carried. With 40, 30, 30 only the heaviest voter and one
  other are a quorum, so every pair of quorums shares it, and it is the one that restarts. Symmetry permutes voters of
  equal weight and equal role only.
- *Finality proofs.* A round that ends an epoch and one of the next epoch are the least in which a node can be an epoch
  behind; the first round has proofs of two heights, so that one of them can be overtaken by the other.
- *Chain synchronizer.* Seven blocks and batches of three hashes take the binary search up and down; forks after block 3
  and block 1 are below and above the finalized block; pulls of two blocks take several continuations, with room for two
  elements.
- *Harvesting.* With two sub caches there is a moment when one is committed and the other is not. One transaction needs
  another and two exclude each other, so that order and rollback matter.

### Deadlock and fairness

The dispatcher, the two finalization runs and `harvesting` switch the deadlock check off: the bounds on elements, rounds
or inputs end a run, and a dispatcher that was shut down stops. The other runs keep it on.

- *Dispatcher.* Consumer threads are scheduled by the operating system and consumers return: weak fairness for each thread,
  and for a producer inside the spin lock. Nothing obliges a producer to push or anyone to call `shutdown`.
- *Commit.* A process that is not killed goes on, and the operator starts recovery or the server again, also after a clean
  shutdown (`WF_vars(Progress)`). Nothing is assumed of commits, of the broker or of crashes, of which there are at
  most `MaxCrashes`.
- *Finality proofs.* Both tasks are rescheduled by timers, so each has weak fairness; the network decides and the chain
  synchronizes in the end (`Synchronize \/ Fork`).
  `PullProof` has strong fairness: a pull goes to a peer that is picked at random, and again and again it is one that has
  the proof.
- *Chain synchronizer.* Weak fairness for the dispatcher's thread and for a synchronization that has begun; the task is
  rescheduled for ever and picks peers at random, hence strong fairness for beginning one with each peer.
- *Harvesting.* Some thread that can go on does (`WF_vars(Step)`). This is weaker than fairness of each thread; the spin
  locks are acquired by whoever comes first.

## What the code does otherwise than it says

- `crash_moving_blocks`. Comment at `consumers/BlockchainSyncConsumer.cpp:317`, on the state after `State_Written`: "both
  blocks and state have been written out to disk and can be fully restored". A rollback cuts the block storage back before
  the state directory follows; killed in between, the state is higher than the storage and `CalculateStateRecoveryMode`
  throws.
- `crash_publishing_index`. Comment at `local/recovery/RepairSpooling.cpp:98`: "data in range (index.dat,
  index_server.dat] is safe to ignore". `commit_step.dat` becomes `All_Updated` before `index.dat` is set; killed in
  between, recovery drops the state change of a finished commit and the broker never sees it.
- `epoch_proof_gap`. `openapi/spec/core/finalization/routes/getFinalizationProofAtEpoch.yml:4`: "Returns the finalization
  proof for the greatest block height associated with the given finalization epoch." `calculateEpochStatus` goes past the
  epoch of the storage even when the last proof is one in the middle of that epoch. A node that gets two proofs between two
  polls leaves the epoch like that, and the stored proof stays the one for the lower block.
- `finalized_rollback`. `mkdocs/pages/en/textbook/consensus.md:67`: "Once a block is finalized, it is guaranteed to remain in
  the chain and will never be rolled back". The sync consumer reads the finalized height before it takes the storage lock; a
  proof that is saved in between finalizes a block that the commit then rolls back. `FinalizedKept` is what does hold: a
  commit keeps the block that was finalized when the consumer read it.

## What is proved

The theorems hold for every value of the constants that satisfies the assumptions named with them: any number of consumers,
caches, commits, crashes, voters, blocks, peers, transactions. A theorem says that a property of a run, under the same
name, follows from the specification. `PROJECT.json` lists them.

### Dispatcher

`TypeCorrect`, `InUseIntact`, `InOrder`, `MemoryCorrect`, `AbortedElementsBypass`. Assumptions are those that the
configuration has: at least one consumer, one slot, a positive memory limit, inputs of positive size. None of the
properties is inductive. The inductive invariant `IInv` adds:

- `Pipelined`: barrier *l + 1* is the position of consumer *l*, barriers fall with the level, and a thread works only below
  its barrier;
- `SpareSlotKept`: between the last barrier and the first there is always one slot more than the elements in flight need;
- `LiveSlotsIntact`: from the position before the last barrier on, every slot holds what was pushed to its position;
- `HistoryFollowsBarriers`: how many elements were inspected and completed, by where the last consumer's thread is;
- `TotalsGrow`: the cumulative sizes that stand for the memory of a range of elements.

The last consumer releases its barrier before it runs the inspector, so the slot it still reads counts as free.
`SpareSlotKept` says that the producer stops one element earlier, so by `SlotsDiffer` (positions less than one turn apart
use different slots) `Push` never hits that slot. What the inspector and the completion handler read is then the element of
their position, which gives the order, and its size, which gives the memory. For aborted elements `CallsFollow` says which
consumers have been called with the element at a position, from the barriers and the slot's flag.

### Block commit

`NodeRunsConsistently`, `BrokerFollows`, `RecoveryNeverGivesUp`, and `CommitsAreAtomic`, the refinement of `AtomicLedger`.
All assume `Survivable`: crashes only in `SafeWindows`, and no rollback without a cache database. The violations and the
exclusions above are what happens otherwise.

The inductive invariant describes the disk at every value of `pc`: which commit step is on disk (`StepInv`), which chains
were ever committed (`LogInv`), what is staged and on top of which block (`StagedInv`), which chain the storage holds,
part of the staged one included (`ChainInv`), what the broker was told (`BrokerChainInv`, `SpoolInv`), which chain each
cache and each directory is the state of (`CacheInv`, `DirInv`). The consequence that matters is that from any crash point
recovery finds the old ledger or the new one. `BlockCommitProofs` has the actions of the server, `BlockCommitTheorems` those of
recovery, broker and crash, one lemma each. For the refinement every step but the one that writes `State_Written` leaves the
ledger alone, and `Told`, what the broker knows, only moves forward in the log.

### Rounds and agreement

`WeightsStayMatched` needs no assumption on the weights. The proof follows the order of the code: a prevote adds its weight
to every new candidate of its branch, and a candidate that appears takes the precommits which wait for it.
`BestPrecommitStays` and `CompletedRoundsAreBounded` assume that two quorums intersect
(`2 * CalculateWeightedThreshold > TotalWeight`). The invariant `RoundInv` (messages, tree, weights) makes the candidates
with a quorum a chain, of which `lastMatch` takes the last one; weights only grow. `CompletedRoundsAreBounded` is about whole
trees, see above.

`NodesAgree` is about an epoch of one round (`MaxPoint = 1`), `RoundsAgree` about proofs of equal rounds in an
epoch of any length. Both assume `SafeConfiguration`: two quorums have more weight in common than the voters
that may lose a save, and a prevote is not cut to nothing (`PrevoteBlocksMultiple <= MaxHashesPerPoint`, which the code
does not validate). The invariant says that a voter which does not lose saves has sent one prevote and one precommit per
round, and its precommit is backed by a quorum of prevotes; two precommit quorums share such a voter.

Agreement over several rounds is not a theorem of the model: a voter with 30 of 100 that loses a save in each of two rounds
breaks it, since it may support one fork in the first round and forget its estimate before the second. It is checked for
the instance of `finalization`, where saves are not lost. `PrecommitsCoverEarlierRounds` is the reason why it holds there: all
that an earlier round can still finalize, with messages that are sent later too, is below what a voter precommits that has been
up since. It fails when a voter leaves a round without
`isCompletable`.

### Epochs

`RoundsStayInOrder`, `StatisticsOnlyAdvance`, `PrevotesStayBackedUp` (with `enableRevoteOnBoot` off, the default) and
`EpochsStayProven`. Assumed of the network (`DecidedAssumption`): a proof of an epoch is not above the last block of that
epoch, which `RoundMessageAggregator.cpp` enforces for the messages a node takes. `IInv` orders the rounds of the status, the
aggregator, the statistics read by each task and the storage. `BInv` adds which backups are complete. `EInv` adds that
what a task has read is not newer than what is stored, that an epoch on disk was reached by the proofs on disk, and which
files a crash can have cut.

### Chain synchronizer

`ElementsStayMatched`, `ContinuesOnlyAccepted`, `FinalizedBlockStays`, `ChainOnlyImproves`, `CompareIsExact`. Assumptions:
chains are sequences of natural scores that start with the nemesis block and are closed under prefixes, and a batch has more
than two hashes. There are three invariants:

- `IInv`: an increasing function places the elements in the queue (`RangesInQueue`), a task continues the last element or
  an accepted one (`Continues`);
- `ChainInv`: chains, queued blocks and blocks under way are linked, and the finalized blocks that the consumer has read are
  in order (`ConsumerInv`). Linked blocks are prefixes of the last one, and scores are sums, so comparing scores above the
  common block compares the chains;
- `SearchInv`: while nothing changed under a comparison, what it read is current (`ReadCurrent`), and the last common block is
  between the bounds of the search (`SearchBounded`). Equal hashes have equal ancestors, so a batch that agrees at its
  first hash and differs later contains the end of the common part (`BatchesMeet`), and the other cases move one bound.

### Locks, unconfirmed transactions, harvesting

`LocksAreExclusive` is about the lock alone: threads that use locks in pairs exclude each other, in whatever
order they do so (`WordMatches`: the word counts the guards of the three threads). The lemma `LocksAreUsedInPairs` says that
the three threads do so, by writing down for every point of their programs which guards they hold (`GuardsFollow`);
`ThreadsExclude` composes the two.

`CommitsAreSeenWhole` rests on them (`CommitAlways`): where the block thread is before or after a commit (`Settled`), the sub
caches, the height and the storage are those of one chain; while it commits (`CommitPoints`) it writes the height, and until it
has committed the storage it writes that, so that nobody else holds either.

`DeltasAreOfOneChain`
follows from `DeltaInv`: how far a commit under way has come in the sub caches (`CachesInStep`), that a delta with a current
counter is of the current chain (`UnconfirmedDeltaOld`), and that the facade's lock of the height keeps commits out
(`FacadeCurrent`).

`UnconfirmedStaysCurrent` and `HarvestedBlocksAreValid` extend it with `UnconfirmedInv`: what an update under way has applied
and told the subscriber so far, and that a set of transactions which was valid in its order stays so. A harvested block is
valid on its parent since the facade is at the parent's height; the exception in the property is a chain that was exchanged for
another of the same height before the facade was opened, where the block is refused.

### Only model-checked

- Liveness, for which the prover has no rules here: `EventuallyCompleted`, `EventuallyStopped`, `EventuallyRunning`,
  `EpochCatchesUp`, `SyncAvailable`, `CatchesUp`, `RebaseFollowsCommit`, `OperationsEnd`, `HarvestingResumes`.
- `TypeOK` of `ChainSynchronizer`, whose heights are bounded by the chains of the instance.
- `NoTransactionLost`, which is not true of every instance: a transaction whose requirement comes later in the same batch is
  dropped, although it is valid in the end.
- `Agreement` over several rounds and `PrecommitsCoverEarlierRounds`, see above.

## What is not modelled

The repository has about 150 000 lines, most of them pure functions, input and output, generated code, clients and
documentation. The models cover the concurrent and crash sensitive core. `PROJECT.json` lists every part with its status.

- *File queues, range batching, rollback statistics*: the `state_change` queue stands for the others; the dispatcher takes any
  sequence of inputs; statistics are shown only.
- *Partial transactions, unlocked accounts*: caches and locks of the kinds that `UnconfirmedTransactions` has; cosignature
  rules and the delegation file would need modules of their own.
- *Delta sets, patricia trees*: sequential structures below the locks of the sub caches.
- *Node and connection containers, discovery, sockets, TLS, thread pools*: driven by the network library and by wall clock
  time; the models take any choice of peer and any interleaving.
- *Time synchronization*: filters in floating point.
- *Plugins, validators, observers*: a block or a transaction is the state change it makes.
- *Cryptography, voting keys, VRF*: a signed message is taken as sent by its signer.
- *MongoDB and ZeroMQ, REST, SDKs, catbuffer, OpenAPI, documentation, build scripts*: input and output, encoders,
  generators, or no state at run time.
