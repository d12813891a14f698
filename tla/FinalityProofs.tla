--------------------------- MODULE FinalityProofs ---------------------------
(* How a voting node passes from one finalization epoch to the next: the     *)
(* finalization task (poll) votes and saves the proofs it can make from the  *)
(* messages it holds, the proof task (pull) fetches the proofs of its peers, *)
(* and both write the proof storage, which decides the epoch. A node may     *)
(* stop at any moment and boots from its files.                              *)
EXTENDS Integers, Sequences, FiniteSets, FiniteSetsExt

CONSTANTS
    VotingSetGrouping,
    PrevoteBlocksMultiple,
    MaxHashesPerPoint,
    UnfinalizedBlocksDuration,
    EnableRevoteOnBoot,
    Decided,        \* the rounds in which the network finalizes blocks, each with the heights its proofs may have
    ForkHeight,     \* the last block of both chains of the network
    Heights,        \* the heights at which the local chain is observed
    VotingRounds,   \* bound: the rounds in which the node comes to vote and which it may leave
    MaxForks,       \* bound: changes to the chain that is not finalized
    MaxCrashes      \* bound: stops from outside

Decisions == [round : Nat \X Nat, heights : (SUBSET (Nat \ {0})) \ {{}}]

ASSUME FinalityAssumption ==
    /\ VotingSetGrouping \in Nat \ {0}
    /\ PrevoteBlocksMultiple \in Nat \ {0}
    /\ MaxHashesPerPoint \in Nat \ {0}
    /\ UnfinalizedBlocksDuration \in Nat
    /\ EnableRevoteOnBoot \in BOOLEAN
    /\ Heights \subseteq Nat \ {0}
    /\ Decided \in Seq(Decisions)

VARIABLES
    decided,        \* number of rounds of Decided that have taken place
    chain,          \* local chain: its height, whether it is the finalized one, how often it was left, and whether
                    \* the sync consumer is about to leave it
    proofs,         \* the proof files by epoch
    index,          \* proof.index.dat, the statistics of the proof storage
    statusFile,     \* voting_status.dat
    backups,        \* directories of prevoted chains, at most one for each round
    status,         \* m_votingStatus of the orchestrator
    aggregator,     \* MinFinalizationRound, MaxFinalizationRound and, for each round that has messages, the
                    \* proof of its best precommit (height 0: there is none yet)
    task,           \* what the poll and the pull task are doing
    jumped,         \* history: the orchestrator went past an epoch whose last block was not final
    crashes

diskVars == <<proofs, index, statusFile, backups>>
vars == <<decided, chain, diskVars, status, aggregator, task, jumped, crashes>>

-----------------------------------------------------------------------------
(* Rounds, epochs and heights. *)

RoundLess(a, b) == a[1] < b[1] \/ (a[1] = b[1] /\ a[2] < b[2])

VotingSetEndHeight(epoch) == IF epoch = 1 THEN 1 ELSE (epoch - 1) * VotingSetGrouping

\* The aggregator refuses messages above the end of their epoch, so that no proof has them.
ASSUME DecidedAssumption ==
    \A k \in DOMAIN Decided : \A height \in Decided[k].heights : height <= VotingSetEndHeight(Decided[k].round[1])

\* Mutant: a group is taken to end one block later.
GroupedHeightLate(height) == Max({1, (height \div VotingSetGrouping) * VotingSetGrouping})

GroupedHeight(height) == Max({1, ((height - 1) \div VotingSetGrouping) * VotingSetGrouping})

EpochForHeight(height) ==
    IF height <= 1
    THEN 1
    ELSE 1 + height \div VotingSetGrouping + (IF height % VotingSetGrouping = 0 THEN 0 ELSE 1)

\* The finalized block at height is a block of the local chain.
Contains(height) == chain.height >= height /\ (chain.main \/ height <= ForkHeight)

Proof(round, height) == [round |-> round, height |-> height]
NemesisProof == Proof(<<1, 1>>, 1)
Missing == Proof(<<0, 0>>, 0)       \* no proof of the epoch has been written
Truncated == Proof(<<0, 1>>, 0)     \* the proof file was opened for writing, and the proof not written yet

MaxEpoch == Max({1} \cup {Decided[k].round[1] : k \in DOMAIN Decided}) + 1
MaxPoint == Max({r[2] : r \in VotingRounds \cup {Decided[k].round : k \in DOMAIN Decided}}) + 1
Rounds == (1 .. MaxEpoch) \X (1 .. MaxPoint)

\* The proofs that the network can make.
ProofsOf(k) == {Proof(Decided[k].round, height) : height \in Decided[k].heights}
KnownProofs == UNION {ProofsOf(k) : k \in 1 .. decided}

-----------------------------------------------------------------------------
(* Booting. *)

Idle == [step |-> "idle"]

\* HasSentPrecommit is left out: a precommit and the next round need the same messages.
VotingStatus(round) == [round |-> round, prevote |-> FALSE]

\* The voting status with which the orchestrator is created.
BootStatus ==
    IF EnableRevoteOnBoot THEN VotingStatus(<<index.round[1], index.round[2] + 1>>) ELSE statusFile

Init ==
    /\ decided = 0
    /\ chain = [height |-> Min(Heights), main |-> TRUE, forks |-> 0, forking |-> FALSE]
    /\ proofs = [epoch \in 1 .. MaxEpoch |-> IF epoch = 1 THEN NemesisProof ELSE Missing]
    /\ index = NemesisProof
    /\ statusFile = VotingStatus(<<2, 1>>)
    /\ backups = {}
    /\ status = BootStatus
    /\ aggregator = [min |-> index.round, max |-> index.round, held |-> {}]
    /\ task = [poll |-> Idle, pull |-> Idle]
    /\ jumped = FALSE
    /\ crashes = 0

IsDown == task.poll.step = "down"

\* The process ends: what it had in memory is lost.
Terminate ==
    /\ task' = [poll |-> [step |-> "down"], pull |-> [step |-> "down"]]
    /\ UNCHANGED <<diskVars, status, aggregator>>

Boot ==
    /\ IsDown
    /\ status' = BootStatus
    /\ aggregator' = [min |-> index.round, max |-> index.round, held |-> {}]
    /\ task' = [poll |-> Idle, pull |-> Idle]
    /\ chain' = [chain EXCEPT !.forking = FALSE]
    /\ UNCHANGED <<decided, diskVars, jumped, crashes>>

-----------------------------------------------------------------------------
(* Saving a proof. The storage is locked from the first write until the subscribers have been told. *)

Tasks == {"poll", "pull"}
Goto(t, step) == task' = [task EXCEPT ![t] = step]
Locked == \E t \in Tasks : task[t].step \in {"write", "index", "notify"}

\* The first of a set of rounds.
FirstRound(rounds) == CHOOSE r \in rounds : \A s \in rounds : ~RoundLess(s, r)

\* Mutant: the aggregator goes on with the round after its last one.
PruneAfterMax(epoch) ==
    LET held == {m \in aggregator.held : m.round[1] >= epoch}
    IN aggregator' = [aggregator EXCEPT !.held = held, !.min = <<aggregator.max[1], aggregator.max[2] + 1>>]

\* prune
Prune(epoch) ==
    LET held == {m \in aggregator.held : m.round[1] >= epoch}
    IN aggregator' = [aggregator EXCEPT
           !.held = held,
           !.min = IF held = {} THEN aggregator.max ELSE FirstRound({m.round : m \in held})]

\* After saveProof the finalizer prunes the aggregator; the proof task is done.
AfterSave(t) ==
    /\ IF t = "poll" THEN Prune(task[t].proof.round[1] - 1) ELSE UNCHANGED aggregator
    /\ Goto(t, Idle)

\* An exception that leaves the finalization task ends the process. The proof task catches catapult_runtime_error, and
\* saveProof throws catapult_invalid_argument: the task is not scheduled again.
Throw(t) ==
    IF t = "poll"
    THEN Terminate
    ELSE Goto(t, [step |-> "stopped"]) /\ UNCHANGED <<diskVars, status, aggregator>>

\* Mutant: only the epoch is compared with that of the storage.
CanSaveAnyHeight(proof) == proof.round[1] <= index.round[1] + 1

\* FileProofStorage accepts the proof.
CanSave(proof) ==
    /\ ~RoundLess(proof.round, index.round)
    /\ proof.round[1] <= index.round[1] + 1
    /\ proof.height >= index.height

SaveProof(t) ==
    /\ task[t].step = "save"
    /\ ~Locked
    /\ LET proof == task[t].proof IN
       \/ /\ RoundLess(proof.round, index.round)
          /\ AfterSave(t)
          /\ UNCHANGED <<diskVars, status>>
       \/ /\ ~RoundLess(proof.round, index.round)
          /\ ~CanSave(proof)
          /\ Throw(t)
       \/ /\ ~RoundLess(proof.round, index.round)
          /\ CanSave(proof)
          /\ proofs' = [proofs EXCEPT ![proof.round[1]] = Truncated]
          /\ Goto(t, [task[t] EXCEPT !.step = "write"])
          /\ UNCHANGED <<index, statusFile, backups, status, aggregator>>
    /\ UNCHANGED <<decided, chain, jumped, crashes>>

WriteProof(t) ==
    /\ task[t].step = "write"
    /\ proofs' = [proofs EXCEPT ![task[t].proof.round[1]] = task[t].proof]
    /\ Goto(t, [task[t] EXCEPT !.step = "index"])
    /\ UNCHANGED <<decided, chain, index, statusFile, backups, status, aggregator, jumped, crashes>>

WriteIndex(t) ==
    /\ task[t].step = "index"
    /\ index' = task[t].proof
    /\ Goto(t, [task[t] EXCEPT !.step = "notify"])
    /\ UNCHANGED <<decided, chain, proofs, statusFile, backups, status, aggregator, jumped, crashes>>

RemoveBackup(round) == backups' = {b \in backups : b.round # round}

\* The backup of the round has the finalized block.
BackupContains(proof) ==
    \E b \in backups :
        /\ b.round = proof.round
        /\ proof.height \in b.first .. b.last
        /\ b.main \/ proof.height <= ForkHeight

\* FinalizationPatchingSubscriber: the blocks of the backup are pushed to the block dispatcher, and the backup is
\* removed; loading a backup without an index throws.
Notify(t) ==
    /\ task[t].step = "notify"
    /\ LET proof == task[t].proof
           isPatched == ~Contains(proof.height) /\ BackupContains(proof)
       IN IF isPatched /\ \E b \in backups : b.round = proof.round /\ ~b.indexed
          THEN Throw(t)
          ELSE /\ RemoveBackup(proof.round)
               /\ AfterSave(t)
               /\ UNCHANGED <<proofs, index, statusFile, status>>
    /\ UNCHANGED <<decided, chain, jumped, crashes>>

-----------------------------------------------------------------------------
(* The finalization task. *)

\* calculateEpochStatus reads the statistics ...
PollStatistics ==
    /\ task.poll.step = "idle"
    /\ ~Locked
    /\ Goto("poll", [step |-> "epoch", statistics |-> index])
    /\ UNCHANGED <<decided, chain, diskVars, status, aggregator, jumped, crashes>>

\* Mutant: the epoch of the storage is not compared with that of the orchestrator.
EpochStatusSameEpoch(epoch, statistics) ==
    IF statistics.height # VotingSetEndHeight(epoch)
    THEN "Continue"
    ELSE IF Contains(statistics.height) THEN "Advance" ELSE "Wait"

\* ... and compares them with the local chain.
EpochStatus(epoch, statistics) ==
    IF statistics.round[1] <= epoch /\ statistics.height # VotingSetEndHeight(epoch)
    THEN "Continue"
    ELSE IF Contains(statistics.height) THEN "Advance" ELSE "Wait"

\* setMaxFinalizationRound is called only to raise the maximum.
SetMaxFinalizationRound(round) ==
    aggregator' = IF RoundLess(aggregator.max, round) THEN [aggregator EXCEPT !.max = round] ELSE aggregator

\* setEpoch and setMaxFinalizationRound, which RoundsInOrder shows not to throw.
PollEpoch ==
    /\ task.poll.step = "epoch"
    /\ LET statistics == task.poll.statistics
           epochStatus == EpochStatus(status.round[1], statistics)
           newEpoch == statistics.round[1] + 1
           newStatus == IF epochStatus = "Advance" /\ newEpoch # status.round[1]
                        THEN VotingStatus(<<newEpoch, 1>>)
                        ELSE status
       IN \/ /\ epochStatus = "Wait"
             /\ Goto("poll", Idle)
             /\ UNCHANGED <<status, aggregator, jumped>>
          \/ /\ epochStatus # "Wait"
             /\ status' = newStatus
             /\ jumped' = (jumped \/ (newStatus # status /\ statistics.height # VotingSetEndHeight(newEpoch - 1)))
             /\ SetMaxFinalizationRound(newStatus.round)
             /\ Goto("poll", [step |-> "vote"])
    /\ UNCHANGED <<decided, chain, diskVars, crashes>>

\* A prevote may be due, when a timer has elapsed, or not. createPrevote reads the statistics ...
PollPrevote ==
    /\ task.poll.step = "vote"
    /\ ~status.prevote /\ status.round \in VotingRounds
    /\ ~Locked
    /\ Goto("poll", [step |-> "backup", first |-> index.height])
    /\ UNCHANGED <<decided, chain, diskVars, status, aggregator, jumped, crashes>>

Clamp(value) == (value \div PrevoteBlocksMultiple) * PrevoteBlocksMultiple

\* The last block of a prevote that starts at first: the numHashes of loadPrevoteHashChain, as far as the chain has them.
LastPrevoteHeight(first, epoch) ==
    LET tip == IF chain.height >= PrevoteBlocksMultiple THEN chain.height - PrevoteBlocksMultiple ELSE chain.height
        numHashes == Max({0, Clamp(Min({tip, VotingSetEndHeight(epoch)})) - first}) + 1
        excess == Clamp(Max({0, numHashes - MaxHashesPerPoint}) + PrevoteBlocksMultiple - 1)
    IN Min({chain.height, first + numHashes - excess - 1})

\* ... and locks the block storage to save the chain it votes for: the directory, the blocks, the index.
CreateBackup ==
    /\ task.poll.step = "backup"
    /\ LET first == task.poll.first IN
       /\ backups' = {b \in backups : b.round # status.round}
                     \cup {[round |-> status.round, first |-> first, last |-> first - 1, main |-> chain.main,
                            indexed |-> FALSE]}
       /\ Goto("poll", [step |-> "blocks", last |-> LastPrevoteHeight(first, status.round[1])])
    /\ UNCHANGED <<decided, chain, proofs, index, statusFile, status, aggregator, jumped, crashes>>

\* The directory that the poll task writes to; the proof task may have removed it.
CurrentBackups == {b \in backups : b.round = status.round}

\* Mutant: the prevote is sent before the backup is complete.
WriteBackupBlocksAndVote ==
    /\ task.poll.step = "blocks"
    /\ IF CurrentBackups = {}
       THEN Terminate
       ELSE /\ backups' = (backups \ CurrentBackups) \cup {[b EXCEPT !.last = task.poll.last] : b \in CurrentBackups}
            /\ status' = [status EXCEPT !.prevote = TRUE]
            /\ Goto("poll", [step |-> "nextRound"])
            /\ UNCHANGED <<proofs, index, statusFile, aggregator>>
    /\ UNCHANGED <<decided, chain, jumped, crashes>>

WriteBackupBlocks ==
    /\ task.poll.step = "blocks"
    /\ IF CurrentBackups = {}
       THEN Terminate
       ELSE /\ backups' = (backups \ CurrentBackups) \cup {[b EXCEPT !.last = task.poll.last] : b \in CurrentBackups}
            /\ Goto("poll", [step |-> "backupIndex"])
            /\ UNCHANGED <<proofs, index, statusFile, status, aggregator>>
    /\ UNCHANGED <<decided, chain, jumped, crashes>>

\* The prevote is sent once the backup is complete.
WriteBackupIndex ==
    /\ task.poll.step = "backupIndex"
    /\ IF CurrentBackups = {}
       THEN Terminate
       ELSE /\ backups' = (backups \ CurrentBackups) \cup {[b EXCEPT !.indexed = TRUE] : b \in CurrentBackups}
            /\ status' = [status EXCEPT !.prevote = TRUE]
            /\ Goto("poll", [step |-> "nextRound"])
            /\ UNCHANGED <<proofs, index, statusFile, aggregator>>
    /\ UNCHANGED <<decided, chain, jumped, crashes>>

\* The round can be left when the aggregator has messages of it; whether they suffice is a choice. The status is saved
\* after the votes have been sent.
PollNextRound ==
    /\ task.poll.step \in {"vote", "nextRound"}
    /\ \/ status' = status
       \/ /\ \E m \in aggregator.held : m.round = status.round
          /\ status.round \in VotingRounds
          /\ status' = VotingStatus(<<status.round[1], status.round[2] + 1>>)
    /\ statusFile' = status'
    /\ Goto("poll", [step |-> "finalize"])
    /\ UNCHANGED <<decided, chain, proofs, index, backups, aggregator, jumped, crashes>>

\* tryFindBestPrecommit: that of the last round that has one.
BestPrecommits ==
    LET candidates == {m \in aggregator.held : m.height > 0}
    IN {m \in candidates : \A n \in candidates : ~RoundLess(m.round, n.round)}

Finalize ==
    /\ task.poll.step = "finalize"
    /\ ~Locked
    /\ LET unsaved == {m \in BestPrecommits : m.height # index.height} IN
       \/ unsaved = {} /\ Goto("poll", Idle)
       \/ \E m \in unsaved : Goto("poll", [step |-> "save", proof |-> m])
    /\ UNCHANGED <<decided, chain, diskVars, status, aggregator, jumped, crashes>>

-----------------------------------------------------------------------------
(* The proof task. *)

\* The finalized height is read before the height of the chain.
PullStatistics ==
    /\ task.pull.step = "idle"
    /\ ~Locked
    /\ Goto("pull", [step |-> "request", height |-> index.height])
    /\ UNCHANGED <<decided, chain, diskVars, status, aggregator, jumped, crashes>>

\* calculateRequestEpoch; 0 when there is nothing to ask for.
RequestEpoch(finalizedHeight) ==
    LET nextProofHeight == GroupedHeight(finalizedHeight + VotingSetGrouping + 1)
        epoch == EpochForHeight(finalizedHeight)
    IN IF nextProofHeight < chain.height
       THEN EpochForHeight(nextProofHeight)
       ELSE IF /\ UnfinalizedBlocksDuration > 0
               /\ chain.height >= finalizedHeight + UnfinalizedBlocksDuration
            THEN IF VotingSetEndHeight(epoch) # finalizedHeight THEN epoch ELSE epoch + 1
            ELSE 0

PullRequest ==
    /\ task.pull.step = "request"
    /\ LET epoch == RequestEpoch(task.pull.height) IN
       Goto("pull", IF epoch = 0 THEN Idle ELSE [step |-> "response", height |-> task.pull.height, epoch |-> epoch])
    /\ UNCHANGED <<decided, chain, diskVars, status, aggregator, jumped, crashes>>

\* A peer returns a proof of the requested epoch that is higher than what was final at the request.
PullProof ==
    /\ task.pull.step = "response"
    /\ \E proof \in KnownProofs :
           /\ proof.round[1] = task.pull.epoch
           /\ proof.height > task.pull.height
           /\ Goto("pull", [step |-> "save", proof |-> proof])
    /\ UNCHANGED <<decided, chain, diskVars, status, aggregator, jumped, crashes>>

\* The peer has no such proof, or does not answer.
PullNothing ==
    /\ task.pull.step = "response"
    /\ Goto("pull", Idle)
    /\ UNCHANGED <<decided, chain, diskVars, status, aggregator, jumped, crashes>>

-----------------------------------------------------------------------------
(* The network and the rest of the node. *)

Decide ==
    /\ decided < Len(Decided)
    /\ decided' = decided + 1
    /\ UNCHANGED <<chain, diskVars, status, aggregator, task, jumped, crashes>>

\* The aggregator accepts messages of a round between its minimum and its maximum, those of a round in which the node
\* has voted or of one the network has decided; the best precommit they give never falls back.
CanAdd(round) == ~RoundLess(round, aggregator.min) /\ ~RoundLess(aggregator.max, round)

Receive(message) ==
    /\ ~IsDown
    /\ CanAdd(message.round)
    /\ \A m \in aggregator.held : m.round = message.round => m.height < message.height
    /\ aggregator' = [aggregator EXCEPT
           !.held = {m \in aggregator.held : m.round # message.round} \cup {message}]
    /\ UNCHANGED <<decided, chain, diskVars, status, task, jumped, crashes>>

ReceiveVotes == status.prevote /\ Receive(Proof(status.round, 0))
ReceiveProof == \E proof \in KnownProofs : Receive(proof)

\* The block storage is locked while a backup is written.
IsChainLocked == task.poll.step \in {"blocks", "backupIndex"}

\* The local chain grows along the finalized one, to which it may have to change.
Synchronize ==
    /\ ~IsDown /\ ~IsChainLocked /\ ~chain.forking
    /\ \E height \in Heights :
           /\ height >= chain.height
           /\ chain' = [chain EXCEPT !.height = height, !.main = TRUE]
    /\ chain' # chain
    /\ UNCHANGED <<decided, diskVars, status, aggregator, task, jumped, crashes>>

\* LocalFinalizedHeightHashPairSupplier: the last block with a proof that is in the local chain.
LocalFinalizedHeight ==
    Max({height \in {index.height} \cup {proofs[epoch].height : epoch \in 1 .. index.round[1] - 1} : Contains(height)})

\* The sync consumer finds that a chain that leaves the finalized one does not go back behind what is final ...
PreprocessFork ==
    /\ ~IsDown /\ ~Locked /\ ~chain.forking
    /\ chain.main /\ chain.forks < MaxForks /\ chain.height > ForkHeight
    /\ LocalFinalizedHeight <= ForkHeight
    /\ chain' = [chain EXCEPT !.forking = TRUE, !.forks = chain.forks + 1]
    /\ UNCHANGED <<decided, diskVars, status, aggregator, task, jumped, crashes>>

\* ... and commits or refuses it, whatever was made final meanwhile.
Fork ==
    /\ ~IsDown /\ ~IsChainLocked /\ chain.forking
    /\ \E main \in BOOLEAN : chain' = [chain EXCEPT !.main = main, !.forking = FALSE]
    /\ UNCHANGED <<decided, diskVars, status, aggregator, task, jumped, crashes>>

Crash ==
    /\ crashes < MaxCrashes /\ ~IsDown
    /\ crashes' = crashes + 1
    /\ Terminate
    /\ UNCHANGED <<decided, chain, jumped>>

Poll ==
    \/ PollStatistics \/ PollEpoch \/ PollPrevote
    \/ CreateBackup \/ WriteBackupBlocks \/ WriteBackupIndex
    \/ PollNextRound \/ Finalize

Pull == PullStatistics \/ PullRequest \/ PullProof \/ PullNothing

Save(t) == SaveProof(t) \/ WriteProof(t) \/ WriteIndex(t) \/ Notify(t)

Next ==
    \/ Poll \/ Pull \/ \E t \in Tasks : Save(t)
    \/ Decide \/ ReceiveVotes \/ ReceiveProof \/ Synchronize \/ PreprocessFork \/ Fork \/ Crash \/ Boot

Fairness ==
    /\ WF_vars(Boot)
    /\ WF_vars(Poll \/ Save("poll"))
    /\ WF_vars(Pull \/ Save("pull"))
    /\ SF_vars(PullProof)
    /\ WF_vars(Decide)
    /\ WF_vars(Synchronize \/ Fork)

Spec == Init /\ [][Next]_vars /\ Fairness

-----------------------------------------------------------------------------
(* Properties. *)

\* The variables have their types: the rounds of the storage, the orchestrator and the aggregator are rounds, and a
\* proof is stored under its epoch (FileProofStorage, VotingStatus, MultiRoundMessageAggregatorState).
TypeOK ==
    /\ decided \in 0 .. Len(Decided)
    /\ chain \in [height : Heights, main : BOOLEAN, forks : 0 .. MaxForks, forking : BOOLEAN]
    /\ index.round \in Rounds /\ index.height \in Nat
    /\ \A epoch \in 1 .. MaxEpoch : proofs[epoch] \in {Missing, Truncated} \/ proofs[epoch].round[1] = epoch
    /\ {status, statusFile} \subseteq [round : Rounds, prevote : BOOLEAN]
    /\ {aggregator.min, aggregator.max} \cup {m.round : m \in aggregator.held} \subseteq Rounds
    /\ \A b \in backups, c \in backups : b.round = c.round => b = c
    /\ jumped \in BOOLEAN /\ crashes \in 0 .. MaxCrashes

\* The statistics of the proof storage never go back, whichever of the finalizer and the proof task saves first and
\* whatever they read before (AggregateProofStorage and FileProofStorage::saveProof).
StatisticsAdvance == [][~RoundLess(index'.round, index.round) /\ index'.height >= index.height]_index

\* The proof of every epoch that the storage has left finalizes the last block of the epoch (FileProofStorage).
EpochsProven ==
    \A epoch \in 1 .. index.round[1] - 1 : proofs[epoch].height = VotingSetEndHeight(epoch)

\* That holds, whatever the finalizer and the proof task save and in whatever order, unless the orchestrator went past
\* an epoch of which the storage had a proof in the middle (the last branch of calculateEpochStatus) or the node
\* stopped while it wrote the same proof a second time.
EpochsProvenUnlessJumped ==
    \/ jumped
    \/ \A epoch \in 1 .. index.round[1] - 1 :
           \/ proofs[epoch].height = VotingSetEndHeight(epoch)
           \/ proofs[epoch] = Truncated /\ crashes > 0

\* The orchestrator is at most one epoch ahead of the storage, its round is not above what the aggregator accepts
\* once it votes, and all rounds of the aggregator are within its bounds: setEpoch and setMaxFinalizationRound never
\* throw, and no finalizer saves a proof that skips an epoch.
RoundsInOrder ==
    /\ status.round[1] <= index.round[1] + 1
    /\ ~RoundLess(aggregator.max, aggregator.min)
    /\ \A m \in aggregator.held : CanAdd(m.round)
    /\ task.poll.step = "epoch" => status.round[1] <= task.poll.statistics.round[1] + 1

\* As long as the round in which the node has prevoted is not final, the chain it voted for can be loaded from its
\* backup, so that the node can return to it (FilePrevoteChainStorage, FinalizationPatchingSubscriber).
PrevoteBackedUp ==
    \A s \in {status, statusFile} :
        s.prevote /\ RoundLess(index.round, s.round) => \E b \in backups : b.round = s.round /\ b.indexed

\* The node has the last proof of the network and votes in the epoch after it.
IsCaughtUp ==
    LET last == Decided[Len(Decided)]
    IN index.round = last.round /\ index.height \in last.heights /\ status.round[1] = last.round[1] + 1

\* A node that was behind or was stopped reaches the epoch of the network, unless its proof task has been stopped by
\* an exception or the finalization task ends the process again and again (Throw).
EpochCatchesUp == <>[](IsCaughtUp \/ task.pull.step = "stopped") \/ []<>IsDown
=============================================================================
