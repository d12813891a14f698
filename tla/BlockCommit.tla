---------------------------- MODULE BlockCommit ----------------------------
(***************************************************************************)
(* How the server commits a peer chain (BlockchainSyncConsumer::commitAll), *)
(* how it saves its state on shutdown, and how the recovery process        *)
(* (RecoveryOrchestrator) repairs the data directory after a crash between *)
(* any two of those writes.                                                *)
(*                                                                         *)
(* A block is named by the commit that produced it, a chain is a sequence  *)
(* of blocks, and a state (of a cache, of a state directory, of the        *)
(* broker's database) is the chain whose execution yields it.              *)
(***************************************************************************)
EXTENDS Integers, Sequences

CONSTANTS
    Modes,              \* the configurations: EnableCacheDatabaseStorage, EnableVerifiableState
    RocksCaches,        \* the caches that live in a RocksDB when CacheDatabase is set
    CrashPoints,        \* where a process may be killed: routine, pc, and whether the state directory is ahead of the storage
    MaxRollback,        \* how many blocks of the local chain a peer chain may replace, with a cache database
    MaxMemoryRollback,  \* the same, without one
    MaxCommits,         \* bound: peer chains the server tries to commit
    MaxHeight,          \* bound: height of a chain
    MaxCrashes          \* bound: crashes in one behaviour

ASSUME ModeAssumption ==
    \A m \in Modes : m \in [database : BOOLEAN, verifiable : BOOLEAN] /\ (m.verifiable => m.database)
ASSUME BoundAssumption ==
    /\ MaxCommits \in Nat /\ MaxHeight \in Nat /\ MaxHeight >= 2 /\ MaxCrashes \in Nat /\ MaxRollback \in Nat
    /\ MaxMemoryRollback \in 0 .. MaxRollback

VARIABLES
    config,         \* the configuration of the node
    chain,          \* disk: primary block storage
    staged,         \* disk: spool/block_sync, or NoBlocks
    commitStep,     \* disk: commit_step.dat (All_Updated when there is none)
    stateDir,       \* disk: the state directory, or NoState
    tmpDir,         \* disk: the state.tmp directory, or NoState, Partial or Emptied
    spool,          \* disk: the messages in spool/state_change, as many as index_server.dat says
    index,          \* disk: index.dat of spool/state_change
    reader,         \* disk: index_broker_r.dat of spool/state_change
    lock,           \* disk: a .lock file is left from a process that has not ended cleanly
    rocks,          \* RocksDB caches: on disk if CacheDatabase is set, in memory otherwise
    memory,         \* the caches that are always in memory
    brokerChain,    \* the blocks that the broker was told of
    brokerState,    \* the state that the broker was told of
    routine,        \* commit, save or repair
    pc,             \* what the running process does next
    target,         \* the chain being committed
    saving,         \* RecoveryOrchestrator::m_stateSavingRequired
    log,            \* history: the chains that reached State_Written, in order
    commits,        \* commits begun
    crashes         \* crashes so far

vars == <<config, chain, staged, commitStep, stateDir, tmpDir, spool, index, reader, lock, rocks, memory, brokerChain,
          brokerState, routine, pc, target, saving, log, commits, crashes>>
spoolVars == <<spool, index, reader>>
dirVars == <<stateDir, tmpDir>>
cacheVars == <<rocks, memory>>
brokerVars == <<brokerChain, brokerState>>
boundVars == <<config, commits, crashes>>

CacheDatabase == config.database
VerifiableState == config.verifiable

-----------------------------------------------------------------------------
NoState == <<>>
Partial == <<-1>>       \* a directory without its supplemental data file
Emptied == <<-2>>       \* a directory that was purged but not removed
Corrupt == <<-3>>       \* a state that no chain yields
NoBlocks == [start |-> 0, blocks |-> <<>>]
Nemesis == <<0>>
InitialChain == <<0, 0>>

Steps == {"Blocks_Written", "State_Written", "All_Updated"}

PCs == {"off", "failed", "idle", "staged", "blocksWritten", "scoreSpooled", "stateSpooled", "savingSummary",
        "stateSaved", "stateWritten", "moveBlocks", "notifyDrop", "moving", "notifyBlock", "moved", "renameState",
        "stateMoved", "publishIndex", "saveBegin", "savingState", "saveWritten", "saveMove", "loadState",
        "catchUp", "applySpooled", "reindex", "moveState", "moveStaged", "reapply", "finalize", "recovered"}

Take(s, n) == SubSeq(s, 1, IF n < Len(s) THEN n ELSE Len(s))
Last(s) == s[Len(s)]

Goto(label) == pc' = label

\* A node that was shut down cleanly.
Init ==
    /\ config \in Modes
    /\ chain = InitialChain /\ staged = NoBlocks
    /\ commitStep = "All_Updated"
    /\ stateDir = InitialChain /\ tmpDir = NoState
    /\ spool = <<>> /\ index = 0 /\ reader = 0
    /\ lock = FALSE
    /\ rocks = [r \in RocksCaches |-> IF CacheDatabase THEN InitialChain ELSE NoState]
    /\ memory = NoState
    /\ brokerChain = InitialChain /\ brokerState = InitialChain
    /\ routine = "commit" /\ pc = "off"
    /\ target = InitialChain /\ saving = TRUE /\ log = <<InitialChain>>
    /\ commits = 0 /\ crashes = 0

-----------------------------------------------------------------------------
(* Loading and moving the state directory. *)

\* Without a supplemental data file the nemesis block is executed.
HasSerializedState(directory) == directory \notin {NoState, Partial, Emptied}

LoadedState == IF HasSerializedState(stateDir) THEN stateDir ELSE Nemesis

\* LoadStateFromDirectory: RocksDB caches keep what they have.
LoadCaches(state) ==
    /\ memory' = state
    /\ rocks' = IF CacheDatabase THEN rocks ELSE [r \in RocksCaches |-> state]

\* LocalNodeStateSerializer::moveTo, first half: purge the destination.
PurgeStateDirectory == stateDir' = NoState /\ tmpDir' = tmpDir

\* LocalNodeStateSerializer::moveTo, second half.
RenameState ==
    /\ pc = "renameState"
    /\ stateDir' = tmpDir /\ tmpDir' = NoState
    /\ Goto(CASE routine = "commit" -> "stateMoved"
              [] routine = "save" -> "saveMove"
              [] routine = "repair" -> "moveStaged")
    /\ UNCHANGED <<chain, staged, commitStep, spoolVars, lock, cacheVars, brokerVars, routine, target, saving, log, boundVars>>

-----------------------------------------------------------------------------
(* The server. *)

\* The memory of a process is gone once it has ended.
DropMemory ==
    /\ memory' = NoState
    /\ rocks' = IF CacheDatabase THEN rocks ELSE [r \in RocksCaches |-> NoState]

\* DefaultLocalNode::boot. No server boots over a .lock file, and one that finds different heights ends.
Boot ==
    /\ pc = "off" /\ ~lock
    /\ lock' = TRUE
    /\ IF Len(LoadedState) = Len(chain)
       THEN LoadCaches(LoadedState) /\ Goto("idle")
       ELSE DropMemory /\ Goto("off")
    /\ routine' = "commit"
    /\ UNCHANGED <<chain, staged, commitStep, dirVars, spoolVars, brokerVars, target, saving, log, boundVars>>

\* commitAll, step 1: the peer chain of n blocks after the common block is saved to the staging area.
StageBlocks(common, n) ==
    LET blocks == [i \in 1 .. n |-> commits + 1]
    IN  /\ pc = "idle" /\ commits < MaxCommits
        /\ common + (IF CacheDatabase THEN MaxRollback ELSE MaxMemoryRollback) >= Len(chain) /\ common + n <= MaxHeight
        /\ staged' = [start |-> common + 1, blocks |-> blocks]
        /\ target' = Take(chain, common) \o blocks
        /\ commits' = commits + 1
        /\ Goto("staged")
        /\ UNCHANGED <<chain, commitStep, dirVars, spoolVars, lock, cacheVars, brokerVars, routine, saving, log, config, crashes>>

\* The CommitStep handler, for the first two steps.
WriteCommitStep(from, step, to) ==
    /\ pc = from
    /\ commitStep' = step
    /\ log' = IF step = "State_Written" THEN Append(log, target) ELSE log
    /\ Goto(to)
    /\ UNCHANGED <<chain, staged, dirVars, spoolVars, lock, cacheVars, brokerVars, routine, target, saving, boundVars>>

CommitBlocksWritten == WriteCommitStep("staged", "Blocks_Written", "blocksWritten")
CommitStateWritten == WriteCommitStep("stateSaved", "State_Written", "stateWritten")

\* FileQueueWriter::flush, after which index_server.dat counts the message.
SpoolMessage(from, kind, to) ==
    /\ pc = from
    /\ spool' = Append(spool, [kind |-> kind, from |-> chain, to |-> target])
    /\ Goto(to)
    /\ UNCHANGED <<chain, staged, commitStep, dirVars, index, reader, lock, cacheVars, brokerVars, routine, target, saving, log, boundVars>>

\* commitAll, step 3: the StateChange handler writes two messages.
NotifyScoreChange == SpoolMessage("blocksWritten", "score", "scoreSpooled")
NotifyStateChange == SpoolMessage("scoreSpooled", "state", "stateSpooled")

\* commitAll, step 3: PreStateWritten saves the summary of the caches to state.tmp.
PreStateWritten ==
    /\ pc = "stateSpooled"
    /\ IF CacheDatabase THEN tmpDir' = Partial /\ Goto("savingSummary") ELSE tmpDir' = tmpDir /\ Goto("stateSaved")
    /\ UNCHANGED <<chain, staged, commitStep, stateDir, spoolVars, lock, cacheVars, brokerVars, routine, target, saving, log, boundVars>>

SaveSummary ==
    /\ pc = "savingSummary"
    /\ tmpDir' = target
    /\ Goto("stateSaved")
    /\ UNCHANGED <<chain, staged, commitStep, stateDir, spoolVars, lock, cacheVars, brokerVars, routine, target, saving, log, boundVars>>

\* commitAll, step 4: CatapultCache::commit commits one sub cache after the other.
CommitSubCache(r) ==
    /\ pc = "stateWritten"
    /\ rocks[r] # target
    /\ rocks' = [rocks EXCEPT ![r] = target]
    /\ UNCHANGED <<chain, staged, commitStep, dirVars, spoolVars, lock, memory, brokerVars, routine, pc, target, saving, log, boundVars>>

CommitCache ==
    /\ pc = "stateWritten"
    /\ \A r \in RocksCaches : rocks[r] = target
    /\ memory' = target
    /\ Goto("moveBlocks")
    /\ UNCHANGED <<chain, staged, commitStep, dirVars, spoolVars, lock, rocks, brokerVars, routine, target, saving, log, boundVars>>

-----------------------------------------------------------------------------
(* MoveBlockFiles, for the server (commit) and for the recovery process.    *)
(* AggregateBlockStorage notifies the broker after each storage operation.  *)

DropBlocks ==
    /\ pc = "moveBlocks"
    /\ IF staged.start <= Len(chain)
       THEN chain' = Take(chain, staged.start - 1) /\ Goto("notifyDrop")
       ELSE chain' = chain /\ Goto("moving")
    /\ UNCHANGED <<staged, commitStep, dirVars, spoolVars, lock, cacheVars, brokerVars, routine, target, saving, log, boundVars>>

NotifyDropBlocks ==
    /\ pc = "notifyDrop"
    /\ brokerChain' = Take(brokerChain, staged.start - 1)
    /\ Goto("moving")
    /\ UNCHANGED <<chain, staged, commitStep, dirVars, spoolVars, lock, cacheVars, brokerState, routine, target, saving, log, boundVars>>

NumMoved == Len(chain) + 1 - staged.start

MoveBlock ==
    /\ pc = "moving"
    /\ NumMoved < Len(staged.blocks)
    /\ chain' = Append(chain, staged.blocks[NumMoved + 1])
    /\ Goto("notifyBlock")
    /\ UNCHANGED <<staged, commitStep, dirVars, spoolVars, lock, cacheVars, brokerVars, routine, target, saving, log, boundVars>>

\* A database saves a block at the next height only; in recovery mode it first drops what is in the way.
NotifyBlock ==
    /\ pc = "notifyBlock"
    /\ brokerChain' = IF routine = "repair" \/ Len(brokerChain) = Len(chain) - 1
                      THEN Append(Take(brokerChain, Len(chain) - 1), Last(chain))
                      ELSE Corrupt
    /\ Goto("moving")
    /\ UNCHANGED <<chain, staged, commitStep, dirVars, spoolVars, lock, cacheVars, brokerState, routine, target, saving, log, boundVars>>

PurgeStaged ==
    /\ pc = "moving"
    /\ NumMoved = Len(staged.blocks)
    /\ staged' = NoBlocks
    /\ Goto(IF routine = "commit" THEN "moved" ELSE "reapply")
    /\ UNCHANGED <<chain, commitStep, dirVars, spoolVars, lock, cacheVars, brokerVars, routine, target, saving, log, boundVars>>

-----------------------------------------------------------------------------
(* The CommitStep handler for All_Updated. *)

\* AddSupplementalDataResiliency moves the state before the step is written.
CommitSupplementalData ==
    /\ pc = "moved"
    /\ IF CacheDatabase THEN PurgeStateDirectory /\ Goto("renameState") ELSE UNCHANGED dirVars /\ Goto("stateMoved")
    /\ UNCHANGED <<chain, staged, commitStep, spoolVars, lock, cacheVars, brokerVars, routine, target, saving, log, boundVars>>

CommitAllUpdated == WriteCommitStep("stateMoved", "All_Updated", "publishIndex")

\* index.dat is set to index_server.dat: the broker may now consume the messages.
PublishIndex ==
    /\ pc = "publishIndex"
    /\ index' = Len(spool)
    /\ Goto("idle")
    /\ UNCHANGED <<chain, staged, commitStep, dirVars, spool, reader, lock, cacheVars, brokerVars, routine, target, saving, log, boundVars>>

-----------------------------------------------------------------------------
(* SaveStateToDirectoryWithCheckpointing, when the server or the recovery   *)
(* process shuts down.                                                      *)

BeginSave ==
    /\ commitStep' = "Blocks_Written"
    /\ routine' = "save"
    /\ Goto("saveBegin")
    /\ UNCHANGED <<chain, staged, dirVars, spoolVars, lock, cacheVars, brokerVars, target, saving, log, boundVars>>

BeginShutdownSave == pc = "idle" /\ BeginSave
BeginRecoverySave == pc = "recovered" /\ saving /\ BeginSave

SaveState(from, state, to) ==
    /\ pc = from
    /\ tmpDir' = state
    /\ Goto(to)
    /\ UNCHANGED <<chain, staged, commitStep, stateDir, spoolVars, lock, cacheVars, brokerVars, routine, target, saving, log, boundVars>>

SaveStateBegin == SaveState("saveBegin", Partial, "savingState")
SaveStateEnd == SaveState("savingState", memory, "saveWritten")

SaveStateWritten ==
    /\ pc = "saveWritten"
    /\ commitStep # "State_Written"
    /\ commitStep' = "State_Written"
    /\ UNCHANGED <<chain, staged, dirVars, spoolVars, lock, cacheVars, brokerVars, routine, pc, target, saving, log, boundVars>>

SaveStateMove ==
    /\ pc = "saveWritten"
    /\ commitStep = "State_Written"
    /\ PurgeStateDirectory
    /\ Goto("renameState")
    /\ UNCHANGED <<chain, staged, commitStep, spoolVars, lock, cacheVars, brokerVars, routine, target, saving, log, boundVars>>

\* A clean end removes the lock file.
EndProcess ==
    /\ pc = "saveMove" \/ (pc = "recovered" /\ ~saving)
    /\ commitStep' = "All_Updated"
    /\ lock' = FALSE
    /\ DropMemory
    /\ Goto("off")
    /\ UNCHANGED <<chain, staged, dirVars, spoolVars, brokerVars, routine, target, saving, log, boundVars>>

\* A process is killed.
Crash ==
    /\ <<routine, pc, Len(stateDir) > Len(chain)>> \in CrashPoints
    /\ crashes < MaxCrashes
    /\ crashes' = crashes + 1
    /\ DropMemory
    /\ Goto("off")
    /\ UNCHANGED <<chain, staged, commitStep, dirVars, spoolVars, lock, brokerVars, routine, target, saving, log, config, commits>>

-----------------------------------------------------------------------------
(* The recovery process. *)

\* Mutant: the early return for State_Written is missing.
RepairSpoolingAlways ==
    /\ pc = "off" /\ lock
    /\ staged' = NoBlocks /\ spool' = Take(spool, index)
    /\ routine' = "repair" /\ saving' = TRUE
    /\ Goto("loadState")
    /\ UNCHANGED <<chain, commitStep, dirVars, index, reader, lock, cacheVars, brokerVars, target, log, boundVars>>

\* RepairSpooling: without State_Written, what was staged and spooled is dropped.
RepairSpooling ==
    /\ pc = "off" /\ lock
    /\ IF commitStep = "State_Written"
       THEN UNCHANGED <<staged, spool>>
       ELSE staged' = NoBlocks /\ spool' = Take(spool, index)
    /\ routine' = "repair" /\ saving' = TRUE
    /\ Goto("loadState")
    /\ UNCHANGED <<chain, commitStep, dirVars, index, reader, lock, cacheVars, brokerVars, target, log, boundVars>>

\* Mutant: a cache behind the storage is refused.
StateRecoveryModeStrict(cache, storage) == IF cache = storage THEN "None" ELSE IF cache = 1 THEN "Reseed" ELSE "Throw"

\* Mutant: a cache behind the storage is left behind.
StateRecoveryModeNoRepair(cache, storage) ==
    IF cache = storage THEN "None" ELSE IF cache = 1 THEN "Reseed" ELSE IF cache > storage THEN "Throw" ELSE "None"

\* CalculateStateRecoveryMode, for the heights of the loaded state and of the storage.
StateRecoveryMode(cache, storage) ==
    IF cache = storage THEN "None"
    ELSE IF cache = 1 THEN "Reseed"
    ELSE IF cache > storage THEN "Throw"
    ELSE IF CacheDatabase THEN "None" ELSE "Repair"

\* LoadStateFromDirectory, and repairStateFromStorage which executes the missing blocks.
LoadState ==
    LET mode == StateRecoveryMode(Len(LoadedState), Len(chain))
        missing == SubSeq(chain, Len(LoadedState) + 1, Len(chain))
    IN  /\ pc = "loadState"
        /\ LoadCaches(IF mode = "Repair" THEN LoadedState \o missing ELSE LoadedState)
        /\ Goto(IF mode \in {"Reseed", "Throw"} THEN "failed" ELSE "catchUp")
        /\ UNCHANGED <<chain, staged, commitStep, dirVars, spoolVars, lock, brokerVars, routine, target, saving, log, boundVars>>

\* FileQueueReader::process removes the file of a message once it has been read.
Consumed == [kind |-> "consumed", from |-> <<>>, to |-> <<>>]

Deliver(message) == brokerState' = IF message.kind = "state" THEN message.to ELSE brokerState

\* RepairState, step 1: the registered subscribers catch up to index.dat.
CatchUp ==
    /\ pc = "catchUp"
    /\ IF reader = index
       THEN Goto("applySpooled") /\ UNCHANGED <<spool, reader, brokerState>>
       ELSE IF spool[reader + 1] = Consumed
       THEN Goto("failed") /\ UNCHANGED <<spool, reader, brokerState>>
       ELSE /\ Deliver(spool[reader + 1])
            /\ reader' = reader + 1
            /\ spool' = [spool EXCEPT ![reader + 1] = Consumed]
            /\ pc' = pc
    /\ UNCHANGED <<chain, staged, commitStep, dirVars, index, lock, cacheVars, brokerChain, routine, target, saving, log, boundVars>>

\* StateChangeRepairingSubscriber: the changes lead from one state to the next, and may be applied again.
Repaired(state, message) == IF state \in {message.from, message.to} THEN message.to ELSE Corrupt

\* Mutant: the caches are not repaired.
ApplySpooledForwardOnly ==
    /\ pc = "applySpooled"
    /\ IF index = Len(spool)
       THEN Goto("reindex") /\ UNCHANGED <<spool, index, brokerState, rocks>>
       ELSE LET message == spool[index + 1]
            IN  /\ Deliver(message)
                /\ rocks' = rocks
                /\ index' = index + 1
                /\ spool' = [spool EXCEPT ![index + 1] = Consumed]
                /\ pc' = pc
    /\ UNCHANGED <<chain, staged, commitStep, dirVars, reader, lock, memory, brokerChain, routine, target, saving, log, boundVars>>

\* Mutant: the messages are not forwarded.
ApplySpooledRepairOnly ==
    /\ pc = "applySpooled"
    /\ IF index = Len(spool)
       THEN Goto("reindex") /\ UNCHANGED <<spool, index, brokerState, rocks>>
       ELSE LET message == spool[index + 1]
            IN  /\ brokerState' = brokerState
                /\ rocks' = IF CacheDatabase /\ message.kind = "state"
                            THEN [r \in RocksCaches |-> Repaired(rocks[r], message)] ELSE rocks
                /\ index' = index + 1
                /\ spool' = [spool EXCEPT ![index + 1] = Consumed]
                /\ pc' = pc
    /\ UNCHANGED <<chain, staged, commitStep, dirVars, reader, lock, memory, brokerChain, routine, target, saving, log, boundVars>>

\* RepairState, step 2: the messages of the interrupted commit are applied and forwarded.
ApplySpooled ==
    /\ pc = "applySpooled"
    /\ IF index = Len(spool)
       THEN Goto("reindex") /\ UNCHANGED <<spool, index, brokerState, rocks>>
       ELSE LET message == spool[index + 1]
            IN  /\ Deliver(message)
                /\ rocks' = IF CacheDatabase /\ message.kind = "state"
                            THEN [r \in RocksCaches |-> Repaired(rocks[r], message)] ELSE rocks
                /\ index' = index + 1
                /\ spool' = [spool EXCEPT ![index + 1] = Consumed]
                /\ pc' = pc
    /\ UNCHANGED <<chain, staged, commitStep, dirVars, reader, lock, memory, brokerChain, routine, target, saving, log, boundVars>>

\* RepairState, step 3, and the branch on the commit step in repairState.
Reindex ==
    /\ pc = "reindex"
    /\ reader' = index
    /\ IF commitStep = "State_Written"
       THEN tmpDir' = tmpDir /\ Goto("moveState")
       ELSE tmpDir' = (IF tmpDir = NoState THEN NoState ELSE Emptied) /\ Goto("finalize")
    /\ UNCHANGED <<chain, staged, commitStep, stateDir, spool, index, lock, cacheVars, brokerVars, routine, target, saving, log, boundVars>>

MoveSupplementalDataFiles ==
    /\ pc = "moveState"
    /\ IF tmpDir = NoState THEN UNCHANGED dirVars /\ Goto("moveStaged") ELSE PurgeStateDirectory /\ Goto("renameState")
    /\ UNCHANGED <<chain, staged, commitStep, spoolVars, lock, cacheVars, brokerVars, routine, target, saving, log, boundVars>>

\* MoveBlockFiles of the orchestrator: nothing to do for an empty staging area.
MoveStaged ==
    /\ pc = "moveStaged"
    /\ IF staged = NoBlocks
       THEN Goto("finalize") /\ saving' = ~CacheDatabase
       ELSE Goto("moveBlocks") /\ saving' = saving
    /\ UNCHANGED <<chain, staged, commitStep, dirVars, spoolVars, lock, cacheVars, brokerVars, routine, target, log, boundVars>>

\* reapplyBlocks rolls the moved blocks back and executes them again to regenerate the trees.
Reapply ==
    /\ pc = "reapply"
    /\ rocks' = IF VerifiableState THEN [r \in RocksCaches |-> IF rocks[r] = chain THEN chain ELSE Corrupt] ELSE rocks
    /\ saving' = ~CacheDatabase
    /\ Goto("finalize")
    /\ UNCHANGED <<chain, staged, commitStep, dirVars, spoolVars, lock, memory, brokerVars, routine, target, log, boundVars>>

\* CatapultSystemState::reset removes commit_step.dat.
ResetSystemState ==
    /\ pc = "finalize"
    /\ commitStep' = "All_Updated"
    /\ Goto("recovered")
    /\ UNCHANGED <<chain, staged, dirVars, spoolVars, lock, cacheVars, brokerVars, routine, target, saving, log, boundVars>>

-----------------------------------------------------------------------------
(* The broker process, which is stopped while the recovery process runs. *)
BrokerConsume ==
    /\ routine # "repair"
    /\ reader < index
    /\ Deliver(spool[reader + 1])
    /\ reader' = reader + 1
    /\ spool' = [spool EXCEPT ![reader + 1] = Consumed]
    /\ UNCHANGED <<chain, staged, commitStep, dirVars, index, lock, cacheVars, brokerChain, routine, pc, target, saving, log, boundVars>>

-----------------------------------------------------------------------------
Move == DropBlocks \/ NotifyDropBlocks \/ MoveBlock \/ NotifyBlock \/ PurgeStaged \/ RenameState

Commit ==
    \/ CommitBlocksWritten \/ NotifyScoreChange \/ NotifyStateChange \/ PreStateWritten \/ SaveSummary
    \/ CommitStateWritten \/ (\E r \in RocksCaches : CommitSubCache(r)) \/ CommitCache
    \/ CommitSupplementalData \/ CommitAllUpdated \/ PublishIndex

Save == SaveStateBegin \/ SaveStateEnd \/ SaveStateWritten \/ SaveStateMove \/ EndProcess

Repair ==
    \/ RepairSpooling \/ LoadState \/ CatchUp \/ ApplySpooled \/ Reindex \/ MoveSupplementalDataFiles
    \/ MoveStaged \/ Reapply \/ ResetSystemState \/ BeginRecoverySave

\* The steps that a running process takes, and those of the operator who starts the next one.
Progress == Boot \/ Move \/ Commit \/ Save \/ Repair

Next ==
    \/ Progress
    \/ \E common \in 1 .. Len(chain), n \in 1 .. MaxHeight : StageBlocks(common, n)
    \/ BeginShutdownSave
    \/ BrokerConsume
    \/ Crash

Spec == Init /\ [][Next]_vars

\* A process that is not killed goes on, and after a crash the recovery process is run until it ends cleanly.
FairSpec == Spec /\ WF_vars(Progress)

-----------------------------------------------------------------------------
(* Where a process may be killed, and recover. *)

Always == {TRUE, FALSE}

\* commitAll, up to the first change of the block storage and after the state directory has followed.
CommitWindows ==
    {"commit"} \X {"idle", "staged", "blocksWritten", "scoreSpooled", "stateSpooled", "savingSummary", "stateSaved",
                   "stateWritten", "moveBlocks", "stateMoved"} \X Always

\* MoveBlockFiles, until the state directory has followed: survived unless blocks that the state has are dropped.
MoveWindows(ahead) == {"commit"} \X {"notifyDrop", "moving", "notifyBlock", "moved"} \X {ahead}

SaveWindows == {"save"} \X {"saveBegin", "savingState", "saveWritten", "saveMove"} \X Always

\* The recovery process, but for the repair of the state_change queue and the moves of the state and of the blocks.
RepairWindows == {"repair"} \X {"loadState", "catchUp", "moveState", "reapply", "finalize", "recovered"} \X Always

SafeWindows == CommitWindows \union MoveWindows(FALSE) \union SaveWindows \union RepairWindows

-----------------------------------------------------------------------------
Chains == UNION {[1 .. h -> 0 .. MaxCommits] : h \in 1 .. MaxHeight}
States == Chains \union {NoState, Partial, Emptied, Corrupt}

\* Every variable has its type; the three indexes of the state_change queue are in the order that RepairSpooling
\* relies on, and no message that index.dat has not released was consumed while the server runs.
TypeOK ==
    /\ config \in Modes
    /\ chain \in Chains /\ target \in Chains
    /\ staged.start \in 0 .. MaxHeight /\ staged.blocks \in Chains \union {<<>>}
    /\ commitStep \in Steps
    /\ stateDir \in States /\ tmpDir \in States
    /\ \A i \in 1 .. Len(spool) : spool[i].kind \in {"score", "state", "consumed"}
    /\ reader \in Nat /\ index \in Nat /\ reader <= index /\ index <= Len(spool)
    /\ lock \in BOOLEAN /\ saving \in BOOLEAN
    /\ rocks \in [RocksCaches -> States] /\ memory \in States
    /\ brokerChain \in States /\ brokerState \in States
    /\ routine \in {"commit", "save", "repair"} /\ pc \in PCs
    /\ commits \in 0 .. MaxCommits /\ crashes \in 0 .. MaxCrashes

\* However the node came to run, the caches and (with a cache database) the state directory are the state of the
\* stored chain, and the indexes of the state_change queue are in the order that the next recovery relies on.
RunningNodeConsistent ==
    pc = "idle" =>
        /\ memory = chain
        /\ \A r \in RocksCaches : rocks[r] = chain
        /\ CacheDatabase => stateDir = chain
        /\ reader <= index /\ index <= Len(spool)

\* A broker that has read all that was released to it knows the chain and the state of the running node.
BrokerCatchesUp == pc = "idle" /\ reader = index => brokerState = chain /\ brokerChain = chain

\* "both blocks and state have been written out to disk and can be fully restored": the recovery process never
\* gives up on what a crash left behind.
RecoverySucceeds == pc # "failed"

\* The chain that the disk stands for: from State_Written on, the staged blocks are part of it.
Ledger ==
    IF commitStep = "State_Written" /\ staged # NoBlocks
    THEN Take(chain, staged.start - 1) \o staged.blocks ELSE chain

Seen == CHOOSE i \in 1 .. Len(log) : log[i] = brokerState

Abstract == INSTANCE AtomicLedger WITH Blocks <- 0 .. MaxCommits, ledger <- Ledger, history <- log, seen <- Seen

\* Commits are atomic and durable, and the broker sees each of them once and in order, across crashes and recovery.
CommitsAtomically == Abstract!Spec

\* After every crash the node runs again.
EventuallyRunning == []<>(pc = "idle")
=============================================================================
