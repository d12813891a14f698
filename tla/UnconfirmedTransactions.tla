----------------------- MODULE UnconfirmedTransactions -----------------------
(***************************************************************************)
(* The unconfirmed transactions (UtUpdater, MemoryUtCache) between the     *)
(* thread of the block dispatcher, which commits chains and then rebases   *)
(* the unconfirmed state onto them, and the thread of the transaction      *)
(* dispatcher, which adds new transactions to it.                          *)
(*                                                                         *)
(* A state of the node is the set of transactions applied to it.  A        *)
(* transaction is valid on a state that has those it spends from           *)
(* (Requires) and neither itself nor one that spends the same (Conflicts); *)
(* it pays the minimum fee of the node and has a size of one.              *)
(* A block is its transactions and its score, its hash is the chain up to  *)
(* it.                                                                     *)
(***************************************************************************)
EXTENDS CatapultCache

CONSTANTS
    Txs,
    Conflicts,      \* sets of two transactions that exclude each other
    Requires,       \* the transactions that each transaction needs
    MaxTransactionsPerBlock,
    MaxCacheSize,   \* UnconfirmedTransactionsCacheMaxSize, in transactions
    StartChain,
    PeerChains,     \* the sequences of blocks that peers may offer
    NewBatches,     \* the sequences of transactions that may arrive
    MaxRollback,
    MaxPeerChains,  \* bounds the chains that peers offer
    MaxBatches      \* bounds the batches of new transactions

BlockRecords == [txs : Seq(Txs), score : Nat]

ASSUME TransactionsAssumption ==
    /\ StartChain \in Seq(BlockRecords)
    /\ PeerChains \subseteq Seq(BlockRecords)
    /\ NewBatches \subseteq Seq(Txs)
    /\ MaxTransactionsPerBlock \in Nat

VARIABLES
    chain,          \* the block storage
    sync,           \* SyncState: the common height, the new blocks, their source and the transactions of the dropped ones
    ut,             \* MemoryUtCache: the unconfirmed transactions in the order of their ids
    unconfirmed,    \* RelockableDetachedCatapultCache: the detached delta and the transactions applied to it
    batch,          \* the input of the transaction dispatcher's last consumer
    known,          \* what the subscriber has been told of the unconfirmed transactions
    budget          \* what is left of the bounds on inputs

utVars == <<ut, unconfirmed, known>>

Confirmed(c) == FlattenSeq([i \in 1..Len(c) |-> c[i].txs])
Score(blocks) == FoldFunction(LAMBDA block, sum : sum + block.score, 0, blocks)

\* The members of a sequence that are not in a set, in their order.
Without(txs, gone) ==
    LET kept[i \in 0..Len(txs)] ==
            IF i = 0 THEN <<>> ELSE IF txs[i] \in gone THEN kept[i - 1] ELSE Append(kept[i - 1], txs[i])
    IN  kept[Len(txs)]

NewChain == SubSeq(chain, 1, sync.common) \o sync.blocks

IsValid(tx, state) ==
    /\ tx \notin state
    /\ Requires[tx] \subseteq state
    /\ \A other \in state : {tx, other} \notin Conflicts

\* All transactions are valid, one after the other, on the state.
AreValid(txs, state) ==
    \A i \in 1..Len(txs) : IsValid(txs[i], state \union ToSet(SubSeq(txs, 1, i - 1)))

\* A transaction reads every sub cache of a delta, and what has been applied to the delta.
IsValidOn(tx, delta, applied) == \A s \in Subs : IsValid(tx, ToSet(Confirmed(delta[s].chain)) \union ToSet(applied))

Init ==
    /\ CacheInit(StartChain)
    /\ chain = StartChain
    /\ sync = [common |-> Len(StartChain), blocks |-> <<>>, isLocal |-> FALSE, reverted |-> <<>>]
    /\ ut = <<>>
    /\ unconfirmed = [delta |-> caches, applied |-> <<>>]
    /\ batch = <<>>
    /\ known = {}
    /\ budget = [peer |-> MaxPeerChains, new |-> MaxBatches]

-----------------------------------------------------------------------------
(* UtUpdater                                                               *)

\* TransactionChangeTracker: the net changes.
TrackAdd(changes, tx) ==
    IF tx \in changes.removed THEN [changes EXCEPT !.removed = @ \ {tx}] ELSE [changes EXCEPT !.added = @ \union {tx}]
TrackRemove(changes, tx) ==
    IF tx \in changes.added THEN [changes EXCEPT !.added = @ \ {tx}] ELSE [changes EXCEPT !.removed = @ \union {tx}]

\* The state an update works on: the cache, what is applied to the unconfirmed delta, and the changes to tell.
Start(txs, applied, removed) ==
    [ut |-> txs, applied |-> applied, changes |-> [added |-> {}, removed |-> removed]]

\* MemoryUtCacheModifier::add
CanAddTx(state, tx) == Len(state.ut) < MaxCacheSize /\ ~Contains(state.ut, tx)

AddTx(state, tx) == [state EXCEPT !.ut = Append(@, tx), !.changes = TrackAdd(@, tx)]

\* MemoryUtCacheModifier::remove
RemoveTx(state, tx) == [state EXCEPT !.ut = Without(@, {tx}), !.changes = TrackRemove(@, tx)]

\* TransactionSpamThrottle: a full cache rejects all; one with a block's worth of transactions may reject
\* transactions that are not reverted, by the weight and the importance of their accounts.
MayThrottle(state, source) ==
    Len(state.ut) >= MaxCacheSize \/ (Len(state.ut) >= MaxTransactionsPerBlock /\ source # "Reverted")
MayPass(state) == Len(state.ut) < MaxCacheSize

\* Mutant: a transaction that fails is left in the cache.
ExecuteKeepInvalid(state, tx) ==
    IF ~CanAddTx(state, tx) THEN state
    ELSE IF IsValidOn(tx, unconfirmed.delta, state.applied) THEN [AddTx(state, tx) EXCEPT !.applied = Append(@, tx)]
    ELSE AddTx(state, tx)

\* A transaction that is added is validated and observed; when that fails it is undone and removed.
Execute(state, tx) ==
    IF ~CanAddTx(state, tx) THEN state
    ELSE IF IsValidOn(tx, unconfirmed.delta, state.applied) THEN [AddTx(state, tx) EXCEPT !.applied = Append(@, tx)]
    ELSE RemoveTx(AddTx(state, tx), tx)

\* The possible outcomes of one round of apply, and of all rounds, from a set of states.
ApplyTx(state, tx, source) ==
    {st \in {state} : MayThrottle(st, source)} \union {Execute(st, tx) : st \in {st \in {state} : MayPass(st)}}

Apply(states, txs, source) ==
    LET results[i \in 0..Len(txs)] ==
            IF i = 0 THEN states ELSE UNION {ApplyTx(st, txs[i], source) : st \in results[i - 1]}
    IN  results[Len(txs)]

\* The same without a look at the transactions.
AddAll(state, txs) ==
    LET results[i \in 0..Len(txs)] ==
            IF i = 0 THEN state
            ELSE IF CanAddTx(results[i - 1], txs[i]) THEN AddTx(results[i - 1], txs[i]) ELSE results[i - 1]
    IN  results[Len(txs)]

\* The modifier is destroyed: the subscriber learns the removals, then the additions.
Finish(state) ==
    /\ ut' = state.ut
    /\ unconfirmed' = [unconfirmed EXCEPT !.applied = state.applied]
    /\ known' = (known \ state.changes.removed) \union state.changes.added

\* update(utInfos) by the transaction dispatcher: first the lock of the cache,
NewMarkUt(txs) ==
    /\ At("new", "idle")
    /\ budget.new > 0
    /\ budget' = [budget EXCEPT !.new = @ - 1]
    /\ batch' = txs
    /\ SetGuard("new", "ut", "pending")
    /\ Goto("new", "lockUt")
    /\ UNCHANGED <<cacheVars, chain, sync, utVars>>

NewLockUt ==
    /\ At("new", "lockUt")
    /\ SetGuard("new", "ut", "writer")
    /\ Goto("new", "tryLock")
    /\ UNCHANGED <<cacheVars, chain, sync, utVars, batch, budget>>

\* then getAndTryLock,
NewTryLock ==
    /\ TryLock("new", unconfirmed.delta, "apply")
    /\ UNCHANGED <<chain, sync, utVars, batch, budget>>

\* and the transactions are applied, or added unseen if a block update is forthcoming.
NewApply ==
    /\ At("new", "apply")
    /\ \E state \in Apply({Start(ut, unconfirmed.applied, {})}, batch, "New") : Finish(state)
    /\ Release("new", Held("new"))
    /\ Goto("new", "idle")
    /\ UNCHANGED <<cacheVars, chain, sync, batch, budget>>

NewAddAll ==
    /\ At("new", "stale")
    /\ Finish(AddAll(Start(ut, unconfirmed.applied, {}), batch))
    /\ Release("new", Held("new"))
    /\ Goto("new", "idle")
    /\ UNCHANGED <<cacheVars, chain, sync, batch, budget>>

NewStep == NewLockUt \/ NewTryLock \/ NewApply \/ NewAddAll

-----------------------------------------------------------------------------
(* BlockchainSyncConsumer                                                  *)

\* preprocess: the storage is readable, the chain is better than what it replaces, and the attached delta is made.
Preprocess(common, blocks, isLocal) ==
    /\ At("block", "idle")
    /\ CanAcquireReader(words["storage"])
    /\ Score(blocks) > Score(SubSeq(chain, common + 1, Len(chain)))
    /\ sync' = [common |-> common, blocks |-> blocks, isLocal |-> isLocal,
                reverted |-> Confirmed(SubSeq(chain, common + 1, Len(chain)))]
    /\ SetGuards("block", AllSubs("reader"))
    /\ Goto("block", "process")
    /\ UNCHANGED <<cacheVars, chain, utVars, batch>>

PreprocessPeer(common, blocks) ==
    /\ budget.peer > 0
    /\ budget' = [budget EXCEPT !.peer = @ - 1]
    /\ common \in 1..Len(chain) /\ common + MaxRollback >= Len(chain)
    /\ Preprocess(common, blocks, FALSE)

CanProcess ==
    AreValid(Confirmed(sync.blocks), ToSet(Confirmed(SubSeq(chain, 1, sync.common))))

Process ==
    /\ At("block", "process") /\ CanProcess
    /\ SetGuard("block", "storage", "pending")
    /\ Goto("block", "lockStorage")
    /\ UNCHANGED <<cacheVars, chain, sync, utVars, batch, budget>>

\* The element is aborted and the attached delta goes.
Refuse ==
    /\ At("block", "process") /\ ~CanProcess
    /\ Release("block", Subs)
    /\ Goto("block", "idle")
    /\ UNCHANGED <<cacheVars, chain, sync, utVars, batch, budget>>

\* commitAll: the storage stays locked from the first change to the end.
LockStorage ==
    /\ At("block", "lockStorage")
    /\ SetGuard("block", "storage", "writer")
    /\ Goto("block", "commit")
    /\ UNCHANGED <<cacheVars, chain, sync, utVars, batch, budget>>

CommitCache ==
    /\ Commit("block", NewChain)
    /\ UNCHANGED <<chain, sync, utVars, batch, budget>>

\* Mutant: the unconfirmed transactions are not updated when no transaction was reverted.
CommitStorageOnly ==
    /\ At("block", "committed")
    /\ chain' = NewChain
    /\ IF sync.reverted = <<>>
       THEN Release("block", Held("block")) /\ Goto("block", "idle")
       ELSE Release("block", Subs) /\ Goto("block", "update")
    /\ UNCHANGED <<cacheVars, sync, utVars, batch, budget>>

\* The delta is released, so that the unconfirmed cache can be rebased, and the storage committed.
CommitStorage ==
    /\ At("block", "committed")
    /\ Release("block", Subs)
    /\ chain' = NewChain
    /\ Goto("block", "update")
    /\ UNCHANGED <<cacheVars, sync, utVars, batch, budget>>

\* update(confirmedTransactionHashes, utInfos): the lock of the cache comes first,
UpdateMarkUt ==
    /\ At("block", "update")
    /\ SetGuard("block", "ut", "pending")
    /\ Goto("block", "lockUt")
    /\ UNCHANGED <<cacheVars, chain, sync, utVars, batch, budget>>

UpdateLockUt ==
    /\ At("block", "lockUt")
    /\ SetGuard("block", "ut", "writer")
    /\ Goto("block", "rebase")
    /\ UNCHANGED <<cacheVars, chain, sync, utVars, batch, budget>>

\* then rebaseAndLock, in one step as only this thread commits caches,
RebaseAndLock ==
    /\ At("block", "rebase")
    /\ CanAcquireReader(words["height"])
    /\ SetGuards("block", AllSubs("reader"))
    /\ unconfirmed' = [delta |-> caches, applied |-> <<>>]
    /\ Goto("block", "apply")
    /\ UNCHANGED <<cacheVars, chain, sync, ut, known, batch, budget>>

\* CollectRevertedTransactionInfos
Reverted == Without(sync.reverted, ToSet(Confirmed(sync.blocks)))

\* Mutant: the transactions that were unconfirmed go first.
AddBackExistingFirst(states) ==
    LET existing == Without(ut, ToSet(Confirmed(sync.blocks)))
    IN  Apply(Apply(states, existing, "Existing"), Reverted, "Reverted")

\* and the reverted transactions are added back before those that were unconfirmed.
AddBack(states) ==
    LET existing == Without(ut, ToSet(Confirmed(sync.blocks)))
    IN  Apply(Apply(states, Reverted, "Reverted"), existing, "Existing")

UpdateApply ==
    /\ At("block", "apply")
    /\ \E state \in AddBack({Start(<<>>, <<>>, ToSet(ut))}) : Finish(state)
    /\ Release("block", Held("block"))
    /\ Goto("block", "idle")
    /\ UNCHANGED <<cacheVars, chain, sync, batch, budget>>

BlockStep ==
    \/ Process \/ Refuse \/ LockStorage \/ CommitCache \/ CommitStorage
    \/ UpdateMarkUt \/ UpdateLockUt \/ RebaseAndLock \/ UpdateApply

-----------------------------------------------------------------------------

IsWriterActive(l) == \E t \in Threads : guards[t][l] \in Exclusive

\* While no update is under way, the subscriber knows the unconfirmed transactions, each of which is there once, and an
\* unconfirmed state that can be locked is the confirmed one with them applied in their order, every one of them valid
\* there: what was added unseen, what was reverted and what a block confirmed has been sorted out by the rebase.
UnconfirmedStateCurrent ==
    ~IsWriterActive("ut") =>
        /\ known = ToSet(ut) /\ IsInjective(ut)
        /\ IsCurrent(unconfirmed.delta) =>
              /\ unconfirmed.delta = caches
              /\ unconfirmed.applied = ut
              /\ \A s \in Subs : AreValid(ut, ToSet(Confirmed(caches[s].chain)))

\* A commit is seen as a whole or not at all.  Whoever keeps the height locked, as every view and every detachable delta
\* does while it is made, finds the state of one chain in all sub caches, one of the cache's height; and while nobody
\* writes the storage, it is the chain the storage has, although the storage is committed after the caches.
CommitsSeenWhole ==
    /\ ~IsWriterActive("height") =>
          \A s, r \in Subs : caches[s].chain = caches[r].chain /\ height = Len(caches[s].chain)
    /\ ~IsWriterActive("storage") => \A s \in Subs : caches[s].chain = chain

\* A block update gives up a transaction that was unconfirmed, or was confirmed by a block that is dropped, only if a new
\* block confirms it, if it is invalid now, or for lack of space, where the dropped blocks' transactions come first.
NoTransactionLost ==
    [][ At("block", "apply") /\ At("block", "idle")' =>
            \A tx \in (ToSet(Reverted) \union ToSet(ut)) \ (ToSet(ut') \union ToSet(Confirmed(chain))) :
                \/ ~IsValid(tx, ToSet(Confirmed(chain)) \union ToSet(ut'))
                \/ tx \in ToSet(Reverted) /\ Len(ut') >= MaxCacheSize /\ ToSet(ut') \subseteq ToSet(Reverted)
                \/ tx \notin ToSet(Reverted) /\ Len(ut') >= MaxTransactionsPerBlock ]_<<at, ut>>

\* The unconfirmed state does not stay out of date: whoever finds it so may rely on the block update to come.
RebaseFollowsCommit == ~IsCurrent(unconfirmed.delta) ~> IsCurrent(unconfirmed.delta)
=============================================================================
