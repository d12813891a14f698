----------------------------- MODULE Harvesting -----------------------------
(***************************************************************************)
(* The harvesting task on top of the unconfirmed transactions: it reads    *)
(* the last block, opens a facade, that is a detached delta of its own     *)
(* which keeps the height locked, selects unconfirmed transactions that    *)
(* are valid on it, closes the facade, reads the storage once more for an  *)
(* importance block, and hands the block to the block dispatcher.          *)
(***************************************************************************)
EXTENDS UnconfirmedTransactions

CONSTANTS
    HarvestScore,   \* the score of a harvested block
    MaxHarvests     \* bounds the attempts to harvest

ASSUME HarvestScoreAssumption == HarvestScore \in Nat

VARIABLES
    parent,         \* pLastBlockElement: the chain that ends in it
    facade,         \* the facade's detached delta and the transactions applied to it
    element,        \* the harvested block in the dispatcher: its parent and its transactions
    pending,        \* m_pIsAnyHarvestedBlockPending
    dropped,        \* whether a full dispatcher has refused a harvested block
    harvests

harvestVars == <<parent, facade, element, pending, dropped, harvests>>
nodeVars == <<cacheVars, chain, sync, utVars, batch, budget>>
vars == <<lockVars, at, nodeVars, harvestVars>>

NoElement == [parent |-> <<>>, block |-> [txs |-> <<>>, score |-> 0]]

HarvestInit ==
    /\ Init
    /\ parent = <<>>
    /\ facade = unconfirmed
    /\ element = NoElement
    /\ pending = FALSE /\ dropped = FALSE
    /\ harvests = 0

ReadLastBlock ==
    /\ At("harvest", "idle") /\ ~pending
    /\ harvests < MaxHarvests /\ harvests' = harvests + 1
    /\ CanAcquireReader(words["storage"])
    /\ parent' = chain
    /\ Goto("harvest", "openFacade")
    /\ UNCHANGED <<lockVars, nodeVars, facade, element, pending, dropped>>

\* CacheFacade: createDetachableDelta keeps the height view,
OpenFacade ==
    /\ At("harvest", "openFacade")
    /\ SetGuard("harvest", "height", "reader")
    /\ facade' = [facade EXCEPT !.applied = <<>>]
    /\ Goto("harvest", "detach")
    /\ UNCHANGED <<nodeVars, parent, element, pending, dropped, harvests>>

Detach ==
    /\ At("harvest", "detach")
    /\ CanAcquireReader(words[Sub("harvest")])
    /\ facade' = [facade EXCEPT !.delta[Sub("harvest")] = caches[Sub("harvest")]]
    /\ NextSub("harvest", "tryLock")
    /\ UNCHANGED <<lockVars, nodeVars, parent, element, pending, dropped, harvests>>

FacadeTryLock ==
    /\ TryLock("harvest", facade.delta, "checkHeight")
    /\ UNCHANGED <<chain, sync, utVars, batch, budget, harvestVars>>

\* Mutant: the height of the facade is not compared with that of the block.
HasFacadeHeightAny == TRUE

HasFacadeHeight == Len(parent) + 1 = height + 1

\* The block generator gives up, or takes a view of the unconfirmed transactions.
CheckHeight ==
    /\ At("harvest", "checkHeight")
    /\ IF HasFacadeHeight
       THEN SetGuard("harvest", "ut", "reader") /\ Goto("harvest", "select")
       ELSE Release("harvest", Held("harvest")) /\ Goto("harvest", "idle")
    /\ UNCHANGED <<nodeVars, harvestVars>>

\* The selection strategies differ in the order and the number of transactions: any that the facade can apply in turn.
Selections ==
    {txs \in BoundedSeq(ToSet(ut), MaxTransactionsPerBlock) :
        \A i \in 1..Len(txs) : IsValidOn(txs[i], facade.delta, SubSeq(txs, 1, i - 1))}

SelectTransactions ==
    /\ At("harvest", "select")
    /\ \E txs \in Selections : facade' = [facade EXCEPT !.applied = txs]
    /\ SetGuard("harvest", "ut", "none")
    /\ Goto("harvest", "build")
    /\ UNCHANGED <<nodeVars, parent, element, pending, dropped, harvests>>

\* Mutant: the facade stays open while the storage is read.
BuildBlockInFacade ==
    /\ At("harvest", "build")
    /\ UNCHANGED lockVars
    /\ Goto("harvest", "readImportanceHash")
    /\ UNCHANGED <<nodeVars, harvestVars>>

\* commit: the facade is closed before the storage is asked for the previous importance block, if the block is one, and
\* also when the block cannot be executed.
BuildBlock ==
    /\ At("harvest", "build")
    /\ Release("harvest", Held("harvest"))
    /\ \E label \in {"readImportanceHash", "push", "idle"} : Goto("harvest", label)
    /\ UNCHANGED <<nodeVars, harvestVars>>

ReadImportanceHash ==
    /\ At("harvest", "readImportanceHash")
    /\ CanAcquireReader(words["storage"])
    /\ Goto("harvest", "push")
    /\ UNCHANGED <<lockVars, nodeVars, harvestVars>>

\* The flag is set before the block is pushed, which a full dispatcher ignores.
Push ==
    /\ At("harvest", "push")
    /\ pending' = TRUE
    /\ \/ element' = [parent |-> parent, block |-> [txs |-> facade.applied, score |-> HarvestScore]] /\ UNCHANGED dropped
       \/ UNCHANGED element /\ dropped' = TRUE
    /\ Goto("harvest", "idle")
    /\ UNCHANGED <<lockVars, nodeVars, parent, facade, harvests>>

HarvestStep ==
    \/ OpenFacade \/ Detach \/ FacadeTryLock \/ CheckHeight
    \/ SelectTransactions \/ BuildBlock \/ ReadImportanceHash \/ Push

-----------------------------------------------------------------------------

\* The harvested block is an input of the block dispatcher: it has to link to the chain and to be better.
IsLinked ==
    /\ Len(chain) <= Len(element.parent) + 1
    /\ IsPrefix(element.parent, chain)

IsBetter == element.block.score > Score(SubSeq(chain, Len(element.parent) + 1, Len(chain)))

PreprocessHarvested ==
    /\ element # NoElement /\ IsLinked /\ IsBetter
    /\ Preprocess(Len(element.parent), <<element.block>>, TRUE)
    /\ UNCHANGED <<budget, harvestVars>>

\* Mutant: the completion handler is not called for an element that is aborted.
AbortHarvestedUnreported ==
    /\ At("block", "idle")
    /\ element # NoElement /\ ~(IsLinked /\ IsBetter)
    /\ element' = NoElement
    /\ UNCHANGED <<lockVars, at, nodeVars, parent, facade, pending, dropped, harvests>>

AbortHarvested ==
    /\ At("block", "idle")
    /\ element # NoElement /\ ~(IsLinked /\ IsBetter)
    /\ element' = NoElement
    /\ pending' = FALSE
    /\ UNCHANGED <<lockVars, at, nodeVars, parent, facade, dropped, harvests>>

\* The step with which the block dispatcher is done with an input calls the completion handler.
Completion ==
    IF sync.isLocal /\ At("block", "idle")'
    THEN element' = NoElement /\ pending' = FALSE /\ UNCHANGED <<parent, facade, dropped, harvests>>
    ELSE UNCHANGED harvestVars

DispatcherStep == PreprocessHarvested \/ AbortHarvested \/ (BlockStep /\ Completion)

Step == DispatcherStep \/ (NewStep /\ UNCHANGED harvestVars) \/ HarvestStep

Next ==
    \/ \E common \in 1..Len(chain), blocks \in PeerChains : PreprocessPeer(common, blocks) /\ UNCHANGED harvestVars
    \/ \E txs \in NewBatches : NewMarkUt(txs) /\ UNCHANGED harvestVars
    \/ ReadLastBlock
    \/ Step

\* As long as a thread that has begun can go on, one does; nothing obliges inputs to come.
Fairness == WF_vars(Step)

Spec == HarvestInit /\ [][Next]_vars /\ Fairness

-----------------------------------------------------------------------------

TypeOK ==
    /\ \A l \in Locks : words[l] \in LockWords
    /\ guards \in [Threads -> [Locks -> Guards]]
    /\ DOMAIN caches = Subs /\ \A s \in Subs : caches[s].commits \in Nat
    /\ height \in Nat
    /\ ut \in Seq(Txs) /\ Len(ut) <= MaxCacheSize /\ IsInjective(ut)
    /\ known \subseteq Txs
    /\ pending \in BOOLEAN /\ dropped \in BOOLEAN

\* A thread that works on a detached delta works on the state of one chain, the one the sub caches hold; that of the
\* harvester's facade can always be locked, as nobody commits while it keeps the height locked.
DeltaOfOneChain ==
    /\ ~At("harvest", "stale")
    /\ \A s, r \in Subs :
        /\ At("new", "apply") => unconfirmed.delta[s].chain = caches[r].chain
        /\ at["harvest"][1] \in {"select", "build"} => facade.delta[s].chain = caches[r].chain

\* A harvested block that the dispatcher processes is valid, whatever was committed since it was begun, unless the chain
\* was exchanged for another one of the same height between the read of the last block and the opening of the facade:
\* the block generator compares heights, not hashes.
HarvestedBlockValid ==
    At("block", "process") /\ sync.isLocal =>
        \/ CanProcess
        \/ \A s \in Subs : Len(facade.delta[s].chain) = Len(element.parent) /\ facade.delta[s].chain # element.parent

\* Every operation ends, whatever the other threads hold, so that all threads rest once no more inputs come: no cycle
\* of waiting for the storage, the height, the sub caches and the unconfirmed transactions.
OperationsEnd == <>[](\A t \in Threads : At(t, "idle"))

\* The next harvest is allowed again once the dispatcher is done with a harvested block it took.
HarvestingResumes == pending /\ ~dropped ~> ~pending
=============================================================================
