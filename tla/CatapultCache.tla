---------------------------- MODULE CatapultCache ----------------------------
(***************************************************************************)
(* The catapult cache: its sub caches, each a SynchronizedCache with a     *)
(* reader writer lock and a commit counter, and the cache height, whose    *)
(* lock covers a commit of all of them.  An attached delta holds a reader  *)
(* lock of every sub cache, which a commit promotes one after the other; a *)
(* detached delta can be locked only while its sub caches have not been    *)
(* committed since it was made.                                            *)
(*                                                                         *)
(* The locks of the block storage and of the unconfirmed transactions are  *)
(* part of the same table, as deadlocks come from all of them together.    *)
(***************************************************************************)
EXTENDS LockWord, SequenceOps

CONSTANTS
    SubCaches       \* the sub caches, in the order of m_subCaches

ASSUME SubCachesAssumption ==
    /\ SubCaches \in Seq(STRING \ {"storage", "height", "ut"})
    /\ SubCaches # <<>>
    /\ IsInjective(SubCaches)

VARIABLES
    words,          \* the word of each lock
    guards,         \* what each thread holds of each lock
    at,             \* where each thread is, and in a loop over the sub caches at which of them
    caches,         \* of each sub cache: m_commitCounter and the chain whose state it holds
    height          \* m_pCacheHeight

lockVars == <<words, guards>>
cacheVars == <<caches, height>>

Threads == {"block", "new", "harvest"}
Subs == ToSet(SubCaches)
Locks == {"storage", "height", "ut"} \union Subs

Goto(t, label) == at' = [at EXCEPT ![t] = <<label, 1>>]
At(t, label) == at[t][1] = label

\* The sub cache a loop is at, and the step to the next one or past the loop.
Sub(t) == SubCaches[at[t][2]]
NextSub(t, label) ==
    IF at[t][2] < Len(SubCaches) THEN at' = [at EXCEPT ![t][2] = @ + 1] ELSE Goto(t, label)

\* Thread t takes the operations on locks that lead to the guards of "to".
SetGuards(t, to) ==
    /\ \A l \in DOMAIN to : CanMove(words[l], guards[t][l], to[l])
    /\ words' = [l \in Locks |-> IF l \in DOMAIN to THEN Move(words[l], guards[t][l], to[l]) ELSE words[l]]
    /\ guards' = [guards EXCEPT ![t] = [l \in Locks |-> IF l \in DOMAIN to THEN to[l] ELSE @[l]]]

SetGuard(t, lock, guard) == SetGuards(t, [l \in {lock} |-> guard])
AllSubs(guard) == [s \in Subs |-> guard]
Held(t) == {l \in Locks : guards[t][l] # "none"}
Release(t, locks) == SetGuards(t, [l \in locks |-> "none"])

CacheInit(chain) ==
    /\ words = [l \in Locks |-> Unlocked]
    /\ guards = [t \in Threads |-> [l \in Locks |-> "none"]]
    /\ at = [t \in Threads |-> <<"idle", 1>>]
    /\ caches = [s \in Subs |-> [commits |-> 0, chain |-> chain]]
    /\ height = Len(chain)

-----------------------------------------------------------------------------

\* CatapultCache::commit by thread t: the height's writer lock, then each sub cache, then the height.
CommitMarkHeight(t) ==
    /\ At(t, "commit")
    /\ SetGuard(t, "height", "pending")
    /\ Goto(t, "lockHeight")
    /\ UNCHANGED cacheVars

CommitLockHeight(t) ==
    /\ At(t, "lockHeight")
    /\ SetGuard(t, "height", "writer")
    /\ Goto(t, "promote")
    /\ UNCHANGED cacheVars

CommitPromote(t) ==
    /\ At(t, "promote")
    /\ SetGuard(t, Sub(t), "promoting")
    /\ at' = [at EXCEPT ![t] = <<"commitSub", @[2]>>]
    /\ UNCHANGED cacheVars

\* Mutant: the commit counter stays.
CommitSubUncounted(t, chain) ==
    /\ At(t, "commitSub")
    /\ SetGuard(t, Sub(t), "promoted")
    /\ caches' = [caches EXCEPT ![Sub(t)] = [commits |-> @.commits, chain |-> chain]]
    /\ at' = [at EXCEPT ![t] = <<"releaseSub", @[2]>>]
    /\ UNCHANGED height

CommitSub(t, chain) ==
    /\ At(t, "commitSub")
    /\ SetGuard(t, Sub(t), "promoted")
    /\ caches' = [caches EXCEPT ![Sub(t)] = [commits |-> @.commits + 1, chain |-> chain]]
    /\ at' = [at EXCEPT ![t] = <<"releaseSub", @[2]>>]
    /\ UNCHANGED height

\* Mutant: the height is unlocked together with the first sub cache.
CommitReleaseSubAndHeight(t) ==
    /\ At(t, "releaseSub")
    /\ SetGuards(t, [l \in {Sub(t), "height"} |-> IF l = "height" THEN "none" ELSE "reader"])
    /\ IF at[t][2] < Len(SubCaches) THEN at' = [at EXCEPT ![t] = <<"promote", @[2] + 1>>] ELSE Goto(t, "setHeight")
    /\ UNCHANGED cacheVars

CommitReleaseSub(t) ==
    /\ At(t, "releaseSub")
    /\ SetGuard(t, Sub(t), "reader")
    /\ IF at[t][2] < Len(SubCaches) THEN at' = [at EXCEPT ![t] = <<"promote", @[2] + 1>>] ELSE Goto(t, "setHeight")
    /\ UNCHANGED cacheVars

CommitSetHeight(t, chain) ==
    /\ At(t, "setHeight")
    /\ height' = Len(chain)
    /\ Release(t, {"height"})
    /\ Goto(t, "committed")
    /\ UNCHANGED caches

Commit(t, chain) ==
    \/ CommitMarkHeight(t) \/ CommitLockHeight(t) \/ CommitPromote(t)
    \/ CommitSub(t, chain) \/ CommitReleaseSub(t) \/ CommitSetHeight(t, chain)

-----------------------------------------------------------------------------

\* A detached delta is what its sub caches held when it was made.
IsCurrent(delta) == \A s \in Subs : delta[s].commits = caches[s].commits

\* CatapultCacheDetachedDelta::tryLock: the sub caches one after the other, and none if one has been committed since.
TryLock(t, delta, locked) ==
    /\ At(t, "tryLock")
    /\ CanAcquireReader(words[Sub(t)])
    /\ IF delta[Sub(t)].commits = caches[Sub(t)].commits
       THEN SetGuard(t, Sub(t), "reader") /\ NextSub(t, locked)
       ELSE Release(t, Held(t) \intersect Subs) /\ Goto(t, "stale")
    /\ UNCHANGED cacheVars

-----------------------------------------------------------------------------

Lock(l) == INSTANCE SpinReaderWriterLock WITH word <- words[l], guard <- [t \in Threads |-> guards[t][l]]

\* No thread reads or writes a cache, the storage or the unconfirmed transactions while another one writes it.
LocksExclusive == \A l \in Locks : Lock(l)!MutualExclusion
=============================================================================
