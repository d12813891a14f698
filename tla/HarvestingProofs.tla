-------------------------- MODULE HarvestingProofs --------------------------
(***************************************************************************)
(* The locks of a node exclude each other, whatever the threads do with    *)
(* them, as long as each thread acquires and releases its guards in pairs: *)
(* each operation of Moves keeps the word of a reader writer lock in step  *)
(* with the guards of the threads, and a writer alone.                     *)
(*                                                                         *)
(* The three threads of a node use the locks in pairs, so that they        *)
(* exclude each other: at every point of its program a thread holds        *)
(* exactly the guards that are written down here for it.                   *)
(*                                                                         *)
(* The locks of the caches are enough: a thread that works on a detached   *)
(* delta works on the state of one chain, the one the sub caches hold.     *)
(* And a commit of all sub caches, the height and the storage is seen as a *)
(* whole or not at all.                                                    *)
(***************************************************************************)
EXTENDS Harvesting, TLAPS

-----------------------------------------------------------------------------
(* The locks                                                               *)

\* The threads that hold one of kinds.
HoldingOf(g, kinds) == {t \in Threads : g[t] \in kinds}

\* Their number: the node has three threads that use the caches.
CountOf(g, kinds) ==
    LET one(t) == IF g[t] \in kinds THEN 1 ELSE 0
    IN  one("block") + one("new") + one("harvest")

WriterGuards == {"pending", "writer", "promoting", "promoted"}

\* The word counts the guards and a writer excludes readers and writers.
WordMatches(w, g) ==
    /\ w \in LockWords /\ g \in [Threads -> Guards]
    /\ w.readers = CountOf(g, {"reader"})
    /\ w.writers = CountOf(g, WriterGuards)
    /\ w.active <=> HoldingOf(g, Exclusive) # {}
    /\ \A t \in HoldingOf(g, Exclusive) : HoldingOf(g, Exclusive \union {"reader"}) = {t}

\* A change of one guard, from the one in g to the one in h, is counted.
LEMMA HoldingCount ==
    ASSUME NEW t \in Threads, NEW g, NEW h, \A u \in Threads \ {t} : h[u] = g[u], NEW kinds
    PROVE  /\ CountOf(g, kinds) \in Nat /\ CountOf(h, kinds) \in Nat
           /\ (h[t] \in kinds <=> g[t] \in kinds) => CountOf(h, kinds) = CountOf(g, kinds)
           /\ h[t] \in kinds /\ g[t] \notin kinds => CountOf(h, kinds) = CountOf(g, kinds) + 1
           /\ h[t] \notin kinds /\ g[t] \in kinds => CountOf(h, kinds) = CountOf(g, kinds) - 1
<1>1. CASE t = "block"
  BY <1>1 DEF CountOf, Threads
<1>2. CASE t = "new"
  BY <1>2 DEF CountOf, Threads
<1>3. CASE t = "harvest"
  BY <1>3 DEF CountOf, Threads
<1> QED
  BY Zenon, <1>1, <1>2, <1>3 DEF Threads

\* Nobody holds a guard when none is counted.
LEMMA NoneCounted ==
    ASSUME NEW g, NEW kinds, CountOf(g, kinds) = 0
    PROVE  HoldingOf(g, kinds) = {}
BY DEF CountOf, HoldingOf, Threads

\* Nobody holds a lock at first.
LEMMA UnlockedMatches ==
    ASSUME NEW g, g = [t \in Threads |-> "none"]
    PROVE  WordMatches(Unlocked, g)
<1>1. g \in [Threads -> Guards] /\ \A t \in Threads : g[t] = "none"
  BY Zenon DEF Guards
<1>2. \A kinds : "none" \notin kinds => HoldingOf(g, kinds) = {} /\ CountOf(g, kinds) = 0
  BY <1>1 DEF HoldingOf, CountOf, Threads
<1>3. /\ CountOf(g, {"reader"}) = 0 /\ CountOf(g, WriterGuards) = 0
      /\ HoldingOf(g, Exclusive) = {}
  BY Zenon, <1>2 DEF WriterGuards, Exclusive
<1> QED
  BY Zenon, <1>1, <1>3 DEF WordMatches, Unlocked, LockWords

\* Every operation on the word keeps it in step with the guards, and a writer alone.
LEMMA MoveKeepsMatching ==
    ASSUME NEW w, NEW g, WordMatches(w, g), NEW t \in Threads, NEW to, CanMove(w, g[t], to)
    PROVE  WordMatches(Move(w, g[t], to), [g EXCEPT ![t] = to])
<1>0. SUFFICES ASSUME NEW h, h = [g EXCEPT ![t] = to]
              PROVE  WordMatches(Move(w, g[t], to), h)
  BY Zenon
<1> DEFINE v == Move(w, g[t], to)
           Readers(f) == CountOf(f, {"reader"})
           Writers(f) == CountOf(f, WriterGuards)
           Active(f) == HoldingOf(f, Exclusive)
           Users(f) == HoldingOf(f, Exclusive \union {"reader"})
<1>1. /\ w \in LockWords /\ g \in [Threads -> Guards] /\ <<g[t], to>> \in Moves
      /\ g[t] \in Guards /\ to \in Guards /\ h \in [Threads -> Guards]
  BY Zenon, <1>0 DEF WordMatches, CanMove, Moves, Guards
<1>2. /\ w.readers = Readers(g) /\ w.writers = Writers(g)
      /\ w.active <=> Active(g) # {}
      /\ \A u \in Active(g) : Users(g) = {u}
  BY Zenon DEF WordMatches
<1>3. w.readers = 0 => HoldingOf(g, {"reader"}) = {}
  BY Zenon, <1>2, NoneCounted
<1>4. w.writers = 0 => HoldingOf(g, WriterGuards) = {}
  BY Zenon, <1>2, NoneCounted
<1>5. h[t] = to /\ \A u \in Threads \ {t} : h[u] = g[u]
  BY Zenon, <1>0, <1>1
<1>6. /\ Readers(g) \in Nat /\ Readers(h) \in Nat
      /\ to = "reader" /\ g[t] # "reader" => Readers(h) = Readers(g) + 1
      /\ to # "reader" /\ g[t] = "reader" => Readers(h) = Readers(g) - 1
      /\ to # "reader" /\ g[t] # "reader" => Readers(h) = Readers(g)
  BY <1>5, HoldingCount
<1>7. /\ Writers(g) \in Nat /\ Writers(h) \in Nat
      /\ (to \in WriterGuards <=> g[t] \in WriterGuards) => Writers(h) = Writers(g)
      /\ to \in WriterGuards /\ g[t] \notin WriterGuards => Writers(h) = Writers(g) + 1
      /\ to \notin WriterGuards /\ g[t] \in WriterGuards => Writers(h) = Writers(g) - 1
  BY <1>5, HoldingCount
<1>8. v \in LockWords /\ v.readers = Readers(h) /\ v.writers = Writers(h)
  <2> HIDE DEF Readers, Writers
  <2> QED
    BY ZenonT(60), <1>1, <1>2, <1>6, <1>7
    DEF Moves, Move, LockWords, WriterGuards, Exclusive, AddReaders, DropReader, AddWriter, DropWriter
<1>9. /\ v.active <=> Active(h) # {}
      /\ \A u \in Active(h) : Users(h) = {u}
  <2>1. CASE to \in Exclusive
    <3>1. HoldingOf(g, {"reader"}) = {} /\ Active(g) = {} /\ v.active
      BY <1>1, <1>2, <1>3, <2>1 DEF CanMove, CanActivateWriter, Moves, Move, Exclusive, LockWords
    <3>2. Active(h) = {t} /\ Users(h) = {t}
      BY <1>5, <2>1, <3>1 DEF HoldingOf
    <3> QED
      BY Zenon, <3>1, <3>2
  <2>2. CASE g[t] \in Exclusive
    <3>1. t \in Active(g) /\ Users(g) = {t} /\ to \notin Exclusive
      BY <1>1, <1>2, <2>2 DEF HoldingOf, Moves, Exclusive
    <3>2. Active(h) = {}
      BY <1>5, <3>1 DEF HoldingOf
    <3>3. ~v.active
      BY <1>1, <2>2 DEF Moves, Move, Exclusive, LockWords, AddReaders, DropWriter
    <3> QED
      BY <3>2, <3>3
  <2>3. CASE to \notin Exclusive /\ g[t] \notin Exclusive
    <3>1. Active(h) = Active(g)
      BY <1>5, <2>3 DEF HoldingOf
    <3>2. v.active = w.active
      BY <1>1, <2>3 DEF Moves, Move, Exclusive, LockWords, AddReaders, DropReader, AddWriter
    <3>3. to = "reader" => Active(g) = {}
      <4>1. to = "reader" => HoldingOf(g, WriterGuards) = {}
        BY <1>1, <1>4, <2>3 DEF CanMove, CanAcquireReader, Moves, Exclusive
      <4> QED
        BY <4>1 DEF HoldingOf, WriterGuards, Exclusive
    <3>4. \A u \in Active(g) : Users(h) \subseteq Users(g) /\ u \in Users(h)
      BY Zenon, <1>5, <2>3, <3>1, <3>3 DEF HoldingOf
    <3> QED
      BY Zenon, <1>2, <3>1, <3>2, <3>4
  <2> QED
    BY Zenon, <2>1, <2>2, <2>3
<1> QED
  BY Zenon, <1>1, <1>8, <1>9 DEF WordMatches

-----------------------------------------------------------------------------
(* The locks of the caches. *)

\* The guards that the threads hold of lock l.
GuardsOf(l) == [t \in Threads |-> guards[t][l]]

\* All words are in step with the guards.
LocksMatch == \A l \in Locks : WordMatches(words[l], GuardsOf(l))

\* The operations of the instance for lock l are those of LockWord.
LEMMA LockOperations ==
    ASSUME NEW l, NEW w, NEW from, NEW to
    PROVE  /\ Lock(l)!CanMove(w, from, to) <=> CanMove(w, from, to)
           /\ Lock(l)!Move(w, from, to) = Move(w, from, to)
<1>1. Lock(l)!CanMove(w, from, to) <=> CanMove(w, from, to)
  BY Zenon DEF Lock!CanMove, Lock!CanAcquireReader, Lock!CanMarkWriter, Lock!CanActivateWriter, Lock!Moves, Lock!Exclusive,
      CanMove, CanAcquireReader, CanMarkWriter, CanActivateWriter, Moves, Exclusive
<1>2. Lock(l)!Move(w, from, to) = Move(w, from, to)
  BY Zenon DEF Lock!Move, Lock!AddReaders, Lock!DropReader, Lock!AddWriter, Lock!DropWriter, Lock!Exclusive,
      Move, AddReaders, DropReader, AddWriter, DropWriter, Exclusive
<1> QED
  BY Zenon, <1>1, <1>2

\* A step of a lock keeps its word in step with the guards.
LEMMA LockStep ==
    ASSUME LocksMatch, NEW l \in Locks, [Lock(l)!Next]_(Lock(l)!vars)
    PROVE  WordMatches(words'[l], GuardsOf(l)')
<1>0. WordMatches(words[l], GuardsOf(l))
  BY Zenon DEF LocksMatch
<1>1. CASE Lock(l)!Next
  <2>1. PICK t \in Threads, from \in Guards, to \in Guards : Lock(l)!Change(t, from, to)
    BY Zenon, <1>1 DEF Lock!Next, Lock!AcquireReader, Lock!ReleaseReader, Lock!MarkWriter, Lock!ActivateWriter,
        Lock!ReleaseWriter, Lock!PromoteToWriter, Lock!ActivatePromoted, Lock!ReleasePromoted, Guards
  <2>2. /\ GuardsOf(l)[t] = from
        /\ CanMove(words[l], from, to)
        /\ words'[l] = Move(words[l], from, to)
        /\ GuardsOf(l)' = [GuardsOf(l) EXCEPT ![t] = to]
    BY <2>1, LockOperations DEF Lock!Change, GuardsOf
  <2>3. WordMatches(Move(words[l], GuardsOf(l)[t], to), [GuardsOf(l) EXCEPT ![t] = to])
    BY Zenon, <1>0, <2>2, MoveKeepsMatching
  <2> QED
    BY Zenon, <2>2, <2>3
<1>2. CASE UNCHANGED Lock(l)!vars
  BY Zenon, <1>0, <1>2 DEF Lock!vars, GuardsOf
<1> QED
  BY Zenon, <1>1, <1>2

\* Words that are in step with the guards keep writers apart from all others.
LEMMA MatchingExcludes == LocksMatch => LocksExclusive
<1> SUFFICES ASSUME LocksMatch, NEW l \in Locks
             PROVE  Lock(l)!MutualExclusion
  BY DEF LocksExclusive
<1>1. WordMatches(words[l], GuardsOf(l))
  BY DEF LocksMatch
<1> QED
  BY Zenon, <1>1 DEF WordMatches, HoldingOf, Lock!MutualExclusion, Lock!Holding, Lock!Exclusive, Exclusive, GuardsOf

\* Threads change the word of a lock only by the operations of their guards, which they acquire and release in pairs.
LocksUsedInPairs ==
    /\ \A l \in Locks : Lock(l)!Init
    /\ [][\A l \in Locks : [Lock(l)!Next]_(Lock(l)!vars)]_lockVars

\* While the threads use the locks in pairs of acquisitions and releases, which the code does with RAII guards, no
\* thread reads or writes anything that another one writes, whatever the sub caches are.
THEOREM LocksAreExclusive == LocksUsedInPairs => []LocksExclusive
<1>1. (\A l \in Locks : Lock(l)!Init) => LocksMatch
  <2> SUFFICES ASSUME NEW l \in Locks, Lock(l)!Init
               PROVE  WordMatches(words[l], GuardsOf(l))
    BY Zenon DEF LocksMatch
  <2>1. words[l] = Unlocked /\ GuardsOf(l) = [t \in Threads |-> "none"]
    BY Zenon DEF Lock!Init, Lock!Unlocked, Unlocked, GuardsOf
  <2> QED
    BY Zenon, <2>1, UnlockedMatches
<1>2. LocksMatch /\ [\A l \in Locks : [Lock(l)!Next]_(Lock(l)!vars)]_lockVars => LocksMatch'
  <2> SUFFICES ASSUME LocksMatch, [\A l \in Locks : [Lock(l)!Next]_(Lock(l)!vars)]_lockVars
               PROVE  LocksMatch'
    BY Zenon
  <2>1. CASE \A l \in Locks : [Lock(l)!Next]_(Lock(l)!vars)
    BY Zenon, <2>1, LockStep DEF LocksMatch
  <2>2. CASE UNCHANGED lockVars
    BY Zenon, <2>2 DEF lockVars, LocksMatch, GuardsOf
  <2> QED
    BY Zenon, <2>1, <2>2
<1> QED
  BY <1>1, <1>2, MatchingExcludes, PTL DEF LocksUsedInPairs

-----------------------------------------------------------------------------
(* The threads                                                             *)

\* The places of the threads.
Labels == {"idle", "process", "lockStorage", "commit", "lockHeight", "promote", "commitSub", "releaseSub", "setHeight",
           "committed", "update", "lockUt", "rebase", "apply", "tryLock", "stale", "openFacade", "detach", "checkHeight",
           "select", "build", "readImportanceHash", "push"}

\* What a thread holds of lock l at the k-th round of a point of its program.
BlockGuard(label, k, l) ==
    IF l = "storage" THEN IF label \in {"idle", "process"} THEN "none"
                          ELSE IF label = "lockStorage" THEN "pending" ELSE "writer"
    ELSE IF l = "height" THEN IF label = "lockHeight" THEN "pending"
                              ELSE IF label \in {"promote", "commitSub", "releaseSub", "setHeight"} THEN "writer" ELSE "none"
    ELSE IF l = "ut" THEN IF label = "lockUt" THEN "pending"
                          ELSE IF label \in {"rebase", "apply"} THEN "writer" ELSE "none"
    ELSE IF label \in {"idle", "update", "lockUt", "rebase"} THEN "none"
    ELSE IF label = "commitSub" /\ l = SubCaches[k] THEN "promoting"
    ELSE IF label = "releaseSub" /\ l = SubCaches[k] THEN "promoted" ELSE "reader"

\* The sub caches that tryLock has locked when it is at the k-th.
LockedBefore(label, k) ==
    IF label = "tryLock" THEN {SubCaches[i] : i \in 1 .. (k - 1)}
    ELSE IF label \in {"apply", "checkHeight", "select", "build"} THEN Subs ELSE {}

NewGuard(label, k, l) ==
    IF l = "ut" THEN IF label = "idle" THEN "none" ELSE IF label = "lockUt" THEN "pending" ELSE "writer"
    ELSE IF l \in LockedBefore(label, k) THEN "reader" ELSE "none"

HarvestGuard(label, k, l) ==
    IF l = "height" THEN IF label \in {"detach", "tryLock", "checkHeight", "select", "build", "stale"} THEN "reader" ELSE "none"
    ELSE IF l = "ut" THEN IF label = "select" THEN "reader" ELSE "none"
    ELSE IF l \in LockedBefore(label, k) THEN "reader" ELSE "none"

\* The inductive invariant: what every thread holds follows from where it is.
GuardsFollow ==
    /\ guards \in [Threads -> [Locks -> Guards]]
    /\ at \in [Threads -> Labels \X (1 .. Len(SubCaches))]
    /\ \A l \in Locks :
        /\ guards["block"][l] = BlockGuard(at["block"][1], at["block"][2], l)
        /\ guards["new"][l] = NewGuard(at["new"][1], at["new"][2], l)
        /\ guards["harvest"][l] = HarvestGuard(at["harvest"][1], at["harvest"][2], l)

-----------------------------------------------------------------------------

\* Every step of a lock is one of its moves by one thread.
LEMMA MoveIsLockStep ==
    ASSUME NEW l \in Locks, NEW t \in Threads, NEW to,
           CanMove(words[l], guards[t][l], to),
           words'[l] = Move(words[l], guards[t][l], to),
           guards'[t][l] = to,
           \A u \in Threads \ {t} : guards'[u][l] = guards[u][l]
    PROVE  Lock(l)!Next
<1>1. /\ Lock(l)!CanMove(words[l], guards[t][l], to)
      /\ Lock(l)!Move(words[l], guards[t][l], to) = Move(words[l], guards[t][l], to)
  BY LockOperations
<1>2. [u \in Threads |-> guards'[u][l]] = [[u \in Threads |-> guards[u][l]] EXCEPT ![t] = to]
  BY Zenon
<1>3. Lock(l)!Change(t, guards[t][l], to)
  BY Zenon, <1>1, <1>2 DEF Lock!Change
<1>4. <<guards[t][l], to>> \in Moves
  BY Zenon DEF CanMove
<1> QED
  BY Zenon, <1>3, <1>4 DEF Lock!Next, Moves, Lock!AcquireReader, Lock!ReleaseReader, Lock!MarkWriter, Lock!ActivateWriter,
        Lock!ReleaseWriter, Lock!PromoteToWriter, Lock!ActivatePromoted, Lock!ReleasePromoted

\* What a step of thread t does with the locks: it moves them as threads may, and changes no guards of other threads.
LocksMove == \A l \in Locks : [Lock(l)!Next]_(Lock(l)!vars)

LocksMoved(t) ==
    /\ LocksMove
    /\ guards' \in [Threads -> [Locks -> Guards]]
    /\ \A u \in Threads \ {t} : guards'[u] = guards[u]

\* Moving several guards of a thread is a step of each of their locks.
LEMMA SetGuardsIsLockStep ==
    ASSUME NEW t \in Threads, NEW to, DOMAIN to \subseteq Locks, guards \in [Threads -> [Locks -> Guards]],
           SetGuards(t, to)
    PROVE  /\ LocksMoved(t)
           /\ \A l \in Locks : guards'[t][l] = IF l \in DOMAIN to THEN to[l] ELSE guards[t][l]
<1>1. guards'[t] = [l \in Locks |-> IF l \in DOMAIN to THEN to[l] ELSE guards[t][l]]
  BY Zenon DEF SetGuards
<1>2. \A u \in Threads \ {t} : guards'[u] = guards[u]
  BY Zenon DEF SetGuards
<1>3. \A l \in DOMAIN to : to[l] \in Guards
  BY Zenon DEF SetGuards, CanMove, Moves, Guards
<1>4. guards'[t] \in [Locks -> Guards]
  BY Zenon, <1>1, <1>3
<1>5. guards' \in [Threads -> [Locks -> Guards]]
  BY Zenon, <1>2, <1>4 DEF SetGuards
<1>6. ASSUME NEW l \in Locks
      PROVE  [Lock(l)!Next]_(Lock(l)!vars)
  <2>1. CASE l \in DOMAIN to
    <3>1. /\ CanMove(words[l], guards[t][l], to[l])
          /\ words'[l] = Move(words[l], guards[t][l], to[l])
          /\ guards'[t][l] = to[l]
      BY Zenon, <1>1, <2>1 DEF SetGuards
    <3> QED
      BY Zenon, <3>1, <1>2, MoveIsLockStep
  <2>2. CASE l \notin DOMAIN to
    <3>1. words'[l] = words[l] /\ \A u \in Threads : guards'[u][l] = guards[u][l]
      BY Zenon, <1>1, <1>2, <2>2 DEF SetGuards
    <3> QED
      BY Zenon, <3>1 DEF Lock!vars
  <2> QED
    BY Zenon, <2>1, <2>2
<1> QED
  BY Zenon, <1>1, <1>2, <1>5, <1>6 DEF LocksMoved, LocksMove

\* The sub caches are named by their ids, none of which is the name of another lock.
LEMMA SubCachesType ==
    /\ Len(SubCaches) \in Nat \ {0} /\ DOMAIN SubCaches = 1 .. Len(SubCaches)
    /\ \A i \in 1 .. Len(SubCaches) : SubCaches[i] \in Subs
    /\ \A s \in Subs : \E i \in 1 .. Len(SubCaches) : s = SubCaches[i]
    /\ \A i, j \in 1 .. Len(SubCaches) : SubCaches[i] = SubCaches[j] => i = j
    /\ "storage" \notin Subs /\ "height" \notin Subs /\ "ut" \notin Subs
    /\ Subs \subseteq Locks /\ "storage" \in Locks /\ "height" \in Locks /\ "ut" \in Locks
    /\ \A l \in Locks : l \in Subs \/ l \in {"storage", "height", "ut"}
<1>1. Len(SubCaches) \in Nat \ {0} /\ DOMAIN SubCaches = 1 .. Len(SubCaches)
  BY SubCachesAssumption
<1>2. Subs = {SubCaches[i] : i \in 1 .. Len(SubCaches)}
  BY Zenon, <1>1 DEF Subs, ToSet
<1>3. \A i \in 1 .. Len(SubCaches) : SubCaches[i] \notin {"storage", "height", "ut"}
  BY SubCachesAssumption
<1>4. \A i, j \in 1 .. Len(SubCaches) : SubCaches[i] = SubCaches[j] => i = j
  BY Zenon, <1>1, SubCachesAssumption DEF IsInjective
<1> QED
  BY Zenon, <1>1, <1>2, <1>3, <1>4 DEF Locks

\* The locks are those of the sub caches and three more.
LEMMA LockNames ==
    /\ "storage" \notin Subs /\ "height" \notin Subs /\ "ut" \notin Subs
    /\ Subs \subseteq Locks /\ "storage" \in Locks /\ "height" \in Locks /\ "ut" \in Locks
    /\ \A l \in Locks : l \in Subs \/ l \in {"storage", "height", "ut"}
BY Zenon, SubCachesType

\* A round of a loop over the sub caches is at one of them.
LEMMA Rounds ==
    /\ Len(SubCaches) \in Nat /\ 1 \in 1 .. Len(SubCaches)
    /\ \A k \in 1 .. Len(SubCaches) : k \in Nat /\ SubCaches[k] \in Subs /\ SubCaches[k] \in Locks
BY SubCachesType

\* tryLock goes through the sub caches in their order.
LEMMA TryLocked ==
    ASSUME NEW k \in 1 .. Len(SubCaches)
    PROVE  /\ LockedBefore("tryLock", k + 1) = LockedBefore("tryLock", k) \union {SubCaches[k]}
           /\ k = Len(SubCaches) => LockedBefore("tryLock", k) \union {SubCaches[k]} = Subs
           /\ LockedBefore("tryLock", k) \subseteq Subs
           /\ SubCaches[k] \notin LockedBefore("tryLock", k)
<1>1. LockedBefore("tryLock", k) = {SubCaches[i] : i \in 1 .. (k - 1)}
  BY Zenon DEF LockedBefore
<1>2. LockedBefore("tryLock", k + 1) = {SubCaches[i] : i \in 1 .. k}
  BY Rounds DEF LockedBefore
<1>3. Subs = {SubCaches[i] : i \in 1 .. Len(SubCaches)}
  BY SubCachesType
<1>4. LockedBefore("tryLock", k + 1) = LockedBefore("tryLock", k) \union {SubCaches[k]}
  BY <1>1, <1>2, Rounds
<1>5. k = Len(SubCaches) => LockedBefore("tryLock", k + 1) = Subs
  BY Zenon, <1>2, <1>3
<1>6. LockedBefore("tryLock", k) \subseteq Subs
  BY <1>1, <1>3, Rounds
<1>7. SubCaches[k] \notin LockedBefore("tryLock", k)
  BY <1>1, SubCachesType
<1> QED
  BY Zenon, <1>4, <1>5, <1>6, <1>7

\* What tryLock has locked, before it, in it and after it.
LEMMA LockedAt ==
    /\ LockedBefore("tryLock", 1) = {}
    /\ \A k : \A label \in {"apply", "checkHeight", "select", "build"} : LockedBefore(label, k) = Subs
    /\ \A k : \A label \in Labels \ {"tryLock", "apply", "checkHeight", "select", "build"} : LockedBefore(label, k) = {}
BY DEF LockedBefore, Labels

\* Moving one guard.
LEMMA SetGuardMoves ==
    ASSUME GuardsFollow, NEW t \in Threads, NEW lock \in Locks, NEW guard, SetGuard(t, lock, guard)
    PROVE  LocksMoved(t) /\ guards'[t][lock] = guard /\ \A l \in Locks \ {lock} : guards'[t][l] = guards[t][l]
<1> DEFINE to == [l \in {lock} |-> guard]
<1>1. DOMAIN to = {lock} /\ to[lock] = guard
  BY Zenon
<1>2. SetGuards(t, to)
  BY Zenon DEF SetGuard
<1>3. guards \in [Threads -> [Locks -> Guards]]
  BY Zenon DEF GuardsFollow
<1> HIDE DEF to
<1>4. LocksMoved(t) /\ \A l \in Locks : guards'[t][l] = IF l \in DOMAIN to THEN to[l] ELSE guards[t][l]
  BY <1>1, <1>2, <1>3, SetGuardsIsLockStep
<1> QED
  BY Zenon, <1>1, <1>4

\* Locking all the sub caches (CatapultCache::createDelta, rebaseAndLock).
LEMMA AllSubsMoves ==
    ASSUME GuardsFollow, NEW t \in Threads, NEW guard, SetGuards(t, AllSubs(guard))
    PROVE  /\ LocksMoved(t)
           /\ \A l \in Locks : guards'[t][l] = IF l \in Subs THEN guard ELSE guards[t][l]
<1>1. DOMAIN AllSubs(guard) = Subs /\ \A l \in Subs : AllSubs(guard)[l] = guard
  BY Zenon DEF AllSubs
<1>2. guards \in [Threads -> [Locks -> Guards]]
  BY Zenon DEF GuardsFollow
<1>3. PICK to : to = AllSubs(guard)
  BY Zenon
<1>4. SetGuards(t, to) /\ DOMAIN to = Subs /\ \A l \in Subs : to[l] = guard
  BY Zenon, <1>1, <1>3 DEF SetGuards
<1>5. LocksMoved(t) /\ \A l \in Locks : guards'[t][l] = IF l \in DOMAIN to THEN to[l] ELSE guards[t][l]
  BY Zenon, <1>2, <1>4, SubCachesType, SetGuardsIsLockStep
<1> QED
  BY Zenon, <1>4, <1>5

\* Releasing guards by leaving their scope.
LEMMA ReleaseMoves ==
    ASSUME GuardsFollow, NEW t \in Threads, NEW locks \in SUBSET Locks, Release(t, locks)
    PROVE  /\ LocksMoved(t)
           /\ \A l \in Locks : guards'[t][l] = IF l \in locks THEN "none" ELSE guards[t][l]
<1> DEFINE to == [l \in locks |-> "none"]
<1>1. DOMAIN to = locks /\ \A l \in locks : to[l] = "none"
  BY Zenon
<1>2. SetGuards(t, to)
  BY Zenon DEF Release
<1>3. guards \in [Threads -> [Locks -> Guards]]
  BY Zenon DEF GuardsFollow
<1> HIDE DEF to
<1>4. LocksMoved(t) /\ \A l \in Locks : guards'[t][l] = IF l \in DOMAIN to THEN to[l] ELSE guards[t][l]
  BY Zenon, <1>1, <1>2, <1>3, SetGuardsIsLockStep
<1> QED
  BY Zenon, <1>1, <1>4

\* A thread that gives up all it holds has nothing.
LEMMA ReleaseAll ==
    ASSUME GuardsFollow, NEW t \in Threads, Release(t, Held(t))
    PROVE  LocksMoved(t) /\ \A l \in Locks : guards'[t][l] = "none"
<1>1. PICK locks \in SUBSET Locks : locks = Held(t)
  BY Zenon DEF Held
<1>2. Release(t, locks)
  BY Zenon, <1>1 DEF Release
<1> QED
  BY <1>1, <1>2, ReleaseMoves DEF Held, LocksMoved

-----------------------------------------------------------------------------

\* A thread goes to another label.
LEMMA Goes ==
    ASSUME GuardsFollow, NEW t \in Threads, NEW label \in Labels, NEW k \in 1 .. Len(SubCaches),
           at' = [at EXCEPT ![t] = <<label, k>>]
    PROVE  /\ at' \in [Threads -> Labels \X (1 .. Len(SubCaches))]
           /\ at'[t][1] = label /\ at'[t][2] = k
           /\ \A u \in Threads \ {t} : at'[u] = at[u]
BY Zenon DEF GuardsFollow

\* A step keeps to the locks, and its thread holds what it should.
LocksFollow == LocksMove /\ GuardsFollow'

\* A step of the block dispatcher after which it holds what it should.
LEMMA BlockGoes ==
    ASSUME GuardsFollow, NEW label \in Labels, NEW k \in 1 .. Len(SubCaches),
           LocksMoved("block"), at' = [at EXCEPT !["block"] = <<label, k>>],
           \A l \in Locks : guards'["block"][l] = BlockGuard(label, k, l)
    PROVE  LocksFollow
<1>1. /\ at' \in [Threads -> Labels \X (1 .. Len(SubCaches))]
      /\ at'["block"][1] = label /\ at'["block"][2] = k
      /\ at'["new"] = at["new"] /\ at'["harvest"] = at["harvest"]
  BY Zenon, Goes DEF Threads
<1>2. guards'["new"] = guards["new"] /\ guards'["harvest"] = guards["harvest"]
  BY Zenon DEF LocksMoved, Threads
<1> QED
  BY Zenon, <1>1, <1>2 DEF GuardsFollow, LocksMoved, LocksFollow

\* A step of the transaction dispatcher after which it holds what it should.
LEMMA NewGoes ==
    ASSUME GuardsFollow, NEW label \in Labels, NEW k \in 1 .. Len(SubCaches),
           LocksMoved("new"), at' = [at EXCEPT !["new"] = <<label, k>>],
           \A l \in Locks : guards'["new"][l] = NewGuard(label, k, l)
    PROVE  LocksFollow
<1>1. /\ at' \in [Threads -> Labels \X (1 .. Len(SubCaches))]
      /\ at'["new"][1] = label /\ at'["new"][2] = k
      /\ at'["block"] = at["block"] /\ at'["harvest"] = at["harvest"]
  BY Zenon, Goes DEF Threads
<1>2. guards'["block"] = guards["block"] /\ guards'["harvest"] = guards["harvest"]
  BY Zenon DEF LocksMoved, Threads
<1> QED
  BY Zenon, <1>1, <1>2 DEF GuardsFollow, LocksMoved, LocksFollow

\* A step of the harvester after which it holds what it should.
LEMMA HarvestGoes ==
    ASSUME GuardsFollow, NEW label \in Labels, NEW k \in 1 .. Len(SubCaches),
           LocksMoved("harvest"), at' = [at EXCEPT !["harvest"] = <<label, k>>],
           \A l \in Locks : guards'["harvest"][l] = HarvestGuard(label, k, l)
    PROVE  LocksFollow
<1>1. /\ at' \in [Threads -> Labels \X (1 .. Len(SubCaches))]
      /\ at'["harvest"][1] = label /\ at'["harvest"][2] = k
      /\ at'["block"] = at["block"] /\ at'["new"] = at["new"]
  BY Zenon, Goes DEF Threads
<1>2. guards'["block"] = guards["block"] /\ guards'["new"] = guards["new"]
  BY Zenon DEF LocksMoved, Threads
<1> QED
  BY Zenon, <1>1, <1>2 DEF GuardsFollow, LocksMoved, LocksFollow

\* Giving up a delta of all the sub caches.
LEMMA ReleaseSubs ==
    ASSUME GuardsFollow, NEW t \in Threads, Release(t, Subs)
    PROVE  /\ LocksMoved(t)
           /\ \A l \in Locks : guards'[t][l] = IF l \in Subs THEN "none" ELSE guards[t][l]
<1>1. Subs \in SUBSET Locks
  BY Zenon, LockNames
<1> QED
  BY Zenon, <1>1, ReleaseMoves

\* A step that leaves the locks alone.
LEMMA LocksStay ==
    ASSUME GuardsFollow, UNCHANGED lockVars, NEW t
    PROVE  LocksMoved(t) /\ guards' = guards
<1>1. words' = words /\ guards' = guards
  BY Zenon DEF lockVars
<1>2. ASSUME NEW l \in Locks PROVE UNCHANGED Lock(l)!vars
  BY Zenon, <1>1 DEF Lock!vars
<1> QED
  BY Zenon, <1>1, <1>2 DEF LocksMoved, LocksMove, GuardsFollow

\* The block dispatcher holds what its place in BlockchainSyncConsumer, commit and update says.
LEMMA BlockFollows ==
    ASSUME GuardsFollow
    PROVE  /\ BlockStep => LocksFollow
           /\ \A common, blocks, isLocal : Preprocess(common, blocks, isLocal) => LocksFollow
<1>1. ASSUME Process PROVE LocksFollow
  <2>1. /\ at["block"][1] = "process" /\ at' = [at EXCEPT !["block"] = <<"lockStorage", 1>>]
        /\ SetGuard("block", "storage", "pending")
    BY Zenon, <1>1 DEF Process, At, Goto
  <2>2. /\ LocksMoved("block") /\ guards'["block"]["storage"] = "pending"
        /\ \A l \in Locks \ {"storage"} : guards'["block"][l] = guards["block"][l]
    BY Zenon, <2>1, SetGuardMoves, SubCachesType DEF Threads
  <2>3. "process" \in Labels /\ "lockStorage" \in Labels /\ 1 \in 1 .. Len(SubCaches)
    BY Zenon, Rounds DEF Labels
  <2>4. \A l \in Locks : guards["block"][l] = BlockGuard("process", at["block"][2], l)
    BY Zenon, <2>1 DEF GuardsFollow
  <2>5. \A l \in Locks : guards'["block"][l] = BlockGuard("lockStorage", 1, l)
    BY <2>2, <2>3, <2>4, LockNames DEF BlockGuard
  <2> QED
    BY Zenon, <2>1, <2>2, <2>3, <2>5, BlockGoes
<1>2. ASSUME LockStorage PROVE LocksFollow
  <2>1. /\ at["block"][1] = "lockStorage" /\ at' = [at EXCEPT !["block"] = <<"commit", 1>>]
        /\ SetGuard("block", "storage", "writer")
    BY Zenon, <1>2 DEF LockStorage, At, Goto
  <2>2. /\ LocksMoved("block") /\ guards'["block"]["storage"] = "writer"
        /\ \A l \in Locks \ {"storage"} : guards'["block"][l] = guards["block"][l]
    BY Zenon, <2>1, SetGuardMoves, SubCachesType DEF Threads
  <2>3. "lockStorage" \in Labels /\ "commit" \in Labels /\ 1 \in 1 .. Len(SubCaches)
    BY Zenon, Rounds DEF Labels
  <2>4. \A l \in Locks : guards["block"][l] = BlockGuard("lockStorage", at["block"][2], l)
    BY Zenon, <2>1 DEF GuardsFollow
  <2>5. \A l \in Locks : guards'["block"][l] = BlockGuard("commit", 1, l)
    BY <2>2, <2>3, <2>4, LockNames DEF BlockGuard
  <2> QED
    BY Zenon, <2>1, <2>2, <2>3, <2>5, BlockGoes
<1>3. ASSUME CommitMarkHeight("block") PROVE LocksFollow
  <2>1. /\ at["block"][1] = "commit" /\ at' = [at EXCEPT !["block"] = <<"lockHeight", 1>>]
        /\ SetGuard("block", "height", "pending")
    BY Zenon, <1>3 DEF CommitMarkHeight, At, Goto
  <2>2. /\ LocksMoved("block") /\ guards'["block"]["height"] = "pending"
        /\ \A l \in Locks \ {"height"} : guards'["block"][l] = guards["block"][l]
    BY Zenon, <2>1, SetGuardMoves, SubCachesType DEF Threads
  <2>3. "commit" \in Labels /\ "lockHeight" \in Labels /\ 1 \in 1 .. Len(SubCaches)
    BY Zenon, Rounds DEF Labels
  <2>4. \A l \in Locks : guards["block"][l] = BlockGuard("commit", at["block"][2], l)
    BY Zenon, <2>1 DEF GuardsFollow
  <2>5. \A l \in Locks : guards'["block"][l] = BlockGuard("lockHeight", 1, l)
    BY <2>2, <2>3, <2>4, LockNames DEF BlockGuard
  <2> QED
    BY Zenon, <2>1, <2>2, <2>3, <2>5, BlockGoes
<1>4. ASSUME CommitLockHeight("block") PROVE LocksFollow
  <2>1. /\ at["block"][1] = "lockHeight" /\ at' = [at EXCEPT !["block"] = <<"promote", 1>>]
        /\ SetGuard("block", "height", "writer")
    BY Zenon, <1>4 DEF CommitLockHeight, At, Goto
  <2>2. /\ LocksMoved("block") /\ guards'["block"]["height"] = "writer"
        /\ \A l \in Locks \ {"height"} : guards'["block"][l] = guards["block"][l]
    BY Zenon, <2>1, SetGuardMoves, SubCachesType DEF Threads
  <2>3. "lockHeight" \in Labels /\ "promote" \in Labels /\ 1 \in 1 .. Len(SubCaches)
    BY Zenon, Rounds DEF Labels
  <2>4. \A l \in Locks : guards["block"][l] = BlockGuard("lockHeight", at["block"][2], l)
    BY Zenon, <2>1 DEF GuardsFollow
  <2>5. \A l \in Locks : guards'["block"][l] = BlockGuard("promote", 1, l)
    BY <2>2, <2>3, <2>4, LockNames DEF BlockGuard
  <2> QED
    BY Zenon, <2>1, <2>2, <2>3, <2>5, BlockGoes
<1>5. ASSUME UpdateMarkUt PROVE LocksFollow
  <2>1. /\ at["block"][1] = "update" /\ at' = [at EXCEPT !["block"] = <<"lockUt", 1>>]
        /\ SetGuard("block", "ut", "pending")
    BY Zenon, <1>5 DEF UpdateMarkUt, At, Goto
  <2>2. /\ LocksMoved("block") /\ guards'["block"]["ut"] = "pending"
        /\ \A l \in Locks \ {"ut"} : guards'["block"][l] = guards["block"][l]
    BY Zenon, <2>1, SetGuardMoves, SubCachesType DEF Threads
  <2>3. "update" \in Labels /\ "lockUt" \in Labels /\ 1 \in 1 .. Len(SubCaches)
    BY Zenon, Rounds DEF Labels
  <2>4. \A l \in Locks : guards["block"][l] = BlockGuard("update", at["block"][2], l)
    BY Zenon, <2>1 DEF GuardsFollow
  <2>5. \A l \in Locks : guards'["block"][l] = BlockGuard("lockUt", 1, l)
    BY <2>2, <2>3, <2>4, LockNames DEF BlockGuard
  <2> QED
    BY Zenon, <2>1, <2>2, <2>3, <2>5, BlockGoes
<1>6. ASSUME UpdateLockUt PROVE LocksFollow
  <2>1. /\ at["block"][1] = "lockUt" /\ at' = [at EXCEPT !["block"] = <<"rebase", 1>>]
        /\ SetGuard("block", "ut", "writer")
    BY Zenon, <1>6 DEF UpdateLockUt, At, Goto
  <2>2. /\ LocksMoved("block") /\ guards'["block"]["ut"] = "writer"
        /\ \A l \in Locks \ {"ut"} : guards'["block"][l] = guards["block"][l]
    BY Zenon, <2>1, SetGuardMoves, SubCachesType DEF Threads
  <2>3. "lockUt" \in Labels /\ "rebase" \in Labels /\ 1 \in 1 .. Len(SubCaches)
    BY Zenon, Rounds DEF Labels
  <2>4. \A l \in Locks : guards["block"][l] = BlockGuard("lockUt", at["block"][2], l)
    BY Zenon, <2>1 DEF GuardsFollow
  <2>5. \A l \in Locks : guards'["block"][l] = BlockGuard("rebase", 1, l)
    BY ZenonT(60), <2>2, <2>3, <2>4, LockNames DEF BlockGuard
  <2> QED
    BY Zenon, <2>1, <2>2, <2>3, <2>5, BlockGoes
<1>7. ASSUME CommitPromote("block") PROVE LocksFollow
  <2>1. /\ at["block"][1] = "promote" /\ at' = [at EXCEPT !["block"] = <<"commitSub", at["block"][2]>>]
        /\ SetGuard("block", Sub("block"), "promoting")
    BY Zenon, <1>7 DEF CommitPromote, At
  <2>2. PICK k \in 1 .. Len(SubCaches) : k = at["block"][2]
    BY Zenon DEF GuardsFollow, Threads
  <2>3. SubCaches[k] \in Locks /\ SetGuard("block", SubCaches[k], "promoting")
    BY Zenon, <2>1, <2>2, SubCachesType DEF Sub, SetGuard
  <2>4. /\ LocksMoved("block") /\ guards'["block"][SubCaches[k]] = "promoting"
        /\ \A l \in Locks \ {SubCaches[k]} : guards'["block"][l] = guards["block"][l]
    BY Zenon, <2>3, SetGuardMoves DEF Threads
  <2>5. \A l \in Locks : guards'["block"][l] = BlockGuard("commitSub", k, l)
    BY <2>1, <2>2, <2>4, SubCachesType DEF GuardsFollow, BlockGuard
  <2>6. at' = [at EXCEPT !["block"] = <<"commitSub", k>>] /\ "commitSub" \in Labels
    BY Zenon, <2>1, <2>2 DEF Labels
  <2> QED
    BY Zenon, <2>4, <2>5, <2>6, BlockGoes
<1>8. ASSUME CommitSub("block", NewChain) PROVE LocksFollow
  <2>1. /\ at["block"][1] = "commitSub" /\ at' = [at EXCEPT !["block"] = <<"releaseSub", at["block"][2]>>]
        /\ SetGuard("block", Sub("block"), "promoted")
    BY Zenon, <1>8 DEF CommitSub, At
  <2>2. PICK k \in 1 .. Len(SubCaches) : k = at["block"][2]
    BY DEF GuardsFollow, Threads
  <2>3. SubCaches[k] \in Locks /\ SetGuard("block", SubCaches[k], "promoted")
    BY Zenon, <2>1, <2>2, SubCachesType DEF Sub, SetGuard
  <2>4. /\ LocksMoved("block") /\ guards'["block"][SubCaches[k]] = "promoted"
        /\ \A l \in Locks \ {SubCaches[k]} : guards'["block"][l] = guards["block"][l]
    BY Zenon, <2>3, SetGuardMoves DEF Threads
  <2>5. \A l \in Locks : guards'["block"][l] = BlockGuard("releaseSub", k, l)
    BY <2>1, <2>2, <2>4, SubCachesType DEF GuardsFollow, BlockGuard
  <2>6. at' = [at EXCEPT !["block"] = <<"releaseSub", k>>] /\ "releaseSub" \in Labels
    BY Zenon, <2>1, <2>2 DEF Labels
  <2> QED
    BY Zenon, <2>4, <2>5, <2>6, BlockGoes
<1>9. ASSUME CommitReleaseSub("block") PROVE LocksFollow
  <2>1. /\ at["block"][1] = "releaseSub"
        /\ IF at["block"][2] < Len(SubCaches) THEN at' = [at EXCEPT !["block"] = <<"promote", @[2] + 1>>]
           ELSE at' = [at EXCEPT !["block"] = <<"setHeight", 1>>]
        /\ SetGuard("block", Sub("block"), "reader")
    BY Zenon, <1>9 DEF CommitReleaseSub, At, Goto
  <2>2. PICK k \in 1 .. Len(SubCaches) : k = at["block"][2]
    BY DEF GuardsFollow, Threads
  <2>3. SubCaches[k] \in Locks /\ SetGuard("block", SubCaches[k], "reader")
    BY Zenon, <2>1, <2>2, SubCachesType DEF Sub, SetGuard
  <2>4. /\ LocksMoved("block") /\ guards'["block"][SubCaches[k]] = "reader"
        /\ \A l \in Locks \ {SubCaches[k]} : guards'["block"][l] = guards["block"][l]
    BY Zenon, <2>3, SetGuardMoves DEF Threads
  <2>5. CASE k < Len(SubCaches)
    <3>1. \A l \in Locks : guards'["block"][l] = BlockGuard("promote", k + 1, l)
      BY <2>1, <2>2, <2>4, SubCachesType DEF GuardsFollow, BlockGuard
    <3>2. at' = [at EXCEPT !["block"] = <<"promote", k + 1>>]
      BY Zenon, <2>1, <2>2, <2>5 DEF GuardsFollow, Threads
    <3>3. k + 1 \in 1 .. Len(SubCaches) /\ "promote" \in Labels
      BY <2>5, SubCachesType DEF Labels
    <3> QED
      BY ZenonT(60), <2>4, <3>1, <3>2, <3>3, BlockGoes
  <2>6. CASE ~(k < Len(SubCaches))
    <3>1. \A l \in Locks : guards'["block"][l] = BlockGuard("setHeight", 1, l)
      BY <2>1, <2>2, <2>4, SubCachesType DEF GuardsFollow, BlockGuard
    <3>2. at' = [at EXCEPT !["block"] = <<"setHeight", 1>>] /\ 1 \in 1 .. Len(SubCaches) /\ "setHeight" \in Labels
      BY <2>1, <2>2, <2>6, SubCachesType DEF Labels
    <3> QED
      BY Zenon, <2>4, <3>1, <3>2, BlockGoes
  <2> QED
    BY Zenon, <2>5, <2>6
<1>10. ASSUME CommitSetHeight("block", NewChain) PROVE LocksFollow
  <2>1. /\ at["block"][1] = "setHeight" /\ at' = [at EXCEPT !["block"] = <<"committed", 1>>]
        /\ Release("block", {"height"})
    BY Zenon, <1>10 DEF CommitSetHeight, At, Goto
  <2>2. LocksMoved("block") /\ \A l \in Locks : guards'["block"][l] = IF l \in {"height"} THEN "none" ELSE guards["block"][l]
    BY <2>1, ReleaseMoves, SubCachesType DEF Threads
  <2>3. "setHeight" \in Labels /\ "committed" \in Labels /\ 1 \in 1 .. Len(SubCaches)
    BY Zenon, Rounds DEF Labels
  <2>4. \A l \in Locks : guards["block"][l] = BlockGuard("setHeight", at["block"][2], l)
    BY Zenon, <2>1 DEF GuardsFollow
  <2>5. \A l \in Locks : guards'["block"][l] = BlockGuard("committed", 1, l)
    BY <2>2, <2>3, <2>4, LockNames DEF BlockGuard
  <2> QED
    BY Zenon, <2>1, <2>2, <2>3, <2>5, BlockGoes
<1>11. ASSUME Refuse PROVE LocksFollow
  <2>1. /\ at["block"][1] = "process" /\ at' = [at EXCEPT !["block"] = <<"idle", 1>>]
        /\ Release("block", Subs)
    BY Zenon, <1>11 DEF Refuse, At, Goto
  <2>2. LocksMoved("block") /\ \A l \in Locks : guards'["block"][l] = IF l \in Subs THEN "none" ELSE guards["block"][l]
    BY Zenon, <2>1, ReleaseSubs, SubCachesType DEF Threads
  <2>3. "process" \in Labels /\ "idle" \in Labels /\ 1 \in 1 .. Len(SubCaches)
    BY Zenon, Rounds DEF Labels
  <2>4. \A l \in Locks : guards["block"][l] = BlockGuard("process", at["block"][2], l)
    BY Zenon, <2>1 DEF GuardsFollow
  <2>5. \A l \in Locks : guards'["block"][l] = BlockGuard("idle", 1, l)
    BY <2>2, <2>3, <2>4, LockNames DEF BlockGuard
  <2> QED
    BY Zenon, <2>1, <2>2, <2>3, <2>5, BlockGoes
<1>12. ASSUME CommitStorage PROVE LocksFollow
  <2>1. /\ at["block"][1] = "committed" /\ at' = [at EXCEPT !["block"] = <<"update", 1>>]
        /\ Release("block", Subs)
    BY Zenon, <1>12 DEF CommitStorage, At, Goto
  <2>2. LocksMoved("block") /\ \A l \in Locks : guards'["block"][l] = IF l \in Subs THEN "none" ELSE guards["block"][l]
    BY Zenon, <2>1, ReleaseSubs, SubCachesType DEF Threads
  <2>3. "committed" \in Labels /\ "update" \in Labels /\ 1 \in 1 .. Len(SubCaches)
    BY Zenon, Rounds DEF Labels
  <2>4. \A l \in Locks : guards["block"][l] = BlockGuard("committed", at["block"][2], l)
    BY Zenon, <2>1 DEF GuardsFollow
  <2>5. \A l \in Locks : guards'["block"][l] = BlockGuard("update", 1, l)
    BY <2>2, <2>3, <2>4, LockNames DEF BlockGuard
  <2> QED
    BY Zenon, <2>1, <2>2, <2>3, <2>5, BlockGoes
<1>13. ASSUME RebaseAndLock PROVE LocksFollow
  <2>1. /\ at["block"][1] = "rebase" /\ at' = [at EXCEPT !["block"] = <<"apply", 1>>]
        /\ SetGuards("block", AllSubs("reader"))
    BY Zenon, <1>13 DEF RebaseAndLock, At, Goto
  <2>2. LocksMoved("block") /\ \A l \in Locks : guards'["block"][l] = IF l \in Subs THEN "reader" ELSE guards["block"][l]
    BY Zenon, <2>1, AllSubsMoves, SubCachesType DEF Threads
  <2>3. "rebase" \in Labels /\ "apply" \in Labels /\ 1 \in 1 .. Len(SubCaches)
    BY Zenon, Rounds DEF Labels
  <2>4. \A l \in Locks : guards["block"][l] = BlockGuard("rebase", at["block"][2], l)
    BY Zenon, <2>1 DEF GuardsFollow
  <2>5. \A l \in Locks : guards'["block"][l] = BlockGuard("apply", 1, l)
    BY <2>2, <2>3, <2>4, LockNames DEF BlockGuard
  <2> QED
    BY Zenon, <2>1, <2>2, <2>3, <2>5, BlockGoes
<1>14. ASSUME UpdateApply PROVE LocksFollow
  <2>1. /\ at["block"][1] = "apply" /\ at' = [at EXCEPT !["block"] = <<"idle", 1>>]
        /\ Release("block", Held("block"))
    BY Zenon, <1>14 DEF UpdateApply, At, Goto
  <2>2. LocksMoved("block") /\ \A l \in Locks : guards'["block"][l] = "none"
    BY Zenon, <2>1, ReleaseAll, SubCachesType DEF Threads
  <2>3. "apply" \in Labels /\ "idle" \in Labels /\ 1 \in 1 .. Len(SubCaches)
    BY Zenon, Rounds DEF Labels
  <2>4. \A l \in Locks : guards["block"][l] = BlockGuard("apply", at["block"][2], l)
    BY Zenon, <2>1 DEF GuardsFollow
  <2>5. \A l \in Locks : guards'["block"][l] = BlockGuard("idle", 1, l)
    BY Zenon, <2>2, <2>3, <2>4, LockNames DEF BlockGuard
  <2> QED
    BY Zenon, <2>1, <2>2, <2>3, <2>5, BlockGoes
<1>15. ASSUME NEW common, NEW blocks, NEW isLocal, Preprocess(common, blocks, isLocal) PROVE LocksFollow
  <2>1. /\ at["block"][1] = "idle" /\ at' = [at EXCEPT !["block"] = <<"process", 1>>]
        /\ SetGuards("block", AllSubs("reader"))
    BY Zenon, <1>15 DEF Preprocess, At, Goto
  <2>2. LocksMoved("block") /\ \A l \in Locks : guards'["block"][l] = IF l \in Subs THEN "reader" ELSE guards["block"][l]
    BY Zenon, <2>1, AllSubsMoves, SubCachesType DEF Threads
  <2>3. "idle" \in Labels /\ "process" \in Labels /\ 1 \in 1 .. Len(SubCaches)
    BY Zenon, Rounds DEF Labels
  <2>4. \A l \in Locks : guards["block"][l] = BlockGuard("idle", at["block"][2], l)
    BY Zenon, <2>1 DEF GuardsFollow
  <2>5. \A l \in Locks : guards'["block"][l] = BlockGuard("process", 1, l)
    BY <2>2, <2>3, <2>4, LockNames DEF BlockGuard
  <2> QED
    BY ZenonT(60), <2>1, <2>2, <2>3, <2>5, BlockGoes
<1> QED
  BY ZenonT(60), <1>1, <1>2, <1>3, <1>4, <1>5, <1>6, <1>7, <1>8, <1>9, <1>10, <1>11, <1>12, <1>13, <1>14, <1>15
  DEF BlockStep, CommitCache, Commit

\* The transaction dispatcher holds what its place in UtUpdater::update and tryLock says.
LEMMA NewFollows ==
    ASSUME GuardsFollow
    PROVE  NewStep \/ (\E txs \in NewBatches : NewMarkUt(txs)) => LocksFollow
<1>1. ASSUME NEW txs, NewMarkUt(txs) PROVE LocksFollow
  <2>1. /\ at["new"][1] = "idle" /\ at' = [at EXCEPT !["new"] = <<"lockUt", 1>>]
        /\ SetGuard("new", "ut", "pending")
    BY Zenon, <1>1 DEF NewMarkUt, At, Goto
  <2>2. /\ LocksMoved("new") /\ guards'["new"]["ut"] = "pending"
        /\ \A l \in Locks \ {"ut"} : guards'["new"][l] = guards["new"][l]
    BY Zenon, <2>1, SetGuardMoves, SubCachesType DEF Threads
  <2>3. "idle" \in Labels /\ "lockUt" \in Labels /\ 1 \in 1 .. Len(SubCaches)
    BY Zenon, Rounds DEF Labels
  <2>4. \A l \in Locks : guards["new"][l] = NewGuard("idle", at["new"][2], l)
    BY Zenon, <2>1 DEF GuardsFollow
  <2>5. \A l \in Locks : guards'["new"][l] = NewGuard("lockUt", 1, l)
    BY ZenonT(60), <2>2, <2>3, <2>4, LockNames, LockedAt DEF NewGuard
  <2> QED
    BY ZenonT(60), <2>1, <2>2, <2>3, <2>5, NewGoes
<1>2. ASSUME NewLockUt PROVE LocksFollow
  <2>1. /\ at["new"][1] = "lockUt" /\ at' = [at EXCEPT !["new"] = <<"tryLock", 1>>]
        /\ SetGuard("new", "ut", "writer")
    BY Zenon, <1>2 DEF NewLockUt, At, Goto
  <2>2. /\ LocksMoved("new") /\ guards'["new"]["ut"] = "writer"
        /\ \A l \in Locks \ {"ut"} : guards'["new"][l] = guards["new"][l]
    BY Zenon, <2>1, SetGuardMoves, SubCachesType DEF Threads
  <2>3. "lockUt" \in Labels /\ "tryLock" \in Labels /\ 1 \in 1 .. Len(SubCaches)
    BY Zenon, Rounds DEF Labels
  <2>4. \A l \in Locks : guards["new"][l] = NewGuard("lockUt", at["new"][2], l)
    BY Zenon, <2>1 DEF GuardsFollow
  <2>5. \A l \in Locks : guards'["new"][l] = NewGuard("tryLock", 1, l)
    BY ZenonT(60), <2>2, <2>3, <2>4, LockNames, LockedAt DEF NewGuard
  <2> QED
    BY Zenon, <2>1, <2>2, <2>3, <2>5, NewGoes
<1>3. ASSUME NewTryLock PROVE LocksFollow
  <2>1. /\ at["new"][1] = "tryLock"
        /\ \/ SetGuard("new", Sub("new"), "reader") /\ NextSub("new", "apply")
           \/ Release("new", Held("new") \intersect Subs) /\ at' = [at EXCEPT !["new"] = <<"stale", 1>>]
    BY Zenon, <1>3 DEF NewTryLock, TryLock, At, Goto
  <2>2. PICK k \in 1 .. Len(SubCaches) : k = at["new"][2]
    BY Zenon DEF GuardsFollow, Threads
  <2>3. \A l \in Locks : guards["new"][l] = NewGuard("tryLock", k, l)
    BY Zenon, <2>1, <2>2 DEF GuardsFollow
  <2>4. CASE SetGuard("new", Sub("new"), "reader") /\ NextSub("new", "apply")
    <3>1. SubCaches[k] \in Locks /\ SetGuard("new", SubCaches[k], "reader")
      BY Zenon, <2>2, <2>4, SubCachesType DEF Sub, SetGuard
    <3>2. /\ LocksMoved("new") /\ guards'["new"][SubCaches[k]] = "reader"
          /\ \A l \in Locks \ {SubCaches[k]} : guards'["new"][l] = guards["new"][l]
      BY Zenon, <3>1, SetGuardMoves DEF Threads
    <3>3. CASE k < Len(SubCaches)
      <4>1. \A l \in Locks : guards'["new"][l] = NewGuard("tryLock", k + 1, l)
        BY <2>3, <3>2, LockNames, Rounds, TryLocked DEF NewGuard
      <4>2. at' = [at EXCEPT !["new"] = <<"tryLock", k + 1>>]
        BY <2>1, <2>2, <2>4, <3>3 DEF NextSub, GuardsFollow, Threads
      <4>3. k + 1 \in 1 .. Len(SubCaches) /\ "tryLock" \in Labels
        BY <3>3, SubCachesType DEF Labels
      <4> QED
        BY ZenonT(60), <3>2, <4>1, <4>2, <4>3, NewGoes
    <3>4. CASE ~(k < Len(SubCaches))
      <4>1. k = Len(SubCaches)
        BY <3>4, Rounds
      <4>2. LockedBefore("tryLock", k) \union {SubCaches[k]} = LockedBefore("apply", 1)
        BY Zenon, <4>1, TryLocked DEF LockedBefore
      <4>3. \A l \in Locks : guards'["new"][l] = NewGuard("apply", 1, l)
        BY <2>3, <3>2, <4>2, LockNames, Rounds DEF NewGuard
      <4>4. at' = [at EXCEPT !["new"] = <<"apply", 1>>] /\ 1 \in 1 .. Len(SubCaches) /\ "apply" \in Labels
        BY <2>2, <2>4, <3>4, SubCachesType DEF NextSub, Goto, Labels
      <4> QED
        BY Zenon, <3>2, <4>3, <4>4, NewGoes
    <3> QED
      BY Zenon, <3>3, <3>4
  <2>5. CASE Release("new", Held("new") \intersect Subs) /\ at' = [at EXCEPT !["new"] = <<"stale", 1>>]
    <3>1. PICK locks \in SUBSET Locks : locks = Held("new") \intersect Subs
      BY ZenonT(60), SubCachesType DEF Held
    <3>2. Release("new", locks)
      BY Zenon, <2>5, <3>1 DEF Release
    <3>3. LocksMoved("new") /\ \A l \in Locks : guards'["new"][l] = IF l \in locks THEN "none" ELSE guards["new"][l]
      BY Zenon, <3>2, ReleaseMoves DEF Threads
    <3>4. LockedBefore("tryLock", k) \subseteq Subs /\ LockedBefore("stale", 1) = {}
      BY Zenon, TryLocked DEF LockedBefore
    <3>5. \A l \in Locks : guards'["new"][l] = NewGuard("stale", 1, l)
      BY <2>3, <3>1, <3>3, <3>4, SubCachesType DEF NewGuard, Held
    <3>6. "stale" \in Labels /\ 1 \in 1 .. Len(SubCaches)
      BY SubCachesType DEF Labels
    <3> QED
      BY Zenon, <2>5, <3>3, <3>5, <3>6, NewGoes
  <2> QED
    BY Zenon, <2>1, <2>4, <2>5
<1>4. ASSUME NewApply PROVE LocksFollow
  <2>1. /\ at["new"][1] = "apply" /\ at' = [at EXCEPT !["new"] = <<"idle", 1>>]
        /\ Release("new", Held("new"))
    BY Zenon, <1>4 DEF NewApply, At, Goto
  <2>2. LocksMoved("new") /\ \A l \in Locks : guards'["new"][l] = "none"
    BY Zenon, <2>1, ReleaseAll, SubCachesType DEF Threads
  <2>3. "apply" \in Labels /\ "idle" \in Labels /\ 1 \in 1 .. Len(SubCaches)
    BY Zenon, Rounds DEF Labels
  <2>4. \A l \in Locks : guards["new"][l] = NewGuard("apply", at["new"][2], l)
    BY Zenon, <2>1 DEF GuardsFollow
  <2>5. \A l \in Locks : guards'["new"][l] = NewGuard("idle", 1, l)
    BY Zenon, <2>2, <2>3, <2>4, LockNames, LockedAt DEF NewGuard
  <2> QED
    BY Zenon, <2>1, <2>2, <2>3, <2>5, NewGoes
<1>5. ASSUME NewAddAll PROVE LocksFollow
  <2>1. /\ at["new"][1] = "stale" /\ at' = [at EXCEPT !["new"] = <<"idle", 1>>]
        /\ Release("new", Held("new"))
    BY Zenon, <1>5 DEF NewAddAll, At, Goto
  <2>2. LocksMoved("new") /\ \A l \in Locks : guards'["new"][l] = "none"
    BY Zenon, <2>1, ReleaseAll, SubCachesType DEF Threads
  <2>3. "stale" \in Labels /\ "idle" \in Labels /\ 1 \in 1 .. Len(SubCaches)
    BY Zenon, Rounds DEF Labels
  <2>4. \A l \in Locks : guards["new"][l] = NewGuard("stale", at["new"][2], l)
    BY Zenon, <2>1 DEF GuardsFollow
  <2>5. \A l \in Locks : guards'["new"][l] = NewGuard("idle", 1, l)
    BY Zenon, <2>2, <2>3, <2>4, LockNames, LockedAt DEF NewGuard
  <2> QED
    BY Zenon, <2>1, <2>2, <2>3, <2>5, NewGoes
<1> QED
  BY Zenon, <1>1, <1>2, <1>3, <1>4, <1>5 DEF NewStep

\* The harvester holds what its place in the block generator and the facade says.
LEMMA HarvestFollows ==
    ASSUME GuardsFollow
    PROVE  ReadLastBlock \/ HarvestStep => LocksFollow
<1>1. ASSUME ReadLastBlock PROVE LocksFollow
  <2>1. /\ at["harvest"][1] = "idle" /\ at' = [at EXCEPT !["harvest"] = <<"openFacade", 1>>]
        /\ UNCHANGED lockVars
    BY Zenon, <1>1 DEF ReadLastBlock, At, Goto
  <2>2. LocksMoved("harvest") /\ guards' = guards
    BY Zenon, <2>1, LocksStay
  <2>3. \A l \in Locks : guards'["harvest"][l] = HarvestGuard("openFacade", 1, l)
    BY Zenon, <2>1, <2>2, SubCachesType DEF GuardsFollow, HarvestGuard, LockedBefore
  <2>4. "openFacade" \in Labels /\ 1 \in 1 .. Len(SubCaches)
    BY SubCachesType DEF Labels
  <2> QED
    BY Zenon, <2>1, <2>2, <2>3, <2>4, HarvestGoes
<1>2. ASSUME OpenFacade PROVE LocksFollow
  <2>1. /\ at["harvest"][1] = "openFacade" /\ at' = [at EXCEPT !["harvest"] = <<"detach", 1>>]
        /\ SetGuard("harvest", "height", "reader")
    BY Zenon, <1>2 DEF OpenFacade, At, Goto
  <2>2. /\ LocksMoved("harvest") /\ guards'["harvest"]["height"] = "reader"
        /\ \A l \in Locks \ {"height"} : guards'["harvest"][l] = guards["harvest"][l]
    BY Zenon, <2>1, SetGuardMoves, SubCachesType DEF Threads
  <2>3. "openFacade" \in Labels /\ "detach" \in Labels /\ 1 \in 1 .. Len(SubCaches)
    BY Zenon, Rounds DEF Labels
  <2>4. \A l \in Locks : guards["harvest"][l] = HarvestGuard("openFacade", at["harvest"][2], l)
    BY Zenon, <2>1 DEF GuardsFollow
  <2>5. \A l \in Locks : guards'["harvest"][l] = HarvestGuard("detach", 1, l)
    BY ZenonT(60), <2>2, <2>3, <2>4, LockNames, LockedAt DEF HarvestGuard
  <2> QED
    BY Zenon, <2>1, <2>2, <2>3, <2>5, HarvestGoes
<1>3. ASSUME Detach PROVE LocksFollow
  <2>1. /\ at["harvest"][1] = "detach" /\ NextSub("harvest", "tryLock") /\ UNCHANGED lockVars
    BY Zenon, <1>3 DEF Detach, At
  <2>2. PICK k \in 1 .. Len(SubCaches) : k = at["harvest"][2]
    BY Zenon DEF GuardsFollow, Threads
  <2>3. LocksMoved("harvest") /\ guards' = guards
    BY Zenon, <2>1, LocksStay
  <2>4. CASE k < Len(SubCaches)
    <3>1. \A l \in Locks : guards'["harvest"][l] = HarvestGuard("detach", k + 1, l)
      BY Zenon, <2>1, <2>3 DEF GuardsFollow, HarvestGuard, LockedBefore
    <3>2. at' = [at EXCEPT !["harvest"] = <<"detach", k + 1>>]
      BY <2>1, <2>2, <2>4 DEF NextSub, GuardsFollow, Threads
    <3>3. k + 1 \in 1 .. Len(SubCaches) /\ "detach" \in Labels
      BY <2>4, SubCachesType DEF Labels
    <3> QED
      BY Zenon, <2>3, <3>1, <3>2, <3>3, HarvestGoes
  <2>5. CASE ~(k < Len(SubCaches))
    <3>1. \A l \in Locks : guards'["harvest"][l] = HarvestGuard("tryLock", 1, l)
      <4>1. LockedBefore("tryLock", 1) = {} /\ LockedBefore("detach", k) = {}
        BY DEF LockedBefore
      <4>2. \A l \in Locks : guards["harvest"][l] = HarvestGuard("detach", k, l)
        BY Zenon, <2>1, <2>2 DEF GuardsFollow
      <4> QED
        BY Zenon, <2>3, <4>1, <4>2 DEF HarvestGuard
    <3>2. at' = [at EXCEPT !["harvest"] = <<"tryLock", 1>>] /\ 1 \in 1 .. Len(SubCaches) /\ "tryLock" \in Labels
      BY <2>1, <2>2, <2>5, SubCachesType DEF NextSub, Goto, Labels
    <3> QED
      BY Zenon, <2>3, <3>1, <3>2, HarvestGoes
  <2> QED
    BY Zenon, <2>4, <2>5
<1>4. ASSUME FacadeTryLock PROVE LocksFollow
  <2>1. /\ at["harvest"][1] = "tryLock"
        /\ \/ SetGuard("harvest", Sub("harvest"), "reader") /\ NextSub("harvest", "checkHeight")
           \/ Release("harvest", Held("harvest") \intersect Subs) /\ at' = [at EXCEPT !["harvest"] = <<"stale", 1>>]
    BY Zenon, <1>4 DEF FacadeTryLock, TryLock, At, Goto
  <2>2. PICK k \in 1 .. Len(SubCaches) : k = at["harvest"][2]
    BY DEF GuardsFollow, Threads
  <2>3. \A l \in Locks : guards["harvest"][l] = HarvestGuard("tryLock", k, l)
    BY Zenon, <2>1, <2>2 DEF GuardsFollow
  <2>4. CASE SetGuard("harvest", Sub("harvest"), "reader") /\ NextSub("harvest", "checkHeight")
    <3>1. SubCaches[k] \in Locks /\ SetGuard("harvest", SubCaches[k], "reader")
      BY Zenon, <2>2, <2>4, SubCachesType DEF Sub, SetGuard
    <3>2. /\ LocksMoved("harvest") /\ guards'["harvest"][SubCaches[k]] = "reader"
          /\ \A l \in Locks \ {SubCaches[k]} : guards'["harvest"][l] = guards["harvest"][l]
      BY Zenon, <3>1, SetGuardMoves DEF Threads
    <3>3. CASE k < Len(SubCaches)
      <4>1. \A l \in Locks : guards'["harvest"][l] = HarvestGuard("tryLock", k + 1, l)
        BY <2>3, <3>2, LockNames, Rounds, TryLocked DEF HarvestGuard
      <4>2. at' = [at EXCEPT !["harvest"] = <<"tryLock", k + 1>>]
        BY <2>1, <2>2, <2>4, <3>3 DEF NextSub, GuardsFollow, Threads
      <4>3. k + 1 \in 1 .. Len(SubCaches) /\ "tryLock" \in Labels
        BY <3>3, SubCachesType DEF Labels
      <4> QED
        BY Zenon, <3>2, <4>1, <4>2, <4>3, HarvestGoes
    <3>4. CASE ~(k < Len(SubCaches))
      <4>1. k = Len(SubCaches)
        BY <3>4, Rounds
      <4>2. LockedBefore("tryLock", k) \union {SubCaches[k]} = LockedBefore("checkHeight", 1)
        BY Zenon, <4>1, TryLocked DEF LockedBefore
      <4>3. \A l \in Locks : guards'["harvest"][l] = HarvestGuard("checkHeight", 1, l)
        BY <2>3, <3>2, <4>2, LockNames, Rounds DEF HarvestGuard
      <4>4. at' = [at EXCEPT !["harvest"] = <<"checkHeight", 1>>] /\ 1 \in 1 .. Len(SubCaches) /\ "checkHeight" \in Labels
        BY <2>2, <2>4, <3>4, SubCachesType DEF NextSub, Goto, Labels
      <4> QED
        BY Zenon, <3>2, <4>3, <4>4, HarvestGoes
    <3> QED
      BY <3>3, <3>4
  <2>5. CASE Release("harvest", Held("harvest") \intersect Subs) /\ at' = [at EXCEPT !["harvest"] = <<"stale", 1>>]
    <3>1. PICK locks \in SUBSET Locks : locks = Held("harvest") \intersect Subs
      BY ZenonT(60), SubCachesType DEF Held
    <3>2. Release("harvest", locks)
      BY Zenon, <2>5, <3>1 DEF Release
    <3>3. LocksMoved("harvest") /\ \A l \in Locks : guards'["harvest"][l] = IF l \in locks THEN "none" ELSE guards["harvest"][l]
      BY Zenon, <3>2, ReleaseMoves DEF Threads
    <3>4. LockedBefore("tryLock", k) \subseteq Subs /\ LockedBefore("stale", 1) = {}
      BY Zenon, TryLocked DEF LockedBefore
    <3>5. \A l \in Locks : guards'["harvest"][l] = HarvestGuard("stale", 1, l)
      BY <2>3, <3>1, <3>3, <3>4, SubCachesType DEF HarvestGuard, Held
    <3>6. "stale" \in Labels /\ 1 \in 1 .. Len(SubCaches)
      BY SubCachesType DEF Labels
    <3> QED
      BY Zenon, <2>5, <3>3, <3>5, <3>6, HarvestGoes
  <2> QED
    BY Zenon, <2>1, <2>4, <2>5
<1>5. ASSUME CheckHeight, HasFacadeHeight PROVE LocksFollow
  <2>1. /\ at["harvest"][1] = "checkHeight" /\ at' = [at EXCEPT !["harvest"] = <<"select", 1>>]
        /\ SetGuard("harvest", "ut", "reader")
    BY Zenon, <1>5 DEF CheckHeight, At, Goto
  <2>2. /\ LocksMoved("harvest") /\ guards'["harvest"]["ut"] = "reader"
        /\ \A l \in Locks \ {"ut"} : guards'["harvest"][l] = guards["harvest"][l]
    BY Zenon, <2>1, SetGuardMoves, SubCachesType DEF Threads
  <2>3. "checkHeight" \in Labels /\ "select" \in Labels /\ 1 \in 1 .. Len(SubCaches)
    BY Zenon, Rounds DEF Labels
  <2>4. \A l \in Locks : guards["harvest"][l] = HarvestGuard("checkHeight", at["harvest"][2], l)
    BY Zenon, <2>1 DEF GuardsFollow
  <2>5. \A l \in Locks : guards'["harvest"][l] = HarvestGuard("select", 1, l)
    BY <2>2, <2>3, <2>4, LockNames, LockedAt DEF HarvestGuard
  <2> QED
    BY Zenon, <2>1, <2>2, <2>3, <2>5, HarvestGoes
<1>6. ASSUME CheckHeight, ~HasFacadeHeight PROVE LocksFollow
  <2>1. /\ at["harvest"][1] = "checkHeight" /\ at' = [at EXCEPT !["harvest"] = <<"idle", 1>>]
        /\ Release("harvest", Held("harvest"))
    BY Zenon, <1>6 DEF CheckHeight, At, Goto
  <2>2. LocksMoved("harvest") /\ \A l \in Locks : guards'["harvest"][l] = "none"
    BY Zenon, <2>1, ReleaseAll, SubCachesType DEF Threads
  <2>3. "checkHeight" \in Labels /\ "idle" \in Labels /\ 1 \in 1 .. Len(SubCaches)
    BY Zenon, Rounds DEF Labels
  <2>4. \A l \in Locks : guards["harvest"][l] = HarvestGuard("checkHeight", at["harvest"][2], l)
    BY Zenon, <2>1 DEF GuardsFollow
  <2>5. \A l \in Locks : guards'["harvest"][l] = HarvestGuard("idle", 1, l)
    BY Zenon, <2>2, <2>3, <2>4, LockNames, LockedAt DEF HarvestGuard
  <2> QED
    BY Zenon, <2>1, <2>2, <2>3, <2>5, HarvestGoes
<1>7. ASSUME SelectTransactions PROVE LocksFollow
  <2>1. /\ at["harvest"][1] = "select" /\ at' = [at EXCEPT !["harvest"] = <<"build", 1>>]
        /\ SetGuard("harvest", "ut", "none")
    BY Zenon, <1>7 DEF SelectTransactions, At, Goto
  <2>2. /\ LocksMoved("harvest") /\ guards'["harvest"]["ut"] = "none"
        /\ \A l \in Locks \ {"ut"} : guards'["harvest"][l] = guards["harvest"][l]
    BY Zenon, <2>1, SetGuardMoves, SubCachesType DEF Threads
  <2>3. "select" \in Labels /\ "build" \in Labels /\ 1 \in 1 .. Len(SubCaches)
    BY Zenon, Rounds DEF Labels
  <2>4. \A l \in Locks : guards["harvest"][l] = HarvestGuard("select", at["harvest"][2], l)
    BY Zenon, <2>1 DEF GuardsFollow
  <2>5. \A l \in Locks : guards'["harvest"][l] = HarvestGuard("build", 1, l)
    BY <2>2, <2>3, <2>4, LockNames, LockedAt DEF HarvestGuard
  <2> QED
    BY Zenon, <2>1, <2>2, <2>3, <2>5, HarvestGoes
<1>8. ASSUME BuildBlock PROVE LocksFollow
  <2>1. PICK label \in {"readImportanceHash", "push", "idle"} : at' = [at EXCEPT !["harvest"] = <<label, 1>>]
    BY Zenon, <1>8 DEF BuildBlock, Goto
  <2>2. LocksMoved("harvest") /\ \A l \in Locks : guards'["harvest"][l] = "none"
    BY Zenon, <1>8, ReleaseAll DEF BuildBlock, Threads
  <2>3. \A l \in Locks : guards'["harvest"][l] = HarvestGuard(label, 1, l)
    BY Zenon, <2>2 DEF HarvestGuard, LockedBefore
  <2>4. label \in Labels /\ 1 \in 1 .. Len(SubCaches)
    BY SubCachesType DEF Labels
  <2> QED
    BY Zenon, <2>1, <2>2, <2>3, <2>4, HarvestGoes
<1>9. ASSUME ReadImportanceHash PROVE LocksFollow
  <2>1. /\ at["harvest"][1] = "readImportanceHash" /\ at' = [at EXCEPT !["harvest"] = <<"push", 1>>]
        /\ UNCHANGED lockVars
    BY Zenon, <1>9 DEF ReadImportanceHash, At, Goto
  <2>2. LocksMoved("harvest") /\ guards' = guards
    BY Zenon, <2>1, LocksStay
  <2>3. \A l \in Locks : guards'["harvest"][l] = HarvestGuard("push", 1, l)
    BY Zenon, <2>1, <2>2, SubCachesType DEF GuardsFollow, HarvestGuard, LockedBefore
  <2>4. "push" \in Labels /\ 1 \in 1 .. Len(SubCaches)
    BY SubCachesType DEF Labels
  <2> QED
    BY Zenon, <2>1, <2>2, <2>3, <2>4, HarvestGoes
<1>10. ASSUME Push PROVE LocksFollow
  <2>1. /\ at["harvest"][1] = "push" /\ at' = [at EXCEPT !["harvest"] = <<"idle", 1>>]
        /\ UNCHANGED lockVars
    BY Zenon, <1>10 DEF Push, At, Goto
  <2>2. LocksMoved("harvest") /\ guards' = guards
    BY Zenon, <2>1, LocksStay
  <2>3. \A l \in Locks : guards'["harvest"][l] = HarvestGuard("idle", 1, l)
    BY Zenon, <2>1, <2>2, SubCachesType DEF GuardsFollow, HarvestGuard, LockedBefore
  <2>4. "idle" \in Labels /\ 1 \in 1 .. Len(SubCaches)
    BY SubCachesType DEF Labels
  <2> QED
    BY Zenon, <2>1, <2>2, <2>3, <2>4, HarvestGoes
<1> QED
  BY Zenon, <1>1, <1>2, <1>3, <1>4, <1>5, <1>6, <1>7, <1>8, <1>9, <1>10 DEF HarvestStep

-----------------------------------------------------------------------------

\* No thread holds a lock when the node starts.
LEMMA FollowsInitially ==
    ASSUME HarvestInit
    PROVE  GuardsFollow /\ \A l \in Locks : Lock(l)!Init
<1>1. /\ words = [l \in Locks |-> Unlocked]
      /\ guards = [t \in Threads |-> [l \in Locks |-> "none"]]
      /\ at = [t \in Threads |-> <<"idle", 1>>]
  BY Zenon DEF HarvestInit, Init, CacheInit
<1>2. "idle" \in Labels /\ 1 \in 1 .. Len(SubCaches) /\ "none" \in Guards
  BY Zenon, Rounds DEF Labels, Guards
<1>3. \A t \in Threads : at[t] = <<"idle", 1>> /\ \A l \in Locks : guards[t][l] = "none"
  BY Zenon, <1>1
<1>4. LockedBefore("idle", 1) = {}
  BY Zenon DEF LockedBefore
<1>5. GuardsFollow
  BY Zenon, <1>1, <1>2, <1>3, <1>4 DEF GuardsFollow, BlockGuard, NewGuard, HarvestGuard, Threads
<1>6. ASSUME NEW l \in Locks
      PROVE  Lock(l)!Init
  BY Zenon, <1>1 DEF Lock!Init, Lock!Unlocked, Unlocked
<1> QED
  BY Zenon, <1>5, <1>6

\* One step of any thread.
LEMMA FollowsAlways ==
    ASSUME GuardsFollow, [Next]_vars
    PROVE  LocksFollow
<1>1. ASSUME UNCHANGED <<lockVars, at>>
      PROVE  LocksFollow
  <2>1. LocksMoved("block") /\ guards' = guards /\ at' = at
    BY Zenon, <1>1, LocksStay
  <2> QED
    BY Zenon, <2>1 DEF LocksFollow, LocksMoved, GuardsFollow
<1>2. ASSUME NEW common, NEW blocks, PreprocessPeer(common, blocks)
      PROVE  LocksFollow
  BY Zenon, <1>2, BlockFollows DEF PreprocessPeer
<1>3. ASSUME DispatcherStep
      PROVE  LocksFollow
  <2>1. CASE PreprocessHarvested
    BY Zenon, <2>1, BlockFollows DEF PreprocessHarvested
  <2>2. CASE AbortHarvested
    BY Zenon, <1>1, <2>2 DEF AbortHarvested
  <2>3. CASE BlockStep
    BY Zenon, <2>3, BlockFollows
  <2> QED
    BY Zenon, <1>3, <2>1, <2>2, <2>3 DEF DispatcherStep
<1>4. CASE UNCHANGED vars
  BY Zenon, <1>1, <1>4 DEF vars
<1> QED
  BY Zenon, <1>2, <1>3, <1>4, NewFollows, HarvestFollows DEF Next, Step

\* The threads of the node implement the lock: whatever is confirmed, added or harvested, the word of each lock changes
\* only as a thread acquires, promotes or releases a guard that it may, and each thread releases what it acquired.
LEMMA LocksAreUsedInPairs == Spec => LocksUsedInPairs
<1>1. HarvestInit => GuardsFollow /\ \A l \in Locks : Lock(l)!Init
  BY Zenon, FollowsInitially
<1>2. GuardsFollow /\ [Next]_vars => LocksFollow
  BY Zenon, FollowsAlways
<1>3. LocksFollow => GuardsFollow'
  BY Zenon DEF LocksFollow
<1>4. LocksFollow => [\A l \in Locks : [Lock(l)!Next]_(Lock(l)!vars)]_lockVars
  BY DEF LocksFollow, LocksMove
<1> QED
  BY <1>1, <1>2, <1>3, <1>4, PTL DEF Spec, LocksUsedInPairs

\* So no thread of the node reads or writes a cache, the storage or the unconfirmed transactions while another one
\* writes it.
THEOREM ThreadsExclude == Spec => []LocksExclusive
BY LocksAreUsedInPairs, LocksAreExclusive, PTL

-----------------------------------------------------------------------------
(* The deltas                                                              *)

\* How many sub caches a commit that is under way has committed.
Done ==
    IF at["block"][1] \in {"promote", "commitSub"} THEN at["block"][2] - 1
    ELSE IF at["block"][1] = "releaseSub" THEN at["block"][2] ELSE 0

\* The sub caches hold one chain and have been committed equally often, but for those that a commit has reached.
CachesInStep ==
    /\ DOMAIN caches = Subs
    /\ \A s \in Subs : caches[s].commits \in Nat
    /\ \A i, j \in 1 .. Len(SubCaches) :
        /\ (i <= Done <=> j <= Done) => caches[SubCaches[i]] = caches[SubCaches[j]]
        /\ i <= Done /\ j > Done => caches[SubCaches[i]].commits = caches[SubCaches[j]].commits + 1
        /\ i <= Done => caches[SubCaches[i]] = [commits |-> caches[SubCaches[i]].commits, chain |-> NewChain]

\* The unconfirmed delta is of one chain, a sub cache that has not been committed since is as it was, and none of those
\* that the new transactions have locked has been.
UnconfirmedDeltaOld ==
    /\ unconfirmed = [delta |-> unconfirmed.delta, applied |-> unconfirmed.applied]
    /\ \A s, r \in Subs : unconfirmed.delta[s].chain = unconfirmed.delta[r].chain
    /\ \A s \in Subs :
        /\ unconfirmed.delta[s].commits \in Nat
        /\ unconfirmed.delta[s].commits <= caches[s].commits
        /\ unconfirmed.delta[s].commits = caches[s].commits => unconfirmed.delta[s] = caches[s]
    /\ \A s \in LockedBefore(at["new"][1], at["new"][2]) : unconfirmed.delta[s].commits = caches[s].commits

\* The sub caches that the harvester has detached are as they are, as long as it keeps the height locked.
FacadeCurrent ==
    /\ facade = [delta |-> facade.delta, applied |-> facade.applied]
    /\ DOMAIN facade.delta = Subs /\ facade.delta = [s \in Subs |-> facade.delta[s]]
    /\ at["harvest"][1] # "stale"
    /\ at["harvest"][1] = "detach" => \A i \in 1 .. (at["harvest"][2] - 1) : facade.delta[SubCaches[i]] = caches[SubCaches[i]]
    /\ at["harvest"][1] \in {"tryLock", "checkHeight", "select", "build"} => \A s \in Subs : facade.delta[s] = caches[s]

DeltaInv == CachesInStep /\ UnconfirmedDeltaOld /\ FacadeCurrent

-----------------------------------------------------------------------------

\* Who writes is alone.
LEMMA WriterAlone ==
    ASSUME LocksExclusive, NEW l \in Locks, NEW t \in Threads, NEW u \in Threads,
           guards[t][l] \in Exclusive, guards[u][l] \in Exclusive \union {"reader"}
    PROVE  t = u
<1>1. Lock(l)!MutualExclusion
  BY Zenon DEF LocksExclusive
<1>2. t \in Lock(l)!Holding(Lock(l)!Exclusive)
  BY Zenon DEF Lock!Holding, Lock!Exclusive, Exclusive
<1>3. u \in Lock(l)!Holding(Lock(l)!Exclusive \union {"reader"})
  BY Zenon DEF Lock!Holding, Lock!Exclusive, Exclusive
<1> QED
  BY Zenon, <1>1, <1>2, <1>3 DEF Lock!MutualExclusion

\* While the harvester keeps the height locked no commit is under way.
LEMMA FacadeStopsCommits ==
    ASSUME LocksExclusive, GuardsFollow, at["harvest"][1] \in {"detach", "tryLock", "checkHeight", "select", "build", "stale"}
    PROVE  at["block"][1] \notin {"promote", "commitSub", "releaseSub", "setHeight"}
<1>1. guards["harvest"]["height"] = "reader"
  BY Zenon, LockNames DEF GuardsFollow, HarvestGuard
<1>2. ASSUME at["block"][1] \in {"promote", "commitSub", "releaseSub", "setHeight"}
      PROVE  guards["block"]["height"] = "writer"
  BY Zenon, <1>2, LockNames DEF GuardsFollow, BlockGuard
<1> QED
  BY Zenon, <1>1, <1>2, WriterAlone, LockNames DEF Threads, Exclusive

\* A sub cache that is being committed is not one that the new transactions have locked.
LockedApart ==
    at["block"][1] = "releaseSub" => SubCaches[at["block"][2]] \notin LockedBefore(at["new"][1], at["new"][2])

\* The lock of a sub cache keeps a commit away from it.
LEMMA LockedNotCommitted ==
    ASSUME LocksExclusive, GuardsFollow
    PROVE  LockedApart
<1> SUFFICES ASSUME at["block"][1] = "releaseSub"
             PROVE  SubCaches[at["block"][2]] \notin LockedBefore(at["new"][1], at["new"][2])
  BY Zenon DEF LockedApart
<1>1. PICK k \in 1 .. Len(SubCaches) : k = at["block"][2]
  BY Zenon DEF GuardsFollow, Threads
<1>2. SubCaches[k] \in Locks /\ SubCaches[k] \notin {"storage", "height", "ut"}
  BY Zenon, Rounds, LockNames
<1>3. guards["block"][SubCaches[k]] = "promoted"
  BY Zenon, <1>1, <1>2 DEF GuardsFollow, BlockGuard
<1>4. ASSUME SubCaches[k] \in LockedBefore(at["new"][1], at["new"][2])
      PROVE  guards["new"][SubCaches[k]] = "reader"
  BY Zenon, <1>2, <1>4 DEF GuardsFollow, NewGuard
<1> QED
  BY Zenon, <1>1, <1>2, <1>3, <1>4, WriterAlone DEF Threads, Exclusive

\* tryLock locks sub caches only.
LEMMA LockedInSubs ==
    ASSUME NEW label \in Labels, NEW k \in 1 .. Len(SubCaches)
    PROVE  LockedBefore(label, k) \subseteq Subs
<1>1. CASE label = "tryLock"
  BY Zenon, <1>1, TryLocked
<1>2. CASE label # "tryLock"
  BY Zenon, <1>2 DEF LockedBefore
<1> QED
  BY Zenon, <1>1, <1>2

\* All deltas are taken from the loaded caches.
LEMMA DeltaInitially ==
    ASSUME HarvestInit
    PROVE  DeltaInv
<1>1. /\ at = [t \in Threads |-> <<"idle", 1>>]
      /\ caches = [s \in Subs |-> [commits |-> 0, chain |-> StartChain]]
      /\ unconfirmed = [delta |-> caches, applied |-> <<>>]
      /\ facade = unconfirmed
  BY Zenon DEF HarvestInit, Init, CacheInit
<1>2. \A t \in Threads : at[t][1] = "idle" /\ at[t][2] = 1
  BY Zenon, <1>1
<1>3. Done = 0 /\ LockedBefore(at["new"][1], at["new"][2]) = {}
  BY Zenon, <1>2 DEF Done, LockedBefore, Threads
<1>4. \A s \in Subs : caches[s] = [commits |-> 0, chain |-> StartChain]
  BY Zenon, <1>1
<1>5. CachesInStep
  BY <1>1, <1>3, <1>4, Rounds DEF CachesInStep
<1>6. UnconfirmedDeltaOld
  BY <1>1, <1>3, <1>4 DEF UnconfirmedDeltaOld
<1>7. FacadeCurrent
  BY Zenon, <1>1, <1>2, <1>4 DEF FacadeCurrent, Threads
<1> QED
  BY Zenon, <1>5, <1>6, <1>7 DEF DeltaInv

\* A step that touches neither the caches nor the deltas, nor the loop of a commit.
LEMMA QuietBlock ==
    ASSUME DeltaInv, UNCHANGED <<caches, facade>>, unconfirmed' = [unconfirmed EXCEPT !.applied = unconfirmed'.applied],
           at'["new"] = at["new"], at'["harvest"] = at["harvest"], Done = 0, Done' = 0
    PROVE  DeltaInv'
<1>0. \A i \in 1 .. Len(SubCaches) : ~(i <= Done) /\ ~(i <= Done')
  OBVIOUS
<1>1. CachesInStep'
  BY ZenonT(60), <1>0 DEF DeltaInv, CachesInStep
<1>2. unconfirmed' = [delta |-> unconfirmed'.delta, applied |-> unconfirmed'.applied] /\ unconfirmed'.delta = unconfirmed.delta
  BY Zenon DEF DeltaInv, UnconfirmedDeltaOld
<1>3. UnconfirmedDeltaOld'
  BY <1>2 DEF DeltaInv, UnconfirmedDeltaOld
<1>4. FacadeCurrent'
  BY DEF DeltaInv, FacadeCurrent
<1> QED
  BY Zenon, <1>1, <1>3, <1>4 DEF DeltaInv

\* The steps of the block dispatcher, which commits the caches one after the other and then rebases.
LEMMA BlockKeepsDelta ==
    ASSUME DeltaInv, GuardsFollow, LocksExclusive, LockedApart', BlockStep, UNCHANGED facade
    PROVE  DeltaInv'
<1>0. PICK k \in 1 .. Len(SubCaches) : k = at["block"][2]
  BY Zenon DEF GuardsFollow, Threads
<1>1. at'["new"] = at["new"] /\ at'["harvest"] = at["harvest"]
  BY Zenon DEF GuardsFollow, Threads, BlockStep, Process, Refuse, LockStorage, CommitCache, Commit, CommitMarkHeight,
      CommitLockHeight, CommitPromote, CommitSub, CommitReleaseSub, CommitSetHeight, CommitStorage, UpdateMarkUt, UpdateLockUt,
      RebaseAndLock, UpdateApply, Goto
<1>2. ASSUME NEW label \in Labels, at' = [at EXCEPT !["block"] = <<label, 1>>],
             at["block"][1] \notin {"promote", "commitSub", "releaseSub"}, label \notin {"commitSub", "releaseSub"},
             caches' = caches, unconfirmed' = [unconfirmed EXCEPT !.applied = unconfirmed'.applied]
      PROVE  DeltaInv'
  <2>1. at'["block"][1] = label /\ at'["block"][2] = 1
    BY Zenon, <1>2 DEF GuardsFollow, Threads
  <2>2. Done = 0 /\ Done' = 0
    BY <1>2, <2>1 DEF Done
  <2> QED
    BY <1>1, <1>2, <2>2, QuietBlock
<1>3. CASE UNCHANGED unconfirmed /\ (Process \/ Refuse \/ LockStorage \/ CommitStorage \/ UpdateMarkUt \/ UpdateLockUt)
  <2>1. PICK label \in Labels \ {"commitSub", "releaseSub"} :
            /\ at' = [at EXCEPT !["block"] = <<label, 1>>]
            /\ at["block"][1] \notin {"promote", "commitSub", "releaseSub"}
            /\ caches' = caches
    BY Zenon, <1>3 DEF Process, Refuse, LockStorage, CommitStorage, UpdateMarkUt, UpdateLockUt, Labels, Goto, At, cacheVars
  <2>2. unconfirmed' = [unconfirmed EXCEPT !.applied = unconfirmed'.applied]
    BY Zenon, <1>3 DEF DeltaInv, UnconfirmedDeltaOld
  <2> QED
    BY Zenon, <1>2, <2>1, <2>2
<1>4. CASE UNCHANGED unconfirmed /\ (CommitMarkHeight("block") \/ CommitLockHeight("block") \/ CommitSetHeight("block", NewChain))
  <2>1. PICK label \in Labels \ {"commitSub", "releaseSub"} :
            /\ at' = [at EXCEPT !["block"] = <<label, 1>>]
            /\ at["block"][1] \notin {"promote", "commitSub", "releaseSub"}
            /\ caches' = caches
    BY Zenon, <1>4 DEF CommitMarkHeight, CommitLockHeight, CommitSetHeight, Labels, Goto, At, cacheVars
  <2>2. unconfirmed' = [unconfirmed EXCEPT !.applied = unconfirmed'.applied]
    BY Zenon, <1>4 DEF DeltaInv, UnconfirmedDeltaOld
  <2> QED
    BY Zenon, <1>2, <2>1, <2>2
<1>5. CASE UpdateApply
  <2>1. /\ at' = [at EXCEPT !["block"] = <<"idle", 1>>] /\ at["block"][1] = "apply" /\ caches' = caches
    BY Zenon, <1>5 DEF UpdateApply, Goto, At, cacheVars
  <2>2. PICK state : Finish(state)
    BY Zenon, <1>5 DEF UpdateApply
  <2>3. unconfirmed' = [unconfirmed EXCEPT !.applied = unconfirmed'.applied]
    BY Zenon, <2>2 DEF Finish, DeltaInv, UnconfirmedDeltaOld
  <2>4. "idle" \in Labels
    BY Zenon DEF Labels
  <2> QED
    BY Zenon, <1>2, <2>1, <2>3, <2>4
<1>6. CASE CommitPromote("block") /\ UNCHANGED <<chain, sync, unconfirmed>>
  <2>1. /\ at' = [at EXCEPT !["block"] = <<"commitSub", k>>] /\ at["block"][1] = "promote" /\ caches' = caches
    BY Zenon, <1>0, <1>6 DEF CommitPromote, At, cacheVars
  <2>2. at'["block"][1] = "commitSub" /\ at'["block"][2] = k
    BY Zenon, <2>1 DEF GuardsFollow, Threads
  <2>3. Done' = Done /\ NewChain' = NewChain
    BY <1>0, <1>6, <2>1, <2>2 DEF Done, NewChain
  <2> QED
    BY <1>1, <1>6, <2>1, <2>3 DEF DeltaInv, CachesInStep, UnconfirmedDeltaOld, FacadeCurrent
<1>7. CASE CommitSub("block", NewChain) /\ UNCHANGED <<chain, sync, unconfirmed>>
  <2>1. /\ at' = [at EXCEPT !["block"] = <<"releaseSub", k>>] /\ at["block"][1] = "commitSub"
        /\ caches' = [caches EXCEPT ![SubCaches[k]] = [commits |-> caches[SubCaches[k]].commits + 1, chain |-> NewChain]]
    BY ZenonT(60), <1>0, <1>7 DEF CommitSub, At, Sub
  <2>2. at'["block"][1] = "releaseSub" /\ at'["block"][2] = k
    BY ZenonT(60), <2>1 DEF GuardsFollow, Threads
  <2>3. Done = k - 1 /\ Done' = k /\ NewChain' = NewChain
    BY Zenon, <1>0, <1>7, <2>1, <2>2 DEF Done, NewChain
  <2>4. SubCaches[k] \in Subs /\ DOMAIN caches = Subs /\ caches[SubCaches[k]].commits \in Nat
    BY Zenon, Rounds DEF DeltaInv, CachesInStep
  <2>5. /\ caches'[SubCaches[k]] = [commits |-> caches[SubCaches[k]].commits + 1, chain |-> NewChain]
        /\ \A s \in Subs \ {SubCaches[k]} : caches'[s] = caches[s]
        /\ DOMAIN caches' = Subs
    BY Zenon, <2>1, <2>4
  <2>6. CachesInStep'
    <3>1. \A s \in Subs : caches'[s].commits \in Nat
      BY <2>4, <2>5 DEF DeltaInv, CachesInStep
    <3>2. \A i \in 1 .. Len(SubCaches) : (i # k => SubCaches[i] \in Subs \ {SubCaches[k]}) /\ i \in Nat
      BY SubCachesType
    <3>3. \A i \in 1 .. Len(SubCaches) : i < k =>
              caches'[SubCaches[i]] = [commits |-> caches[SubCaches[k]].commits + 1, chain |-> NewChain]
      <4> SUFFICES ASSUME NEW i \in 1 .. Len(SubCaches), i < k
                   PROVE  caches'[SubCaches[i]] = [commits |-> caches[SubCaches[k]].commits + 1, chain |-> NewChain]
        BY Zenon
      <4>1. i <= Done /\ k > Done
        BY <2>3, <3>2
      <4>2. /\ caches[SubCaches[i]].commits = caches[SubCaches[k]].commits + 1
            /\ caches[SubCaches[i]] = [commits |-> caches[SubCaches[i]].commits, chain |-> NewChain]
        BY Zenon, <4>1 DEF DeltaInv, CachesInStep
      <4> QED
        BY Zenon, <2>5, <3>2, <4>2
    <3>4. \A i \in 1 .. Len(SubCaches) : i > k => caches'[SubCaches[i]] = caches[SubCaches[k]]
      <4> SUFFICES ASSUME NEW i \in 1 .. Len(SubCaches), i > k
                   PROVE  caches'[SubCaches[i]] = caches[SubCaches[k]]
        BY Zenon
      <4>1. ~(i <= Done) /\ ~(k <= Done)
        BY <2>3, <3>2
      <4>2. caches[SubCaches[i]] = caches[SubCaches[k]]
        BY ZenonT(60), <4>1 DEF DeltaInv, CachesInStep
      <4> QED
        BY <2>5, <3>2, <4>2
    <3>5. \A i \in 1 .. Len(SubCaches) :
              /\ i <= k => caches'[SubCaches[i]] = [commits |-> caches[SubCaches[k]].commits + 1, chain |-> NewChain]
              /\ ~(i <= k) => caches'[SubCaches[i]] = caches[SubCaches[k]]
      BY <2>5, <3>2, <3>3, <3>4
    <3> QED
      BY <2>3, <2>4, <2>5, <3>1, <3>5 DEF CachesInStep
  <2>7. SubCaches[k] \notin LockedBefore(at["new"][1], at["new"][2])
    BY Zenon, <1>1, <2>2 DEF LockedApart
  <2>8. UnconfirmedDeltaOld'
    <3>1. LockedBefore(at["new"][1], at["new"][2]) \subseteq Subs \ {SubCaches[k]}
      BY Zenon, <2>7, LockedInSubs DEF GuardsFollow, Threads
    <3>2. \A s \in LockedBefore(at["new"][1], at["new"][2]) : unconfirmed.delta[s].commits = caches'[s].commits
      BY Zenon, <2>5, <3>1 DEF DeltaInv, UnconfirmedDeltaOld
    <3>3. \A s \in Subs \ {SubCaches[k]} :
              /\ unconfirmed.delta[s].commits \in Nat
              /\ unconfirmed.delta[s].commits <= caches'[s].commits
              /\ unconfirmed.delta[s].commits = caches'[s].commits => unconfirmed.delta[s] = caches'[s]
      BY Zenon, <2>5 DEF DeltaInv, UnconfirmedDeltaOld
    <3>4. /\ unconfirmed.delta[SubCaches[k]].commits \in Nat
          /\ unconfirmed.delta[SubCaches[k]].commits <= caches[SubCaches[k]].commits
      BY Zenon, <2>4 DEF DeltaInv, UnconfirmedDeltaOld
    <3>5. caches'[SubCaches[k]].commits = caches[SubCaches[k]].commits + 1
      BY <2>5
    <3>6. /\ unconfirmed.delta[SubCaches[k]].commits <= caches'[SubCaches[k]].commits
          /\ unconfirmed.delta[SubCaches[k]].commits # caches'[SubCaches[k]].commits
      BY <2>4, <3>4, <3>5
    <3>7. /\ unconfirmed = [delta |-> unconfirmed.delta, applied |-> unconfirmed.applied]
          /\ \A s, r \in Subs : unconfirmed.delta[s].chain = unconfirmed.delta[r].chain
      BY Zenon DEF DeltaInv, UnconfirmedDeltaOld
    <3> QED
      BY Zenon, <1>1, <1>7, <3>2, <3>3, <3>4, <3>6, <3>7 DEF UnconfirmedDeltaOld
  <2>9. FacadeCurrent'
    BY Zenon, <1>1, <2>1, FacadeStopsCommits DEF DeltaInv, FacadeCurrent
  <2> QED
    BY ZenonT(60), <2>6, <2>8, <2>9 DEF DeltaInv
<1>8. CASE CommitReleaseSub("block") /\ UNCHANGED <<chain, sync, unconfirmed>>
  <2>1. /\ at["block"][1] = "releaseSub" /\ caches' = caches
        /\ IF k < Len(SubCaches) THEN at' = [at EXCEPT !["block"] = <<"promote", k + 1>>]
           ELSE at' = [at EXCEPT !["block"] = <<"setHeight", 1>>]
    BY Zenon, <1>0, <1>8 DEF CommitReleaseSub, At, Goto, cacheVars
  <2>2. IF k < Len(SubCaches) THEN at'["block"][1] = "promote" /\ at'["block"][2] = k + 1 ELSE at'["block"][1] = "setHeight"
    BY <2>1 DEF GuardsFollow, Threads
  <2>3. Done = k /\ NewChain' = NewChain /\ Done' = IF k < Len(SubCaches) THEN k ELSE 0
    BY SMTT(30), <1>0, <1>8, <2>1, <2>2, Rounds DEF Done, NewChain
  <2>4. CachesInStep'
    <3>1. CASE k < Len(SubCaches)
      BY Zenon, <2>1, <2>3, <3>1 DEF DeltaInv, CachesInStep
    <3>2. CASE ~(k < Len(SubCaches))
      <4>1. \A i \in 1 .. Len(SubCaches) : i <= Done /\ ~(i <= Done')
        BY <2>3, <3>2, Rounds
      <4> QED
        BY Zenon, <2>1, <4>1 DEF DeltaInv, CachesInStep
    <3> QED
      BY <3>1, <3>2
  <2> QED
    BY <1>1, <1>8, <2>1, <2>4 DEF DeltaInv, UnconfirmedDeltaOld, FacadeCurrent
<1>9. CASE RebaseAndLock
  <2>1. /\ at["block"][1] = "rebase" /\ at' = [at EXCEPT !["block"] = <<"apply", 1>>] /\ caches' = caches
        /\ unconfirmed' = [delta |-> caches, applied |-> <<>>]
    BY Zenon, <1>9 DEF RebaseAndLock, At, Goto, cacheVars
  <2>2. at'["block"][1] = "apply"
    BY Zenon, <2>1 DEF GuardsFollow, Threads
  <2>3. Done = 0 /\ Done' = 0
    BY Zenon, <2>1, <2>2 DEF Done
  <2>4. \A i \in 1 .. Len(SubCaches) : ~(i <= Done) /\ ~(i <= Done')
    BY <2>3
  <2>5. CachesInStep'
    BY ZenonT(60), <2>1, <2>4 DEF DeltaInv, CachesInStep
  <2>6. \A s, r \in Subs : caches[s] = caches[r]
    <3>1. \A i, j \in 1 .. Len(SubCaches) : caches[SubCaches[i]] = caches[SubCaches[j]]
      BY ZenonT(60), <2>4 DEF DeltaInv, CachesInStep
    <3>2. \A s \in Subs : \E i \in 1 .. Len(SubCaches) : s = SubCaches[i]
      BY Zenon, SubCachesType
    <3> QED
      BY <3>1, <3>2
  <2>7. LockedBefore(at'["new"][1], at'["new"][2]) \subseteq Subs
    BY Zenon, <1>1, LockedInSubs DEF GuardsFollow, Threads
  <2>8. UnconfirmedDeltaOld'
    BY <2>1, <2>6, <2>7 DEF DeltaInv, UnconfirmedDeltaOld, CachesInStep
  <2> QED
    BY Zenon, <1>1, <2>1, <2>5, <2>8 DEF DeltaInv, FacadeCurrent
<1> QED
  BY ZenonT(60), <1>3, <1>4, <1>5, <1>6, <1>7, <1>8, <1>9 DEF BlockStep, CommitCache, Commit, utVars, Process, Refuse, LockStorage,
      CommitStorage, UpdateMarkUt, UpdateLockUt

\* A step of the thread that adds new transactions.
LEMMA NewMoves ==
    ASSUME DeltaInv, GuardsFollow, NEW label \in Labels, NEW k \in 1 .. Len(SubCaches), at' = [at EXCEPT !["new"] = <<label, k>>],
           UNCHANGED <<caches, chain, sync, facade>>, unconfirmed' = [unconfirmed EXCEPT !.applied = unconfirmed'.applied],
           \A s \in LockedBefore(label, k) : unconfirmed.delta[s].commits = caches[s].commits
    PROVE  DeltaInv'
<1>1. at'["block"] = at["block"] /\ at'["harvest"] = at["harvest"] /\ at'["new"][1] = label /\ at'["new"][2] = k
  BY Zenon DEF GuardsFollow, Threads
<1>2. Done' = Done /\ NewChain' = NewChain
  BY <1>1 DEF Done, NewChain
<1>3. CachesInStep'
  BY ZenonT(60), <1>2 DEF DeltaInv, CachesInStep
<1>4. unconfirmed' = [delta |-> unconfirmed'.delta, applied |-> unconfirmed'.applied] /\ unconfirmed'.delta = unconfirmed.delta
  BY Zenon DEF DeltaInv, UnconfirmedDeltaOld
<1>5. UnconfirmedDeltaOld'
  BY <1>1, <1>4 DEF DeltaInv, UnconfirmedDeltaOld
<1>6. FacadeCurrent'
  BY Zenon, <1>1 DEF DeltaInv, FacadeCurrent
<1> QED
  BY Zenon, <1>3, <1>5, <1>6 DEF DeltaInv

\* The transaction dispatcher gives up at the first sub cache that was committed since the rebase.
LEMMA NewKeepsDelta ==
    ASSUME DeltaInv, GuardsFollow, UNCHANGED facade, NewStep \/ \E txs \in NewBatches : NewMarkUt(txs)
    PROVE  DeltaInv'
<1>0. /\ {"lockUt", "tryLock", "apply", "stale", "idle"} \subseteq Labels /\ 1 \in 1 .. Len(SubCaches)
      /\ \A label \in {"lockUt", "stale", "idle"}, k \in 1 .. Len(SubCaches) : LockedBefore(label, k) = {}
  BY Zenon, Rounds DEF Labels, LockedBefore
<1>1. ASSUME UNCHANGED unconfirmed
      PROVE  unconfirmed' = [unconfirmed EXCEPT !.applied = unconfirmed'.applied]
  BY Zenon, <1>1 DEF DeltaInv, UnconfirmedDeltaOld
<1>2. ASSUME NEW txs, NewMarkUt(txs) PROVE DeltaInv'
  <2>1. at' = [at EXCEPT !["new"] = <<"lockUt", 1>>] /\ UNCHANGED <<caches, chain, sync, unconfirmed>>
    BY Zenon, <1>2 DEF NewMarkUt, Goto, cacheVars, utVars
  <2> QED
    BY Zenon, <1>0, <1>1, <2>1, NewMoves
<1>3. ASSUME NewLockUt PROVE DeltaInv'
  <2>1. at' = [at EXCEPT !["new"] = <<"tryLock", 1>>] /\ UNCHANGED <<caches, chain, sync, unconfirmed>>
    BY Zenon, <1>3 DEF NewLockUt, Goto, cacheVars, utVars
  <2>2. LockedBefore("tryLock", 1) = {}
    BY DEF LockedBefore
  <2> QED
    BY Zenon, <1>0, <1>1, <2>1, <2>2, NewMoves
<1>4. ASSUME NewTryLock PROVE DeltaInv'
  <2>1. PICK k \in 1 .. Len(SubCaches) : k = at["new"][2]
    BY Zenon DEF GuardsFollow, Threads
  <2>2. /\ at["new"][1] = "tryLock" /\ UNCHANGED <<caches, chain, sync, unconfirmed>>
        /\ \/ unconfirmed.delta[SubCaches[k]].commits = caches[SubCaches[k]].commits /\ NextSub("new", "apply")
           \/ at' = [at EXCEPT !["new"] = <<"stale", 1>>]
    BY Zenon, <1>4, <2>1 DEF NewTryLock, TryLock, At, Goto, Sub, cacheVars, utVars
  <2>3. /\ "tryLock" \in Labels /\ "apply" \in Labels /\ "stale" \in Labels /\ 1 \in 1 .. Len(SubCaches)
        /\ UNCHANGED <<caches, chain, sync, facade>> /\ unconfirmed' = [unconfirmed EXCEPT !.applied = unconfirmed'.applied]
    BY ZenonT(60), <1>0, <1>1, <2>2
  <2>4. CASE unconfirmed.delta[SubCaches[k]].commits = caches[SubCaches[k]].commits /\ NextSub("new", "apply")
    <3>1. \A s \in LockedBefore("tryLock", k) \union {SubCaches[k]} : unconfirmed.delta[s].commits = caches[s].commits
      BY Zenon, <2>1, <2>2, <2>4 DEF DeltaInv, UnconfirmedDeltaOld
    <3>2. CASE k < Len(SubCaches)
      <4>1. at' = [at EXCEPT !["new"] = <<"tryLock", k + 1>>]
        BY <2>1, <2>2, <2>4, <3>2 DEF NextSub, GuardsFollow, Threads
      <4>2. k + 1 \in 1 .. Len(SubCaches)
        BY <3>2, Rounds
      <4>3. \A s \in LockedBefore("tryLock", k + 1) : unconfirmed.delta[s].commits = caches[s].commits
        BY <3>1, TryLocked
      <4> QED
        BY ZenonT(60), <2>3, <4>1, <4>2, <4>3, NewMoves
    <3>3. CASE ~(k < Len(SubCaches))
      <4>1. at' = [at EXCEPT !["new"] = <<"apply", 1>>]
        BY Zenon, <2>1, <2>4, <3>3 DEF NextSub, Goto
      <4>2. LockedBefore("apply", 1) = Subs /\ k = Len(SubCaches)
        BY <3>3, Rounds DEF LockedBefore
      <4>3. \A s \in LockedBefore("apply", 1) : unconfirmed.delta[s].commits = caches[s].commits
        BY ZenonT(60), <3>1, <4>2, TryLocked
      <4> QED
        BY Zenon, <2>3, <4>1, <4>3, NewMoves
    <3> QED
      BY Zenon, <3>2, <3>3
  <2>5. CASE at' = [at EXCEPT !["new"] = <<"stale", 1>>]
    BY Zenon, <1>0, <2>3, <2>5, NewMoves
  <2> QED
    BY Zenon, <2>2, <2>4, <2>5
<1>5. ASSUME NewApply \/ NewAddAll PROVE DeltaInv'
  <2>1. at' = [at EXCEPT !["new"] = <<"idle", 1>>] /\ UNCHANGED <<caches, chain, sync>>
    BY Zenon, <1>5 DEF NewApply, NewAddAll, Goto, cacheVars
  <2>2. PICK state : Finish(state)
    BY Zenon, <1>5 DEF NewApply, NewAddAll
  <2>3. unconfirmed' = [unconfirmed EXCEPT !.applied = unconfirmed'.applied]
    BY Zenon, <2>2 DEF Finish, DeltaInv, UnconfirmedDeltaOld
  <2> QED
    BY Zenon, <1>0, <2>1, <2>3, NewMoves
<1> QED
  BY Zenon, <1>2, <1>3, <1>4, <1>5 DEF NewStep

\* A step of the harvester.
LEMMA HarvestMoves ==
    ASSUME DeltaInv, GuardsFollow, NEW label \in Labels \ {"stale"}, NEW k \in 1 .. Len(SubCaches),
           at' = [at EXCEPT !["harvest"] = <<label, k>>], UNCHANGED <<caches, chain, sync, unconfirmed>>,
           facade' = [delta |-> facade'.delta, applied |-> facade'.applied],
           DOMAIN facade'.delta = Subs, facade'.delta = [s \in Subs |-> facade'.delta[s]],
           label = "detach" => \A i \in 1 .. (k - 1) : facade'.delta[SubCaches[i]] = caches[SubCaches[i]],
           label \in {"tryLock", "checkHeight", "select", "build"} => \A s \in Subs : facade'.delta[s] = caches[s]
    PROVE  DeltaInv'
<1>1. at'["block"] = at["block"] /\ at'["new"] = at["new"] /\ at'["harvest"][1] = label /\ at'["harvest"][2] = k
  BY Zenon DEF GuardsFollow, Threads
<1>2. Done' = Done /\ NewChain' = NewChain
  BY <1>1 DEF Done, NewChain
<1>3. CachesInStep'
  BY <1>2 DEF DeltaInv, CachesInStep
<1>4. UnconfirmedDeltaOld'
  BY <1>1 DEF DeltaInv, UnconfirmedDeltaOld
<1>5. FacadeCurrent'
  BY Zenon, <1>1 DEF FacadeCurrent
<1> QED
  BY Zenon, <1>3, <1>4, <1>5 DEF DeltaInv

\* The harvester detaches one sub cache after the other and then locks them.
LEMMA HarvestKeepsDelta ==
    ASSUME DeltaInv, GuardsFollow, ReadLastBlock \/ HarvestStep
    PROVE  DeltaInv'
<1>0. /\ {"openFacade", "detach", "tryLock", "checkHeight", "select", "build", "readImportanceHash", "push", "idle"}
             \subseteq Labels \ {"stale"}
      /\ 1 \in 1 .. Len(SubCaches)
  BY Zenon, Rounds DEF Labels
<1>1. /\ facade = [delta |-> facade.delta, applied |-> facade.applied]
      /\ DOMAIN facade.delta = Subs /\ facade.delta = [s \in Subs |-> facade.delta[s]]
  BY Zenon DEF DeltaInv, FacadeCurrent
<1>2. ASSUME NEW applied, facade' = [facade EXCEPT !.applied = applied]
      PROVE  /\ facade' = [delta |-> facade'.delta, applied |-> facade'.applied] /\ facade'.delta = facade.delta
             /\ DOMAIN facade'.delta = Subs /\ facade'.delta = [s \in Subs |-> facade'.delta[s]]
  BY Zenon, <1>1, <1>2
<1>3. ASSUME UNCHANGED facade
      PROVE  /\ facade' = [delta |-> facade'.delta, applied |-> facade'.applied] /\ facade'.delta = facade.delta
             /\ DOMAIN facade'.delta = Subs /\ facade'.delta = [s \in Subs |-> facade'.delta[s]]
  BY Zenon, <1>1, <1>3
<1>4. ASSUME ReadLastBlock \/ BuildBlock \/ ReadImportanceHash \/ Push PROVE DeltaInv'
  <2>1. PICK label \in {"openFacade", "readImportanceHash", "push", "idle"} :
            at' = [at EXCEPT !["harvest"] = <<label, 1>>] /\ UNCHANGED <<caches, chain, sync, unconfirmed, facade>>
    BY Zenon, <1>4 DEF ReadLastBlock, BuildBlock, ReadImportanceHash, Push, Goto, nodeVars, cacheVars, utVars, harvestVars
  <2> QED
    BY ZenonT(60), <1>0, <1>3, <2>1, HarvestMoves
<1>5. ASSUME OpenFacade PROVE DeltaInv'
  <2>1. /\ at' = [at EXCEPT !["harvest"] = <<"detach", 1>>] /\ UNCHANGED <<caches, chain, sync, unconfirmed>>
        /\ facade' = [facade EXCEPT !.applied = <<>>]
    BY Zenon, <1>5 DEF OpenFacade, Goto, nodeVars, cacheVars, utVars
  <2>2. \A i \in 1 .. (1 - 1) : FALSE
    OBVIOUS
  <2> QED
    BY Zenon, <1>0, <1>2, <2>1, <2>2, HarvestMoves
<1>6. ASSUME Detach PROVE DeltaInv'
  <2>1. PICK k \in 1 .. Len(SubCaches) : k = at["harvest"][2]
    BY Zenon DEF GuardsFollow, Threads
  <2>2. /\ at["harvest"][1] = "detach" /\ UNCHANGED <<caches, chain, sync, unconfirmed>> /\ NextSub("harvest", "tryLock")
        /\ facade' = [facade EXCEPT !.delta[SubCaches[k]] = caches[SubCaches[k]]]
    BY Zenon, <1>6, <2>1 DEF Detach, At, Sub, nodeVars, cacheVars, utVars
  <2>3. /\ facade' = [delta |-> facade'.delta, applied |-> facade'.applied]
        /\ facade'.delta = [facade.delta EXCEPT ![SubCaches[k]] = caches[SubCaches[k]]]
    BY Zenon, <1>1, <2>2
  <2>4. /\ DOMAIN facade'.delta = Subs /\ facade'.delta = [s \in Subs |-> facade'.delta[s]]
        /\ facade'.delta[SubCaches[k]] = caches[SubCaches[k]]
        /\ \A s \in Subs \ {SubCaches[k]} : facade'.delta[s] = facade.delta[s]
    BY SMTT(30), <1>1, <2>3, Rounds
  <2>5. \A i \in 1 .. Len(SubCaches) : i <= k => facade'.delta[SubCaches[i]] = caches[SubCaches[i]]
    <3> SUFFICES ASSUME NEW i \in 1 .. Len(SubCaches), i <= k, i # k
                 PROVE  facade'.delta[SubCaches[i]] = caches[SubCaches[i]]
      BY Zenon, <2>4
    <3>1. i \in 1 .. (k - 1)
      BY Rounds
    <3>2. SubCaches[i] \in Subs \ {SubCaches[k]}
      BY Zenon, SubCachesType
    <3> QED
      BY Zenon, <2>1, <2>2, <2>4, <3>1, <3>2 DEF DeltaInv, FacadeCurrent
  <2>6. CASE k < Len(SubCaches)
    <3>1. at' = [at EXCEPT !["harvest"] = <<"detach", k + 1>>]
      BY <2>1, <2>2, <2>6 DEF NextSub, GuardsFollow, Threads
    <3>2. k + 1 \in 1 .. Len(SubCaches) /\ \A i \in 1 .. ((k + 1) - 1) : i \in 1 .. Len(SubCaches) /\ i <= k
      BY <2>6, Rounds
    <3>3. \A i \in 1 .. ((k + 1) - 1) : facade'.delta[SubCaches[i]] = caches[SubCaches[i]]
      BY Zenon, <2>5, <3>2
    <3> QED
      BY ZenonT(60), <1>0, <2>2, <2>3, <2>4, <3>1, <3>2, <3>3, HarvestMoves
  <2>7. CASE ~(k < Len(SubCaches))
    <3>1. at' = [at EXCEPT !["harvest"] = <<"tryLock", 1>>]
      BY Zenon, <2>1, <2>2, <2>7 DEF NextSub, Goto
    <3>2. \A i \in 1 .. Len(SubCaches) : i <= k
      BY <2>7, Rounds
    <3>3. \A s \in Subs : \E i \in 1 .. Len(SubCaches) : s = SubCaches[i]
      BY Zenon, SubCachesType
    <3>4. \A s \in Subs : facade'.delta[s] = caches[s]
      BY <2>5, <3>2, <3>3
    <3> QED
      BY Zenon, <1>0, <2>2, <2>3, <2>4, <3>1, <3>4, HarvestMoves
  <2> QED
    BY Zenon, <2>6, <2>7
<1>7. ASSUME FacadeTryLock PROVE DeltaInv'
  <2>1. PICK k \in 1 .. Len(SubCaches) : k = at["harvest"][2]
    BY DEF GuardsFollow, Threads
  <2>2. at["harvest"][1] = "tryLock" /\ SubCaches[k] \in Subs
    BY Zenon, <1>7, Rounds DEF FacadeTryLock, TryLock, At
  <2>3. \A s \in Subs : facade.delta[s] = caches[s]
    BY Zenon, <2>2 DEF DeltaInv, FacadeCurrent
  <2>4. facade.delta[Sub("harvest")].commits = caches[Sub("harvest")].commits
    BY Zenon, <2>1, <2>2, <2>3 DEF Sub
  <2>5. NextSub("harvest", "checkHeight") /\ UNCHANGED <<caches, chain, sync, unconfirmed, facade>>
    BY Zenon, <1>7, <2>4 DEF FacadeTryLock, TryLock, cacheVars, utVars, harvestVars
  <2>6. CASE k < Len(SubCaches)
    <3>1. at' = [at EXCEPT !["harvest"] = <<"tryLock", k + 1>>] /\ k + 1 \in 1 .. Len(SubCaches)
      BY <2>1, <2>2, <2>5, <2>6, Rounds DEF NextSub, GuardsFollow, Threads
    <3> QED
      BY ZenonT(60), <1>0, <1>3, <2>3, <2>5, <3>1, HarvestMoves
  <2>7. CASE ~(k < Len(SubCaches))
    <3>1. at' = [at EXCEPT !["harvest"] = <<"checkHeight", 1>>]
      BY Zenon, <2>1, <2>5, <2>7 DEF NextSub, Goto
    <3> QED
      BY ZenonT(60), <1>0, <1>3, <2>3, <2>5, <3>1, HarvestMoves
  <2> QED
    BY <2>6, <2>7
<1>8. ASSUME CheckHeight PROVE DeltaInv'
  <2>1. PICK label \in {"select", "idle"} :
            at' = [at EXCEPT !["harvest"] = <<label, 1>>] /\ UNCHANGED <<caches, chain, sync, unconfirmed, facade>>
    BY Zenon, <1>8 DEF CheckHeight, Goto, nodeVars, cacheVars, utVars, harvestVars
  <2>2. \A s \in Subs : facade.delta[s] = caches[s]
    BY Zenon, <1>8 DEF CheckHeight, At, DeltaInv, FacadeCurrent
  <2> QED
    BY ZenonT(60), <1>0, <1>3, <2>1, <2>2, HarvestMoves
<1>9. ASSUME SelectTransactions PROVE DeltaInv'
  <2>1. PICK applied : facade' = [facade EXCEPT !.applied = applied]
    BY Zenon, <1>9 DEF SelectTransactions
  <2>2. at' = [at EXCEPT !["harvest"] = <<"build", 1>>] /\ UNCHANGED <<caches, chain, sync, unconfirmed>>
    BY Zenon, <1>9 DEF SelectTransactions, Goto, nodeVars, cacheVars, utVars
  <2>3. \A s \in Subs : facade.delta[s] = caches[s]
    BY Zenon, <1>9 DEF SelectTransactions, At, DeltaInv, FacadeCurrent
  <2> QED
    BY Zenon, <1>0, <1>2, <2>1, <2>2, <2>3, HarvestMoves
<1> QED
  BY Zenon, <1>4, <1>5, <1>6, <1>7, <1>8, <1>9 DEF HarvestStep

\* A new block for the dispatcher.
LEMMA PreprocessKeepsDelta ==
    ASSUME DeltaInv, GuardsFollow, NEW common, NEW blocks, NEW isLocal, Preprocess(common, blocks, isLocal), UNCHANGED facade
    PROVE  DeltaInv'
<1>1. /\ at["block"][1] = "idle" /\ at' = [at EXCEPT !["block"] = <<"process", 1>>] /\ UNCHANGED <<caches, unconfirmed>>
  BY Zenon DEF Preprocess, At, Goto, cacheVars, utVars
<1>2. at'["new"] = at["new"] /\ at'["harvest"] = at["harvest"] /\ at'["block"][1] = "process"
  BY ZenonT(60), <1>1 DEF GuardsFollow, Threads
<1>3. Done = 0 /\ Done' = 0
  BY Zenon, <1>1, <1>2 DEF Done
<1>4. unconfirmed' = [unconfirmed EXCEPT !.applied = unconfirmed'.applied]
  BY Zenon, <1>1 DEF DeltaInv, UnconfirmedDeltaOld
<1> QED
  BY Zenon, <1>1, <1>2, <1>3, <1>4, QuietBlock

\* One step of any thread.
LEMMA DeltaAlways ==
    ASSUME DeltaInv, GuardsFollow, LocksExclusive, LockedApart', [Next]_vars
    PROVE  DeltaInv'
<1>1. ASSUME UNCHANGED <<at, caches, chain, sync, unconfirmed, facade>>
      PROVE  DeltaInv'
  <2>1. Done' = Done /\ NewChain' = NewChain
    BY Zenon, <1>1 DEF Done, NewChain
  <2>2. CachesInStep'
    BY Zenon, <1>1, <2>1 DEF DeltaInv, CachesInStep
  <2>3. UnconfirmedDeltaOld' /\ FacadeCurrent'
    BY ZenonT(60), <1>1 DEF DeltaInv, UnconfirmedDeltaOld, FacadeCurrent
  <2> QED
    BY Zenon, <2>2, <2>3 DEF DeltaInv
<1>2. ASSUME NEW common, NEW blocks, PreprocessPeer(common, blocks), UNCHANGED harvestVars
      PROVE  DeltaInv'
  <2>1. Preprocess(common, blocks, FALSE) /\ UNCHANGED facade
    BY Zenon, <1>2 DEF PreprocessPeer, harvestVars
  <2> QED
    BY Zenon, <2>1, PreprocessKeepsDelta
<1>3. CASE PreprocessHarvested
  <2>1. PICK common, blocks : Preprocess(common, blocks, TRUE)
    BY Zenon, <1>3 DEF PreprocessHarvested
  <2>2. UNCHANGED facade
    BY <1>3 DEF PreprocessHarvested, harvestVars
  <2> QED
    BY Zenon, <2>1, <2>2, PreprocessKeepsDelta
<1>4. CASE AbortHarvested
  BY <1>1, <1>4 DEF AbortHarvested, nodeVars, cacheVars, utVars
<1>5. CASE BlockStep /\ Completion
  <2>1. UNCHANGED facade
    BY <1>5 DEF Completion, harvestVars
  <2> QED
    BY <1>5, <2>1, BlockKeepsDelta
<1>6. CASE UNCHANGED harvestVars /\ (NewStep \/ \E txs \in NewBatches : NewMarkUt(txs))
  <2>1. UNCHANGED facade
    BY <1>6 DEF harvestVars
  <2> QED
    BY <1>6, <2>1, NewKeepsDelta
<1>7. CASE ReadLastBlock \/ HarvestStep
  BY <1>7, HarvestKeepsDelta
<1>8. CASE UNCHANGED vars
  BY <1>1, <1>8 DEF vars, nodeVars, cacheVars, utVars, harvestVars
<1> QED
  BY Zenon, <1>2, <1>3, <1>4, <1>5, <1>6, <1>7, <1>8 DEF Next, Step, DispatcherStep

\* The deltas are of the chain that the caches hold: of both threads, as the sub caches they keep locked cannot be
\* committed, and a sub cache that was committed before is found out by its counter.
LEMMA DeltaIsOfOneChain ==
    ASSUME DeltaInv, GuardsFollow, LocksExclusive
    PROVE  DeltaOfOneChain
<1>1. \A s \in Subs : \E i \in 1 .. Len(SubCaches) : s = SubCaches[i]
  BY Zenon, SubCachesType
<1>2. ASSUME at["block"][1] \notin {"commitSub", "releaseSub", "promote"}
      PROVE  \A s, r \in Subs : caches[s] = caches[r]
  <2>1. \A i \in 1 .. Len(SubCaches) : ~(i <= Done)
    BY <1>2 DEF Done
  <2>2. \A i, j \in 1 .. Len(SubCaches) : caches[SubCaches[i]] = caches[SubCaches[j]]
    BY Zenon, <2>1 DEF DeltaInv, CachesInStep
  <2> QED
    BY <1>1, <2>2
<1>3. ASSUME at["new"][1] = "apply"
      PROVE  \A s, r \in Subs : unconfirmed.delta[s].chain = caches[r].chain
  <2>1. LockedBefore(at["new"][1], at["new"][2]) = Subs
    BY Zenon, <1>3 DEF LockedBefore
  <2>2. \A s \in Subs : unconfirmed.delta[s] = caches[s]
    BY Zenon, <2>1 DEF DeltaInv, UnconfirmedDeltaOld
  <2> QED
    BY Zenon, <2>2 DEF DeltaInv, UnconfirmedDeltaOld
<1>4. ASSUME at["harvest"][1] \in {"select", "build"}
      PROVE  \A s, r \in Subs : facade.delta[s].chain = caches[r].chain
  <2>1. \A s \in Subs : facade.delta[s] = caches[s]
    BY Zenon, <1>4 DEF DeltaInv, FacadeCurrent
  <2> QED
    BY Zenon, <1>2, <1>4, <2>1, FacadeStopsCommits
<1>5. ~At("harvest", "stale")
  BY Zenon DEF DeltaInv, FacadeCurrent, At
<1> QED
  BY Zenon, <1>3, <1>4, <1>5 DEF DeltaOfOneChain, At

\* Whoever works on a detached delta works on one chain: while new transactions are validated, and while the harvester
\* selects and builds, every sub cache of the delta is of the chain that all the sub caches hold, however many of them
\* there are and whatever the commits between; and the harvester, which does not test what tryLock returns, never gets
\* a stale delta.
THEOREM DeltasAreOfOneChain == Spec => []DeltaOfOneChain
<1>1. HarvestInit => GuardsFollow /\ DeltaInv
  BY Zenon, FollowsInitially, DeltaInitially
<1>2. GuardsFollow /\ [Next]_vars => GuardsFollow'
  BY Zenon, FollowsAlways DEF LocksFollow
<1>3. LocksExclusive /\ GuardsFollow => LockedApart
  BY Zenon, LockedNotCommitted
<1>4. DeltaInv /\ GuardsFollow /\ LocksExclusive /\ LockedApart' /\ [Next]_vars => DeltaInv'
  BY Zenon, DeltaAlways
<1>5. DeltaInv /\ GuardsFollow /\ LocksExclusive => DeltaOfOneChain
  BY Zenon, DeltaIsOfOneChain
<1> QED
  BY <1>1, <1>2, <1>3, <1>4, <1>5, ThreadsExclude, PTL DEF Spec

-----------------------------------------------------------------------------
(* The commits                                                             *)

\* Where the block dispatcher is before and after a commit, and while it commits.
Settled == {"idle", "process", "lockStorage", "commit", "lockHeight", "update", "lockUt", "rebase", "apply"}
CommitPoints == {"promote", "commitSub", "releaseSub", "setHeight"}

\* The caches hold the chain of the storage, and once they are committed the chain that the storage is to have.
CommitInStep ==
    /\ at["block"][1] \in Settled \union CommitPoints \union {"committed"}
    /\ at["block"][1] \in Settled => height = Len(chain) /\ \A s \in Subs : caches[s].chain = chain
    /\ at["block"][1] \in {"setHeight", "committed"} => \A s \in Subs : caches[s].chain = NewChain
    /\ at["block"][1] = "committed" => height = Len(NewChain)

\* The loaded caches hold the loaded chain.
LEMMA CommitInitially ==
    ASSUME HarvestInit
    PROVE  CommitInStep
<1>1. /\ at = [t \in Threads |-> <<"idle", 1>>]
      /\ caches = [s \in Subs |-> [commits |-> 0, chain |-> StartChain]]
      /\ height = Len(StartChain) /\ chain = StartChain
  BY Zenon DEF HarvestInit, Init, CacheInit
<1>2. at["block"][1] = "idle"
  BY Zenon, <1>1 DEF Threads
<1>3. \A s \in Subs : caches[s].chain = chain
  BY Zenon, <1>1
<1> QED
  BY Zenon, <1>1, <1>2, <1>3 DEF CommitInStep, Settled

\* A step of the block dispatcher that neither commits nor begins or ends a commit.
LEMMA SettledStays ==
    ASSUME CommitInStep, GuardsFollow, NEW label \in Settled, at["block"][1] \in Settled,
           at' = [at EXCEPT !["block"] = <<label, 1>>], UNCHANGED <<caches, height, chain>>
    PROVE  CommitInStep'
<1>1. at'["block"][1] = label /\ label \notin {"setHeight", "committed"}
  BY Zenon DEF GuardsFollow, Threads, Settled
<1> QED
  BY Zenon, <1>1 DEF CommitInStep

\* While it commits nothing is said but of the sub caches that it has committed.
LEMMA WhileCommitting ==
    ASSUME at'["block"][1] \in CommitPoints,
           at'["block"][1] = "setHeight" => \A s \in Subs : caches'[s].chain = NewChain'
    PROVE  CommitInStep'
<1>1. at'["block"][1] \notin Settled /\ at'["block"][1] # "committed"
  BY Zenon DEF Settled, CommitPoints
<1> QED
  BY Zenon, <1>1 DEF CommitInStep

\* The steps of the other threads.
LEMMA OthersStay ==
    ASSUME CommitInStep, at'["block"] = at["block"], UNCHANGED <<caches, height, chain, sync>>
    PROVE  CommitInStep'
<1>1. NewChain' = NewChain
  BY Zenon DEF NewChain
<1> QED
  BY Zenon, <1>1 DEF CommitInStep

\* The steps of the block dispatcher.
LEMMA BlockKeepsCommit ==
    ASSUME CommitInStep, DeltaInv, GuardsFollow, BlockStep
    PROVE  CommitInStep'
<1>0. PICK k \in 1 .. Len(SubCaches) : k = at["block"][2]
  BY Zenon DEF GuardsFollow, Threads
<1>1. ASSUME NEW label, NEW i, at' = [at EXCEPT !["block"] = <<label, i>>]
      PROVE  at'["block"][1] = label
  BY Zenon, <1>1 DEF GuardsFollow, Threads
<1>2. CASE \/ Process \/ Refuse \/ LockStorage \/ (CommitMarkHeight("block") /\ UNCHANGED chain)
           \/ UpdateMarkUt \/ UpdateLockUt \/ RebaseAndLock \/ UpdateApply
  <2>1. /\ at["block"][1] \in Settled /\ UNCHANGED <<caches, height, chain>>
        /\ \E label \in Settled : at' = [at EXCEPT !["block"] = <<label, 1>>]
    BY Zenon, <1>2 DEF Process, Refuse, LockStorage, CommitMarkHeight, UpdateMarkUt, UpdateLockUt, RebaseAndLock, UpdateApply,
        At, Goto, cacheVars, Settled
  <2> QED
    BY Zenon, <2>1, SettledStays
<1>3. CASE CommitLockHeight("block")
  <2>1. at'["block"][1] = "promote"
    BY Zenon, <1>1, <1>3 DEF CommitLockHeight, Goto
  <2> QED
    BY Zenon, <2>1, WhileCommitting DEF CommitPoints
<1>4. CASE CommitPromote("block") \/ CommitSub("block", NewChain)
  <2>1. at'["block"][1] \in {"commitSub", "releaseSub"}
    BY Zenon, <1>1, <1>4 DEF CommitPromote, CommitSub
  <2> QED
    BY Zenon, <2>1, WhileCommitting DEF CommitPoints
<1>5. CASE CommitReleaseSub("block") /\ UNCHANGED <<chain, sync>>
  <2>1. CASE at["block"][2] < Len(SubCaches)
    <3>1. at'["block"][1] = "promote"
      BY Zenon, <1>1, <1>5, <2>1 DEF CommitReleaseSub
    <3> QED
      BY Zenon, <3>1, WhileCommitting DEF CommitPoints
  <2>2. CASE ~(at["block"][2] < Len(SubCaches))
    <3>1. at'["block"][1] = "setHeight" /\ at["block"][1] = "releaseSub" /\ caches' = caches
      BY Zenon, <1>1, <1>5, <2>2 DEF CommitReleaseSub, Goto, At, cacheVars
    <3>2. NewChain' = NewChain
      BY Zenon, <1>5 DEF NewChain
    <3>3. Done = k
      BY Zenon, <1>0, <3>1 DEF Done
    <3>4. \A i \in 1 .. Len(SubCaches) : i <= Done
      BY <1>0, <2>2, <3>3, Rounds
    <3>5. CachesInStep
      BY Zenon DEF DeltaInv
    <3>6. \A s \in Subs : caches'[s].chain = NewChain'
      <4> SUFFICES ASSUME NEW s \in Subs PROVE caches[s].chain = NewChain
        BY Zenon, <3>1, <3>2
      <4>1. PICK i \in 1 .. Len(SubCaches) : s = SubCaches[i]
        BY Zenon, SubCachesType
      <4>2. caches[s] = [commits |-> caches[s].commits, chain |-> NewChain]
        BY Zenon, <3>4, <3>5, <4>1 DEF CachesInStep
      <4> QED
        BY <4>2
    <3> QED
      BY Zenon, <3>1, <3>6, WhileCommitting DEF CommitPoints
  <2> QED
    BY Zenon, <2>1, <2>2
<1>6. CASE CommitSetHeight("block", NewChain) /\ UNCHANGED <<chain, sync>>
  <2>1. /\ at'["block"][1] = "committed" /\ at["block"][1] = "setHeight"
        /\ caches' = caches /\ height' = Len(NewChain)
    BY Zenon, <1>1, <1>6 DEF CommitSetHeight, Goto, At
  <2>2. NewChain' = NewChain
    BY Zenon, <1>6 DEF NewChain
  <2> QED
    BY Zenon, <2>1, <2>2 DEF CommitInStep, Settled
<1>7. CASE CommitStorage
  <2>1. /\ at'["block"][1] = "update" /\ at["block"][1] = "committed"
        /\ chain' = NewChain /\ caches' = caches /\ height' = height
    BY Zenon, <1>1, <1>7 DEF CommitStorage, Goto, At, cacheVars
  <2> QED
    BY Zenon, <2>1 DEF CommitInStep, Settled
<1> QED
  BY Zenon, <1>2, <1>3, <1>4, <1>5, <1>6, <1>7 DEF BlockStep, CommitCache, Commit

\* One step of any thread.
LEMMA CommitAlways ==
    ASSUME CommitInStep, DeltaInv, GuardsFollow, [Next]_vars
    PROVE  CommitInStep'
<1>1. ASSUME NEW common, NEW blocks, NEW isLocal, Preprocess(common, blocks, isLocal)
      PROVE  CommitInStep'
  <2>1. /\ at["block"][1] = "idle" /\ at' = [at EXCEPT !["block"] = <<"process", 1>>]
        /\ UNCHANGED <<caches, height, chain>>
    BY Zenon, <1>1 DEF Preprocess, At, Goto, cacheVars
  <2> QED
    BY Zenon, <2>1, SettledStays DEF Settled
<1>2. ASSUME NEW t \in {"new", "harvest"}, NEW place, at' = [at EXCEPT ![t] = place], UNCHANGED <<cacheVars, chain, sync>>
      PROVE  CommitInStep'
  <2>1. at'["block"] = at["block"]
    BY Zenon, <1>2 DEF GuardsFollow, Threads
  <2> QED
    BY Zenon, <1>2, <2>1, OthersStay DEF cacheVars
<1>3. CASE NewStep \/ \E txs \in NewBatches : NewMarkUt(txs)
  <2>1. /\ UNCHANGED <<cacheVars, chain, sync>>
        /\ \E place : at' = [at EXCEPT !["new"] = place]
    BY Zenon, <1>3 DEF NewStep, NewMarkUt, NewLockUt, NewTryLock, NewApply, NewAddAll, TryLock, NextSub, Goto, GuardsFollow
  <2> QED
    BY Zenon, <1>2, <2>1
<1>4. CASE ReadLastBlock \/ HarvestStep
  <2>1. /\ UNCHANGED <<cacheVars, chain, sync>>
        /\ \E place : at' = [at EXCEPT !["harvest"] = place]
    BY Zenon, <1>4 DEF ReadLastBlock, HarvestStep, OpenFacade, Detach, FacadeTryLock, CheckHeight, SelectTransactions, BuildBlock,
        ReadImportanceHash, Push, TryLock, NextSub, Goto, nodeVars, GuardsFollow
  <2> QED
    BY Zenon, <1>2, <2>1
<1>5. CASE AbortHarvested \/ UNCHANGED vars
  <2>1. UNCHANGED <<at, cacheVars, chain, sync>>
    BY Zenon, <1>5 DEF AbortHarvested, vars, nodeVars
  <2> QED
    BY Zenon, <2>1, OthersStay DEF cacheVars
<1> QED
  BY Zenon, <1>1, <1>3, <1>4, <1>5, BlockKeepsCommit
     DEF Next, Step, DispatcherStep, PreprocessPeer, PreprocessHarvested

\* A commit of any number of sub caches is seen as a whole or not at all: the height's lock covers all of it, and the
\* storage's lock the time between the commit of the caches and that of the storage.
THEOREM CommitsAreSeenWhole == Spec => []CommitsSeenWhole
<1>1. HarvestInit => GuardsFollow /\ DeltaInv /\ CommitInStep
  BY Zenon, FollowsInitially, DeltaInitially, CommitInitially
<1>2. GuardsFollow /\ [Next]_vars => GuardsFollow'
  BY Zenon, FollowsAlways DEF LocksFollow
<1>3. LocksExclusive /\ GuardsFollow => LockedApart
  BY Zenon, LockedNotCommitted
<1>4. DeltaInv /\ GuardsFollow /\ LocksExclusive /\ LockedApart' /\ [Next]_vars => DeltaInv'
  BY Zenon, DeltaAlways
<1>5. CommitInStep /\ DeltaInv /\ GuardsFollow /\ [Next]_vars => CommitInStep'
  BY Zenon, CommitAlways
<1>6. CommitInStep /\ GuardsFollow => CommitsSeenWhole
  <2> SUFFICES ASSUME CommitInStep, GuardsFollow PROVE CommitsSeenWhole
    BY Zenon
  <2>1. /\ guards["block"]["height"] = BlockGuard(at["block"][1], at["block"][2], "height")
        /\ guards["block"]["storage"] = BlockGuard(at["block"][1], at["block"][2], "storage")
    BY Zenon, LockNames DEF GuardsFollow
  <2>2. at["block"][1] \in CommitPoints => IsWriterActive("height")
    BY Zenon, <2>1 DEF BlockGuard, CommitPoints, IsWriterActive, Exclusive, Threads
  <2>3. at["block"][1] \notin {"idle", "process", "lockStorage"} => IsWriterActive("storage")
    BY Zenon, <2>1 DEF BlockGuard, IsWriterActive, Exclusive, Threads
  <2>4. CASE at["block"][1] \in Settled
    BY Zenon, <2>4 DEF CommitInStep, CommitsSeenWhole
  <2>5. CASE at["block"][1] = "committed"
    BY Zenon, <2>3, <2>5 DEF CommitInStep, CommitsSeenWhole
  <2>6. CASE at["block"][1] \in CommitPoints
    BY Zenon, <2>2, <2>3, <2>6 DEF CommitPoints, CommitsSeenWhole
  <2> QED
    BY Zenon, <2>4, <2>5, <2>6 DEF CommitInStep
<1> QED
  BY <1>1, <1>2, <1>3, <1>4, <1>5, <1>6, ThreadsExclude, PTL DEF Spec
=============================================================================
