------------------------- MODULE BlockCommitProofs -------------------------
(***************************************************************************)
(* Recovery: whatever the number of crashes in the windows SafeWindows,    *)
(* the node runs again, on the chain that was committed last, and the      *)
(* broker is told of every commit once and in order.                       *)
(***************************************************************************)
EXTENDS BlockCommit, SequenceTheorems, TLAPS

\* The blocks that the commits produce.
Blk == 0 .. MaxCommits

\* The chain that was committed last, and the one before.
Committed == log[Len(log)]
Previous == log[Len(log) - 1]

\* The length of the state_change queue once the messages of all the commits are released: two for each.
Released == 2 * (Len(log) - 1)

\* The points of the program before State_Written, while blocks are moved, and of the recovery and saving processes.
Preparing == {"staged", "blocksWritten", "scoreSpooled", "stateSpooled", "savingSummary", "stateSaved"}
Moving == {"notifyDrop", "moving", "notifyBlock"}
Loading == {"catchUp", "applySpooled", "reindex", "moveState"}
Finishing == {"finalize", "recovered"}
Saving == {"saveBegin", "savingState", "saveWritten", "saveMove"}

\* The points at which blocks or the state directory are being moved.
Moves == {"renameState", "moveBlocks"} \union Moving

\* The staged blocks are part of the ledger and still have to be moved.
Pending == commitStep = "State_Written" /\ staged # NoBlocks

\* s is the beginning of t.
IsPrefixOf(s, t) == Len(s) <= Len(t) /\ \A i \in 1 .. Len(s) : s[i] = t[i]

\* How many messages the broker has been given.
Told == IF pc \in {"applySpooled", "reindex"} THEN index ELSE reader

\* Types. A block is a number, so that chains and states are sequences of integers.
TypeInv ==
    /\ config \in Modes
    /\ chain \in Seq(Int) /\ target \in Seq(Int) /\ brokerChain \in Seq(Int)
    /\ stateDir \in Seq(Int) /\ tmpDir \in Seq(Int) /\ memory \in Seq(Int)
    /\ staged = [start |-> staged.start, blocks |-> staged.blocks] /\ staged.start \in Nat
           /\ staged.blocks \in Seq(Blk) /\ staged.blocks \in Seq(Int)
    /\ commitStep \in Steps
    /\ lock \in BOOLEAN /\ saving \in BOOLEAN
    /\ rocks = [r \in RocksCaches |-> rocks[r]]
    /\ commits \in Blk
    /\ log \in Seq(Seq(Int))

\* Which routine runs at which point; a process that runs has left its .lock file.
ControlInv ==
    /\ pc \in PCs \ {"failed"}
    /\ routine \in {"commit", "save", "repair"}
    /\ pc \in Preparing \union {"idle", "stateWritten", "moved", "stateMoved", "publishIndex"} => routine = "commit"
    /\ pc \in Saving => routine = "save"
    /\ pc \in Loading \union Finishing \union {"loadState", "moveStaged", "reapply"} => routine = "repair"
    /\ pc \in Moving \union {"moveBlocks"} => routine \in {"commit", "repair"}
    /\ pc # "off" => lock

\* What commit_step.dat says at the points of the program.
StepInv ==
    /\ pc \in {"idle", "staged", "publishIndex", "recovered"} => commitStep = "All_Updated"
    /\ pc = "off" /\ ~lock => commitStep = "All_Updated"
    /\ pc \in Preparing \union {"saveBegin", "savingState"} => commitStep # "State_Written"
    /\ pc \in Moves \union {"stateWritten", "moved", "stateMoved", "saveMove", "moveState", "moveStaged", "reapply"}
        => commitStep = "State_Written"

\* Each commit ends with a block of its own, and the commit that is being prepared is newer than all the others.
LogInv ==
    /\ Len(log) \in Nat /\ Len(log) >= 1 /\ \A i \in 1 .. Len(log) : log[i] \in Seq(Int)
    /\ \A i \in 1 .. Len(log) : Len(log[i]) >= 2
    /\ \A i, j \in 1 .. Len(log) : i < j => Last(log[i]) < Last(log[j])
    /\ Last(Committed) <= commits
    /\ pc \in Preparing => Last(Committed) < commits

\* What is in the staging area, and what the server is about to commit.
StagedInv ==
    /\ staged # NoBlocks => staged.start >= 2 /\ Len(staged.blocks) >= 1 /\ staged.start - 1 <= Len(chain)
    /\ pc \in Preparing =>
        /\ staged # NoBlocks
        /\ Len(staged.blocks) <= MaxHeight
        /\ staged.start - 1 + MaxRollback >= Len(chain)
        /\ ~CacheDatabase => staged.start = Len(chain) + 1
        /\ target = Take(chain, staged.start - 1) \o staged.blocks
        /\ Last(target) = commits
    /\ routine = "commit" /\ pc \in Moves \union {"stateWritten", "moved", "stateMoved", "publishIndex"} => target = Committed
    /\ pc \in {"stateWritten", "moveBlocks"} \union Moving => staged # NoBlocks
    /\ pc \in {"idle", "moved", "stateMoved", "publishIndex", "reapply"} \union Finishing \union Saving => staged = NoBlocks
    /\ pc = "renameState" /\ routine # "repair" => staged = NoBlocks
    /\ pc = "off" /\ ~lock => staged = NoBlocks
    /\ routine = "repair" /\ pc # "off" /\ commitStep # "State_Written" => staged = NoBlocks

\* The block storage has the committed chain, or becomes it by moving the staged blocks.
ChainInv ==
    /\ ~Pending => chain = Committed
    /\ Pending =>
        /\ Len(log) >= 2
        /\ Take(chain, staged.start - 1) \o staged.blocks = Committed
        /\ ~CacheDatabase => IsPrefixOf(chain, Committed)
    /\ pc \in {"moving", "notifyBlock"} => IsPrefixOf(chain, Committed)
    /\ pc = "notifyDrop" => Len(chain) = staged.start - 1 /\ (routine = "commit" => CacheDatabase)
    /\ pc = "notifyBlock" => Len(chain) >= staged.start
    /\ pc = "stateWritten" \/ (pc = "moveBlocks" /\ routine = "commit") =>
        chain = Previous /\ (~CacheDatabase => staged.start = Len(chain) + 1)

\* The broker knows the blocks of the storage but for those that are just being moved.
BrokerChainInv ==
    /\ ~Pending \/ pc = "moving" => brokerChain = chain
    /\ Pending /\ pc # "notifyDrop" => IsPrefixOf(brokerChain, chain) /\ Len(brokerChain) >= staged.start - 1
    /\ pc = "notifyDrop" => IsPrefixOf(chain, brokerChain)
    /\ pc = "notifyBlock" => Len(brokerChain) = Len(chain) - 1

\* The state_change queue: a score and a state message for each commit, which the broker has read up to Told.
SpoolInv ==
    /\ reader \in Nat /\ index \in Nat /\ reader <= index /\ index <= Released /\ Released <= Len(spool)
           /\ Released - 2 <= index
    /\ spool = [i \in 1 .. Len(spool) |-> spool[i]]
    /\ pc # "applySpooled" => index % 2 = 0
    /\ index < Released =>
        /\ pc # "publishIndex" => commitStep = "State_Written"
        /\ spool[Released].from = Previous
    /\ Len(spool) > Released =>
        /\ commitStep # "State_Written"
        /\ pc \in Preparing \/ (pc = "off" /\ lock)
    /\ pc \in {"staged", "blocksWritten"} => Len(spool) = Released
    /\ pc = "scoreSpooled" => Len(spool) = Released + 1
    /\ pc \in {"stateSpooled", "savingSummary", "stateSaved"} =>
        Len(spool) = Released + 2 /\ spool[Released + 2].from = chain /\ spool[Released + 2].to = target
    /\ pc \in {"idle", "reindex", "moveState", "moveStaged", "reapply"} \union Finishing \union Saving => index = Released
    /\ pc \in Moves /\ routine # "commit" => index = Released
    /\ pc = "off" /\ ~lock => index = Released
    /\ pc = "applySpooled" \/ pc = "reindex" => reader <= index
    /\ \A i \in Told + 1 .. Len(spool) :
        /\ spool[i].kind = (IF i % 2 = 1 THEN "score" ELSE "state")
        /\ i <= Released /\ i % 2 = 0 => spool[i].to = log[(i \div 2) + 1]
    /\ brokerState = log[(Told \div 2) + 1]

\* The caches have the committed state, or (on disk, as long as its messages are in the queue) the previous one.
CacheInv ==
    /\ routine = "commit" /\ pc \notin {"off", "stateWritten"} =>
        memory = Committed /\ \A r \in RocksCaches : rocks[r] = Committed
    /\ CacheDatabase => \A r \in RocksCaches : rocks[r] = Committed \/ (index < Released /\ rocks[r] = Previous)
    /\ ~CacheDatabase /\ routine # "commit" /\ pc \notin {"off", "loadState"} => Len(memory) >= 2 /\ IsPrefixOf(memory,
           Committed)
    /\ CacheDatabase =>
        /\ pc \in Loading /\ commitStep # "State_Written" => memory = Committed
        /\ pc \in Finishing /\ saving => memory = Committed
        /\ routine = "save" /\ pc # "off" => memory = Committed
    /\ ~CacheDatabase /\ routine = "repair" /\ pc # "off" => saving
    /\ pc = "loadState" \/ pc \in Loading => saving

\* A state directory that can be moved to its place: the state of the chain, or with caches in memory of its beginning.
Good(state) == IF CacheDatabase THEN state = Committed ELSE Len(state) >= 2 /\ IsPrefixOf(state, chain)

\* What recovery needs of the directories.
Recoverable ==
    /\ Len(stateDir) >= 2 /\ Len(stateDir) <= Len(chain)
    /\ ~CacheDatabase => IsPrefixOf(stateDir, chain)
    /\ commitStep # "State_Written" /\ CacheDatabase => stateDir = Committed
    /\ commitStep = "State_Written" =>
        IF tmpDir = NoState THEN Good(stateDir) /\ (CacheDatabase => staged = NoBlocks)
        ELSE Good(tmpDir) /\ (CacheDatabase \/ staged = NoBlocks)

\* The state directories, at every point of the program.
DirInv ==
    /\ pc \notin Moves \union {"moveStaged", "moved"} => Recoverable
    /\ pc = "renameState" => Good(tmpDir) /\ (routine = "repair" => CacheDatabase \/ staged = NoBlocks)
    /\ ~CacheDatabase /\ Pending => Len(stateDir) < staged.start
    /\ routine = "commit" /\ pc \in {"stateWritten", "moved", "moveBlocks"} \union Moving =>
        /\ Len(stateDir) >= 2
        /\ IF CacheDatabase THEN tmpDir = Committed /\ stateDir = Previous
           ELSE tmpDir = NoState /\ IsPrefixOf(stateDir, chain)
    /\ routine = "commit" /\ pc = "notifyDrop" => Len(stateDir) > Len(chain)
    /\ pc \in {"moveStaged", "reapply"} \/ (routine = "repair" /\ pc \in {"moveBlocks"} \union Moving) =>
        /\ tmpDir = NoState
        /\ IF CacheDatabase THEN stateDir = Committed ELSE Len(stateDir) >= 2 /\ IsPrefixOf(stateDir, chain)
    /\ pc \in {"idle", "stateMoved", "publishIndex", "saveMove"} => tmpDir = NoState
    /\ pc \in Preparing \ {"savingSummary", "stateSaved"} => tmpDir = NoState
    /\ pc = "stateSaved" => tmpDir = IF CacheDatabase THEN target ELSE NoState
    /\ pc = "off" /\ ~lock => tmpDir = NoState
    /\ pc \in Finishing /\ ~saving => tmpDir = NoState
    /\ pc \in Finishing /\ CacheDatabase => stateDir = Committed
    /\ pc = "savingSummary" => CacheDatabase
    /\ pc = "saveWritten" => Good(tmpDir)

\* The inductive invariant.
IInv == TypeInv /\ ControlInv /\ StepInv /\ LogInv /\ StagedInv /\ ChainInv /\ BrokerChainInv /\ SpoolInv /\ CacheInv /\ DirInv

-----------------------------------------------------------------------------
(* Sequences. *)

\* The first n elements of a sequence.
LEMMA TakeIs ==
    ASSUME NEW s \in Seq(Int), NEW n \in Nat
    PROVE  /\ Take(s, n) \in Seq(Int)
           /\ Len(Take(s, n)) = (IF n < Len(s) THEN n ELSE Len(s))
           /\ \A i \in 1 .. Len(Take(s, n)) : Take(s, n)[i] = s[i]
<1> DEFINE m == IF n < Len(s) THEN n ELSE Len(s)
<1>1. m \in Nat /\ \A i \in 1 .. m : s[i] \in Int
  OBVIOUS
<1>2. QED
  BY <1>1, SubSeqProperties, 1 \in Int DEF Take

\* Equal sequences.
LEMMA SameSequence ==
    ASSUME NEW s \in Seq(Int), NEW t \in Seq(Int), Len(s) = Len(t), \A i \in 1 .. Len(s) : s[i] = t[i]
    PROVE  s = t
BY Zenon, SeqEqual

\* Taking as many elements as there are, or more, changes nothing.
LEMMA TakeAll ==
    ASSUME NEW s \in Seq(Int), NEW n \in Nat, n >= Len(s)
    PROVE  Take(s, n) = s
BY TakeIs, SameSequence

\* A sequence and its continuations begin with the same elements.
LEMMA TakeOfPrefix ==
    ASSUME NEW s \in Seq(Int), NEW t \in Seq(Int), NEW n \in Nat, IsPrefixOf(s, t), n <= Len(s)
    PROVE  Take(t, n) = Take(s, n)
<1>1. /\ Take(s, n) \in Seq(Int) /\ Len(Take(s, n)) = n /\ \A i \in 1 .. n : Take(s, n)[i] = s[i]
  BY TakeIs
<1>2. /\ Take(t, n) \in Seq(Int) /\ Len(Take(t, n)) = n /\ \A i \in 1 .. n : Take(t, n)[i] = t[i]
  BY SMTT(30), TakeIs DEF IsPrefixOf
<1>3. \A i \in 1 .. n : Take(t, n)[i] = Take(s, n)[i]
  <2> SUFFICES ASSUME NEW i \in 1 .. n PROVE Take(t, n)[i] = Take(s, n)[i]
    OBVIOUS
  <2>1. i \in 1 .. Len(s)
    OBVIOUS
  <2>2. s[i] = t[i]
    BY Zenon, <2>1 DEF IsPrefixOf
  <2>3. QED
    BY Zenon, <1>1, <1>2, <2>2
<1>4. QED
  BY Zenon, <1>1, <1>2, <1>3, SameSequence

\* What is taken is a prefix.
LEMMA TakeIsPrefix ==
    ASSUME NEW s \in Seq(Int), NEW n \in Nat
    PROVE  IsPrefixOf(Take(s, n), s)
BY TakeIs DEF IsPrefixOf

\* The elements of a concatenation.
LEMMA ConcatIs ==
    ASSUME NEW s \in Seq(Int), NEW t \in Seq(Int)
    PROVE  /\ s \o t \in Seq(Int)
           /\ Len(s \o t) = Len(s) + Len(t)
           /\ IsPrefixOf(s, s \o t)
           /\ \A i \in 1 .. Len(t) : (s \o t)[Len(s) + i] = t[i]
           /\ Take(s \o t, Len(s)) = s
<1>1. /\ s \o t \in Seq(Int)
      /\ Len(s \o t) = Len(s) + Len(t)
      /\ \A i \in 1 .. Len(s) + Len(t) : (s \o t)[i] = IF i <= Len(s) THEN s[i] ELSE t[i - Len(s)]
  BY Zenon, ConcatProperties
<1>2. IsPrefixOf(s, s \o t)
  BY <1>1 DEF IsPrefixOf
<1>3. \A i \in 1 .. Len(t) : (s \o t)[Len(s) + i] = t[i]
  BY <1>1
<1>4. Take(s \o t, Len(s)) = s
  <2>1. Len(s) \in Nat /\ Len(s) <= Len(s)
    OBVIOUS
  <2>2. Take(s \o t, Len(s)) = Take(s, Len(s))
    BY Zenon, <1>1, <1>2, <2>1, TakeOfPrefix
  <2>3. Take(s, Len(s)) = s
    BY Zenon, <2>1, TakeAll
  <2>4. QED
    BY Zenon, <2>2, <2>3
<1>5. QED
  BY Zenon, <1>1, <1>2, <1>3, <1>4

\* The elements of a sequence with one more.
LEMMA AppendIs ==
    ASSUME NEW s \in Seq(Int), NEW x \in Int
    PROVE  /\ Append(s, x) \in Seq(Int)
           /\ Len(Append(s, x)) = Len(s) + 1
           /\ IsPrefixOf(s, Append(s, x))
           /\ Append(s, x)[Len(s) + 1] = x
BY AppendProperties DEF IsPrefixOf

\* The order of prefixes is transitive.
LEMMA PrefixTransitive ==
    ASSUME NEW s \in Seq(Int), NEW t \in Seq(Int), NEW u \in Seq(Int), IsPrefixOf(s, t), IsPrefixOf(t, u)
    PROVE  IsPrefixOf(s, u)
BY DEF IsPrefixOf

\* A prefix of the same length is the sequence itself.
LEMMA PrefixEqual ==
    ASSUME NEW s \in Seq(Int), NEW t \in Seq(Int), IsPrefixOf(s, t), Len(s) = Len(t)
    PROVE  s = t
BY Zenon, SameSequence DEF IsPrefixOf

\* The shorter one of two prefixes is a prefix of the other.
LEMMA PrefixesOrdered ==
    ASSUME NEW s \in Seq(Int), NEW t \in Seq(Int), NEW u \in Seq(Int), IsPrefixOf(s, u), IsPrefixOf(t, u), Len(s) <= Len(t)
    PROVE  IsPrefixOf(s, t)
BY DEF IsPrefixOf

\* A prefix grows by the next element.
LEMMA AppendNext ==
    ASSUME NEW s \in Seq(Int), NEW t \in Seq(Int), IsPrefixOf(s, t), Len(s) < Len(t)
    PROVE  IsPrefixOf(Append(s, t[Len(s) + 1]), t)
<1>1. t[Len(s) + 1] \in Int
  OBVIOUS
<1>2. QED
  BY <1>1, AppendIs, AppendProperties DEF IsPrefixOf

\* A prefix and the rest make the sequence: what repairStateFromStorage relies on.
LEMMA TakeAndRest ==
    ASSUME NEW s \in Seq(Int), NEW t \in Seq(Int), IsPrefixOf(s, t)
    PROVE  s \o SubSeq(t, Len(s) + 1, Len(t)) = t
<1> DEFINE r == SubSeq(t, Len(s) + 1, Len(t))
<1>1. /\ r \in Seq(Int) /\ Len(r) = Len(t) - Len(s)
      /\ \A i \in 1 .. Len(t) - Len(s) : r[i] = t[Len(s) + i]
  <2>1. \A i \in Len(s) + 1 .. Len(t) : t[i] \in Int
    OBVIOUS
  <2>2. QED
    BY <2>1, SubSeqProperties DEF IsPrefixOf
<1>2. /\ s \o r \in Seq(Int)
      /\ Len(s \o r) = Len(t)
      /\ \A i \in 1 .. Len(t) : (s \o r)[i] = IF i <= Len(s) THEN s[i] ELSE r[i - Len(s)]
  BY <1>1, ConcatProperties DEF IsPrefixOf
<1> HIDE DEF r
<1>3. \A i \in 1 .. Len(t) : (s \o r)[i] = t[i]
  <2> SUFFICES ASSUME NEW i \in 1 .. Len(t) PROVE (s \o r)[i] = t[i]
    BY Zenon
  <2>1. CASE i <= Len(s)
    BY SMTT(30), <1>2, <2>1 DEF IsPrefixOf
  <2>2. CASE i > Len(s)
    <3>1. i - Len(s) \in 1 .. Len(t) - Len(s) /\ Len(s) + (i - Len(s)) = i
      BY <2>2 DEF IsPrefixOf
    <3>2. r[i - Len(s)] = t[Len(s) + (i - Len(s))]
      BY Zenon, <1>1, <3>1
    <3>3. QED
      BY SMTT(30), <1>2, <2>2, <3>1, <3>2
  <2>3. i <= Len(s) \/ i > Len(s)
    OBVIOUS
  <2>4. QED
    BY Zenon, <2>1, <2>2, <2>3
<1>4. QED
  BY Zenon, <1>2, <1>3, SameSequence DEF r

-----------------------------------------------------------------------------
(* Facts about the state. *)

USE DEF IInv, dirVars, spoolVars, cacheVars, brokerVars, boundVars, Preparing, Moving, Loading, Finishing, Saving, Moves
\* The theorems are about crashes in the safe windows; a node without a cache database keeps no state that could be rolled
\* back to, so that its recovery is only claimed for chains that extend the local one.
Survivable == CrashPoints \subseteq SafeWindows /\ MaxMemoryRollback = 0

\* A state with blocks is not the missing directory.
LEMMA NotNoState == NoState \in Seq(Int) /\ \A x : Len(x) # 0 => x # NoState
<1>1. NoState \in Seq(Int)
  BY DEF NoState
<1>2. Len(NoState) = 0
  BY Zenon DEF NoState
<1>3. QED
  BY <1>1, <1>2, Zenon

\* A directory without supplemental data holds no state of two blocks.
LEMMA NotPartial == Partial \in Seq(Int) /\ \A x : Len(x) # 1 => x # Partial
<1>1. Partial \in Seq(Int)
  BY DEF Partial
<1>2. Len(Partial) = 1
  BY ZenonT(60) DEF Partial
<1>3. QED
  BY <1>1, <1>2, Zenon

\* Neither does a purged one.
LEMMA NotEmptied == Emptied \in Seq(Int) /\ \A x : Len(x) # 1 => x # Emptied
<1>1. Emptied \in Seq(Int)
  BY DEF Emptied
<1>2. Len(Emptied) = 1
  BY Zenon DEF Emptied
<1>3. QED
  BY <1>1, <1>2, Zenon

\* The empty staging area.
LEMMA NoBlocksIs == NoBlocks.start = 0 /\ NoBlocks.blocks \in Seq(Int) /\ NoBlocks.blocks \in Seq(Blk)
                    /\ NoBlocks = [start |-> NoBlocks.start, blocks |-> NoBlocks.blocks]
BY DEF NoBlocks

\* A chain of two blocks or more is none of the marks of a directory.
LEMMA LongState == ASSUME NEW s \in Seq(Int), Len(s) >= 2 PROVE s # NoState /\ s # Partial /\ s # Emptied
<1>1. \A n \in Int : n >= 2 => n # 0 /\ n # 1
  OBVIOUS
<1>2. Len(s) \in Int
  OBVIOUS
<1>3. Len(s) # 0 /\ Len(s) # 1
  BY <1>1, <1>2, Zenon
<1>4. QED
  BY <1>3, NotNoState, NotPartial, NotEmptied, Zenon

\* A recoverable state directory is loaded as it is.
LEMMA Loads == IInv /\ Recoverable => LoadedState = stateDir /\ Len(stateDir) >= 2
<1> SUFFICES ASSUME IInv, Recoverable PROVE LoadedState = stateDir /\ Len(stateDir) >= 2
  BY Zenon
<1>1. Len(stateDir) >= 2
  BY Zenon DEF Recoverable
<1>2. HasSerializedState(stateDir)
  BY <1>1, Len(stateDir) # 0, Len(stateDir) # 1, NotNoState, NotPartial, NotEmptied DEF HasSerializedState
<1>3. QED
  BY Zenon, <1>1, <1>2 DEF LoadedState

\* The last block of a chain.
LEMMA LastIs == ASSUME NEW s \in Seq(Int), Len(s) >= 1 PROVE Last(s) \in Int
BY DEF Last

\* Types of the lengths that occur in the invariant.
LEMMA Lengths == IInv => /\ Len(chain) \in Nat /\ Len(stateDir) \in Nat /\ Len(log) \in Nat /\ Released \in Nat
                         /\ Committed \in Seq(Int) /\ Len(Committed) \in Nat /\ Len(Committed) >= 2
                         /\ Len(staged.blocks) \in Nat /\ Len(brokerChain) \in Nat
<1> SUFFICES ASSUME IInv PROVE Released \in Nat /\ Committed \in Seq(Int) /\ Len(Committed) \in Nat /\ Len(Committed) >= 2
  BY SMTT(30) DEF TypeInv
<1>1. Len(log) \in Nat /\ Len(log) \in 1 .. Len(log)
  BY DEF LogInv
<1>2. QED
  BY <1>1 DEF LogInv, Committed, Released

\* A state directory that can be moved has a state.
LEMMA GoodIsLong == IInv => \A s \in Seq(Int) : Good(s) => Len(s) >= 2 /\ s # NoState
<1> SUFFICES ASSUME IInv, NEW s \in Seq(Int), Good(s) PROVE Len(s) >= 2
  BY Zenon, LongState
<1>1. QED
  BY Zenon, Lengths DEF Good

\* A sequence is a prefix of itself.
LEMMA PrefixOfItself == ASSUME NEW s \in Seq(Int) PROVE IsPrefixOf(s, s)
BY DEF IsPrefixOf

\* Two messages for each commit after the first.
LEMMA ReleasedIs == IInv => Released \in Nat /\ Released % 2 = 0 /\ Released \div 2 = Len(log) - 1
<1> SUFFICES ASSUME IInv PROVE Released \in Nat /\ Released % 2 = 0 /\ Released \div 2 = Len(log) - 1
  BY Zenon
<1>1. Len(log) - 1 \in Nat
  BY DEF LogInv
<1>2. \A n \in Nat : 2 * n \in Nat /\ (2 * n) % 2 = 0 /\ (2 * n) \div 2 = n
  OBVIOUS
<1>3. QED
  BY Zenon, <1>1, <1>2 DEF Released

\* Score messages have odd numbers, state messages even ones.
LEMMA Parity == \A n \in Nat : /\ n % 2 = 0 \/ n % 2 = 1
                               /\ (n + 1) % 2 = 1 => (n + 1) \div 2 = n \div 2
                               /\ (n + 1) % 2 = 0 <=> n % 2 = 1
OBVIOUS

\* Delivering the next message brings the broker to the state that belongs to it.
LEMMA Delivered == ASSUME IInv, Told < Released, Deliver(spool[Told + 1])
                   PROVE  brokerState' = log[((Told + 1) \div 2) + 1] /\ spool[Told + 1].kind # "consumed"
<1>1. Told \in Nat /\ Told + 1 <= Released
  BY ReleasedIs DEF SpoolInv, Told
<1>2. Told + 1 \in Told + 1 .. Len(spool)
  BY SMTT(30), <1>1, ReleasedIs DEF SpoolInv
<1>3. spool[Told + 1].kind = (IF (Told + 1) % 2 = 1 THEN "score" ELSE "state")
  BY Zenon, <1>2 DEF SpoolInv
<1>4. (Told + 1) % 2 = 0 => spool[Told + 1].to = log[((Told + 1) \div 2) + 1]
  BY Zenon, <1>1, <1>2 DEF SpoolInv
<1>5. brokerState = log[(Told \div 2) + 1]
  BY Zenon DEF SpoolInv
<1>6. CASE (Told + 1) % 2 = 1
  <2>1. (Told + 1) \div 2 = Told \div 2
    BY Zenon, <1>1, <1>6, Parity
  <2>2. spool[Told + 1].kind = "score"
    BY Zenon, <1>3, <1>6
  <2>3. QED
    BY Zenon, <2>1, <2>2, <1>5 DEF Deliver
<1>7. CASE (Told + 1) % 2 = 0
  <2>1. spool[Told + 1].kind = "state"
    BY <1>3, <1>7
  <2>2. QED
    BY Zenon, <2>1, <1>4, <1>7 DEF Deliver
<1>8. QED
  BY <1>1, <1>6, <1>7, Parity

\* Reading the next message leaves the other ones.
LEMMA OthersStay ==
    ASSUME IInv, NEW k \in Nat, spool' = [spool EXCEPT ![k + 1] = Consumed]
    PROVE  /\ Len(spool') = Len(spool)
           /\ spool' = [i \in 1 .. Len(spool') |-> spool'[i]]
           /\ \A i \in 1 .. Len(spool) : i # k + 1 => spool'[i] = spool[i]
<1>1. spool = [i \in 1 .. Len(spool) |-> spool[i]] /\ Len(spool) \in Nat
  BY DEF SpoolInv
<1>2. DOMAIN spool' = 1 .. Len(spool) /\ \A i \in 1 .. Len(spool) : i # k + 1 => spool'[i] = spool[i]
  BY Zenon, <1>1
<1>3. spool' = [i \in 1 .. Len(spool) |-> spool'[i]]
  BY Zenon, <1>1
<1>4. Len(spool') = Len(spool)
  BY <1>1, <1>3
<1>5. QED
  BY Zenon, <1>2, <1>3, <1>4

-----------------------------------------------------------------------------
(* Every step keeps the invariant. *)

\* The invariant is kept by Boot.
LEMMA BootKeeps == IInv /\ Boot => IInv'
<1> SUFFICES ASSUME IInv, Boot PROVE IInv'
  BY Zenon
<1>1. Recoverable /\ LoadedState = stateDir /\ Len(stateDir) >= 2
  BY Zenon, Loads DEF Boot, DirInv
<1>2. /\ chain' = chain /\ log' = log /\ stateDir' = stateDir /\ commitStep = "All_Updated" /\ chain = Committed
             /\ index = Released
  BY Zenon DEF Boot, StepInv, ChainInv, Pending, SpoolInv
<1>3. Len(stateDir) = Len(chain) => stateDir = Committed
  <2>1. CASE CacheDatabase
    BY Zenon, <2>1, <1>1, <1>2 DEF Recoverable
  <2>2. CASE ~CacheDatabase
    BY Zenon, <2>2, <1>1, <1>2, PrefixEqual DEF Recoverable, TypeInv
  <2>3. QED
    BY Zenon, <2>1, <2>2
<1>4. TypeInv'
  BY Zenon, <1>1, NotNoState, NotPartial, NotEmptied, NoBlocksIs DEF Boot, Goto, LoadCaches, DropMemory, TypeInv, CacheDatabase
<1>5. ControlInv'
  BY Zenon DEF Boot, Goto, LoadCaches, DropMemory, LoadedState, HasSerializedState, NoState, Partial, Emptied, CacheDatabase,
     PCs, TypeInv, ControlInv, StepInv
<1>6. StepInv'
  BY Zenon DEF Boot, Goto, LoadCaches, DropMemory, LoadedState, HasSerializedState, NoState, Partial, Emptied, CacheDatabase,
     Steps, TypeInv, ControlInv, StepInv
<1>7. LogInv'
  BY Zenon DEF Boot, Goto, LoadCaches, DropMemory, LoadedState, HasSerializedState, NoState, Partial, Emptied, CacheDatabase,
     Committed, TypeInv, ControlInv, StepInv, LogInv
<1>8. StagedInv'
  BY Zenon DEF Boot, Goto, LoadCaches, DropMemory, LoadedState, HasSerializedState, NoState, Partial, Emptied, CacheDatabase,
     Pending, Committed, NoBlocks, TypeInv, ControlInv, StepInv, StagedInv
<1>9. ChainInv'
  BY Zenon DEF Boot, Goto, LoadCaches, DropMemory, LoadedState, HasSerializedState, NoState, Partial, Emptied, CacheDatabase,
     Pending, Committed, Previous, NoBlocks, TypeInv, ControlInv, StepInv, ChainInv
<1>10. BrokerChainInv'
  BY Zenon DEF Boot, Goto, LoadCaches, DropMemory, LoadedState, HasSerializedState, NoState, Partial, Emptied, CacheDatabase,
     Pending, NoBlocks, TypeInv, ControlInv, StepInv, BrokerChainInv
<1>11. SpoolInv'
  BY Zenon DEF Boot, Goto, LoadCaches, DropMemory, LoadedState, HasSerializedState, NoState, Partial, Emptied, CacheDatabase,
     Told, Released, Previous, TypeInv, ControlInv, StepInv, SpoolInv
<1>12. CacheInv'
  <2>1. CASE Len(stateDir) = Len(chain)
    BY <2>1, <1>1, <1>2, <1>3 DEF Boot, Goto, LoadCaches, CacheInv, Released, Committed, Previous, CacheDatabase
  <2>2. CASE Len(stateDir) # Len(chain)
    BY ZenonT(60), <2>2, <1>1, <1>2 DEF Boot, Goto, DropMemory, CacheInv, Released, Committed, Previous, CacheDatabase
  <2>3. QED
    BY Zenon, <2>1, <2>2
<1>13. DirInv'
  BY Zenon DEF Boot, Goto, LoadCaches, DropMemory, LoadedState, HasSerializedState, NoState, Partial, Emptied, CacheDatabase,
     Recoverable, Good, Pending, Committed, Previous, NoBlocks, TypeInv, ControlInv, StepInv, DirInv
<1>14. QED
  BY ZenonT(60), <1>4, <1>5, <1>6, <1>7, <1>8, <1>9, <1>10, <1>11, <1>12, <1>13 DEF IInv

\* Staging a chain keeps the invariant; without a cache database the chain may not replace blocks.
LEMMA StageBlocksKeeps ==
    ASSUME IInv, Survivable, NEW common \in 1 .. Len(chain), NEW n \in 1 .. MaxHeight, StageBlocks(common, n)
    PROVE  IInv'
<1>1. pc = "idle" /\ staged = NoBlocks /\ commitStep = "All_Updated" /\ routine = "commit" /\ lock
  BY Zenon DEF StageBlocks, StagedInv, StepInv, ControlInv
<1>2. /\ commits < MaxCommits /\ common + n <= MaxHeight /\ common + (IF CacheDatabase THEN MaxRollback ELSE 0) >= Len(chain)
      /\ staged' = [start |-> common + 1, blocks |-> [i \in 1 .. n |-> commits + 1]]
      /\ target' = Take(chain, common) \o [i \in 1 .. n |-> commits + 1]
      /\ commits' = commits + 1 /\ pc' = "staged"
  BY Zenon DEF StageBlocks, Goto, Survivable
<1>3. UNCHANGED <<chain, commitStep, stateDir, tmpDir, spool, index, reader, lock, rocks, memory, brokerChain,
          brokerState, routine, saving, log, config, crashes>>
  BY Zenon DEF StageBlocks
<1>4. /\ common \in Nat /\ common >= 1 /\ common <= Len(chain) /\ n \in Nat /\ n >= 1 /\ commits \in Nat
             /\ commits + 1 \in Blk /\ Len(chain) \in Nat
      /\ MaxHeight \in Nat /\ MaxRollback \in Nat
  <2>1. MaxHeight \in Nat /\ MaxRollback \in Nat /\ MaxCommits \in Nat
    BY Zenon, BoundAssumption
  <2>2. Len(chain) \in Nat
    BY Zenon, Lengths
  <2>3. commits \in 0 .. MaxCommits
    BY Zenon DEF TypeInv, Blk
  <2>4. commits \in Nat /\ commits + 1 \in 0 .. MaxCommits
    BY <2>1, <2>3, <1>2
  <2>5. common \in Nat /\ common >= 1 /\ common <= Len(chain)
    BY <2>2
  <2>6. n \in Nat /\ n >= 1
    BY <2>1
  <2>7. QED
    BY Zenon, <2>1, <2>2, <2>4, <2>5, <2>6 DEF Blk
<1>5. /\ staged'.start = common + 1 /\ staged'.blocks = [i \in 1 .. n |-> commits + 1]
             /\ staged' = [start |-> staged'.start, blocks |-> staged'.blocks]
  BY Zenon, <1>2
<1>6. staged'.blocks \in Seq(Int) /\ staged'.blocks \in Seq(Blk) /\ Len(staged'.blocks) = n
          /\ Last(staged'.blocks) = commits + 1
  <2>1. DEFINE b == [i \in 1 .. n |-> commits + 1]
  <2>2. commits + 1 \in Int
    BY <1>4
  <2>3. b \in [1 .. n -> Int] /\ b \in [1 .. n -> Blk]
    BY Zenon, <2>2, <1>4
  <2>4. b \in Seq(Int) /\ Len(b) = n
    BY <2>3, <1>4
  <2>5. b \in Seq(Blk)
    BY <2>3, <1>4
  <2>6. b[n] = commits + 1
    BY <1>4
  <2>7. QED
    BY Zenon, <2>4, <2>5, <2>6, <1>5 DEF Last
<1>7. staged' # NoBlocks
  <2>1. staged'.start # 0
    BY <1>4, <1>5
  <2>2. QED
    BY Zenon, <2>1, NoBlocksIs
<1>8. Committed' = Committed /\ CacheDatabase' = CacheDatabase /\ Previous' = Previous /\ Released' = Released
          /\ Told' = Told /\ ~Pending' /\ ~Pending
  BY Zenon, <1>1, <1>2, <1>3 DEF Committed, CacheDatabase, Previous, Released, Told, Pending
<1>9. TypeInv'
  <2>1. chain \in Seq(Int)
    BY Zenon DEF TypeInv
  <2>2. target' \in Seq(Int)
    BY Zenon, <2>1, <1>2, <1>4, <1>5, <1>6, TakeIs, ConcatIs
  <2>3. staged'.start \in Nat
    BY <1>4, <1>5
  <2>4. QED
    BY Zenon, <2>2, <2>3, <1>2, <1>3, <1>4, <1>5, <1>6 DEF TypeInv
<1>10. ControlInv'
  BY Zenon, <1>1, <1>2, <1>3 DEF ControlInv, PCs
<1>11. StepInv'
  BY Zenon, <1>1, <1>2, <1>3 DEF StepInv
<1>12. LogInv'
  <2>1. Last(Committed) \in Int /\ Last(Committed) <= commits
    BY Lengths, LastIs DEF LogInv
  <2>2. Last(Committed) < commits' /\ Last(Committed) <= commits'
    BY SMTT(30), <2>1, <1>2, <1>4
  <2>3. QED
    BY Zenon, <2>2, <1>2, <1>3, <1>8 DEF LogInv
<1>13. StagedInv'
  <2>1. staged'.start >= 2 /\ Len(staged'.blocks) >= 1 /\ staged'.start - 1 <= Len(chain) /\ staged'.start - 1 = common
    BY SMTT(30), <1>4, <1>5, <1>6
  <2>2. Len(staged'.blocks) <= MaxHeight
    BY <1>2, <1>4, <1>6
  <2>3. staged'.start - 1 + MaxRollback >= Len(chain)
    BY <2>1, <1>2, <1>4
  <2>4. ~CacheDatabase => staged'.start = Len(chain) + 1
    BY <1>2, <1>4, <1>5
  <2>5. target' = Take(chain, staged'.start - 1) \o staged'.blocks
    BY Zenon, <2>1, <1>2, <1>5
  <2>6. Last(target') = commits'
    <3>1. chain \in Seq(Int)
      BY DEF TypeInv
    <3>2. DEFINE base == Take(chain, common)
    <3>3. base \in Seq(Int)
      BY Zenon, <3>1, <1>4, TakeIs
    <3> HIDE DEF base
    <3>4. Len(base \o staged'.blocks) = Len(base) + n
              /\ \A i \in 1 .. n : (base \o staged'.blocks)[Len(base) + i] = staged'.blocks[i]
      BY Zenon, <3>3, <1>6, ConcatIs
    <3>5. n \in 1 .. n /\ staged'.blocks[n] = commits + 1
      BY <1>4, <1>6 DEF Last
    <3>6. target' = base \o staged'.blocks
      BY Zenon, <2>5, <2>1 DEF base
    <3>7. QED
      BY <3>4, <3>5, <3>6, <1>2 DEF Last
  <2>7. QED
    BY Zenon, <2>1, <2>2, <2>3, <2>4, <2>5, <2>6, <1>1, <1>2, <1>3, <1>7, <1>8 DEF StagedInv
<1>14. ChainInv'
  BY Zenon, <1>2, <1>3, <1>8 DEF ChainInv
<1>15. BrokerChainInv'
  BY Zenon, <1>2, <1>3, <1>8 DEF BrokerChainInv
<1>16. SpoolInv'
  <2>1. Len(spool) = Released
    BY <1>1, ReleasedIs DEF SpoolInv
  <2>2. QED
    BY Zenon, <2>1, <1>1, <1>2, <1>3, <1>8 DEF SpoolInv
<1>17. CacheInv'
  BY Zenon, <1>1, <1>2, <1>3, <1>8 DEF CacheInv
<1>18. DirInv'
  <2>1. Recoverable /\ tmpDir = NoState
    BY Zenon, <1>1 DEF DirInv
  <2>2. Recoverable'
    BY Zenon, <2>1, <1>1, <1>3, <1>8 DEF Recoverable
  <2>3. QED
    BY Zenon, <2>1, <2>2, <1>1, <1>2, <1>3, <1>8 DEF DirInv
<1>19. QED
  BY ZenonT(60), <1>9, <1>10, <1>11, <1>12, <1>13, <1>14, <1>15, <1>16, <1>17, <1>18 DEF IInv

\* The invariant is kept by CommitBlocksWritten.
LEMMA CommitBlocksWrittenKeeps == IInv /\ CommitBlocksWritten => IInv'
<1> SUFFICES ASSUME IInv, CommitBlocksWritten PROVE IInv'
  BY Zenon
<1>1. TypeInv'
  BY Zenon DEF CommitBlocksWritten, WriteCommitStep, Goto, NoState, Partial, Emptied, NoBlocks, Steps, Blk, TypeInv,
     ControlInv, StepInv
<1>2. ControlInv'
  BY Zenon DEF CommitBlocksWritten, WriteCommitStep, Goto, PCs, TypeInv, ControlInv, StepInv
<1>3. StepInv'
  BY Zenon DEF CommitBlocksWritten, WriteCommitStep, Goto, Steps, TypeInv, ControlInv, StepInv
<1>4. LogInv'
  BY Zenon DEF CommitBlocksWritten, WriteCommitStep, Goto, Committed, TypeInv, ControlInv, StepInv, LogInv
<1>5. StagedInv'
  BY Zenon DEF CommitBlocksWritten, WriteCommitStep, Goto, Pending, Committed, NoBlocks, CacheDatabase, TypeInv, ControlInv,
     StepInv, StagedInv
<1>6. ChainInv'
  BY Zenon DEF CommitBlocksWritten, WriteCommitStep, Goto, Pending, Committed, Previous, NoBlocks, CacheDatabase, TypeInv,
     ControlInv, StepInv, ChainInv
<1>7. BrokerChainInv'
  BY Zenon DEF CommitBlocksWritten, WriteCommitStep, Goto, Pending, NoBlocks, TypeInv, ControlInv, StepInv, BrokerChainInv
<1>8. SpoolInv'
  BY Zenon DEF CommitBlocksWritten, WriteCommitStep, Goto, Told, Released, Previous, TypeInv, ControlInv, StepInv, SpoolInv
<1>9. CacheInv'
  BY Zenon DEF CommitBlocksWritten, WriteCommitStep, Goto, Released, Committed, Previous, CacheDatabase, TypeInv, ControlInv,
     StepInv, CacheInv
<1>10. DirInv'
  BY ZenonT(60) DEF CommitBlocksWritten, WriteCommitStep, Goto, Recoverable, Good, Pending, Committed, Previous, NoState, NoBlocks,
     CacheDatabase, TypeInv, ControlInv, StepInv, DirInv
<1>11. QED
  BY Zenon, <1>1, <1>2, <1>3, <1>4, <1>5, <1>6, <1>7, <1>8, <1>9, <1>10 DEF IInv

\* The invariant is kept by NotifyScoreChange.
LEMMA NotifyScoreChangeKeeps == IInv /\ NotifyScoreChange => IInv'
<1> SUFFICES ASSUME IInv, NotifyScoreChange PROVE IInv'
  OBVIOUS
<1>1. Len(spool) \in Nat /\ Len(spool') = Len(spool) + 1 /\ (\A i \in 1 .. Len(spool) : spool'[i] = spool[i])
      /\ spool'[Len(spool) + 1] = [kind |-> "score", from |-> chain, to |-> target]
      /\ spool' = [i \in 1 .. Len(spool') |-> spool'[i]]
  BY DEF NotifyScoreChange, SpoolMessage, SpoolInv
<1>2. TypeInv'
  BY Zenon DEF NotifyScoreChange, SpoolMessage, Goto, NoState, Partial, Emptied, NoBlocks, Steps, Blk, TypeInv, ControlInv, StepInv
<1>3. ControlInv'
  BY Zenon DEF NotifyScoreChange, SpoolMessage, Goto, PCs, TypeInv, ControlInv, StepInv
<1>4. StepInv'
  BY Zenon DEF NotifyScoreChange, SpoolMessage, Goto, Steps, TypeInv, ControlInv, StepInv
<1>5. LogInv'
  BY Zenon DEF NotifyScoreChange, SpoolMessage, Goto, Committed, TypeInv, ControlInv, StepInv, LogInv
<1>6. StagedInv'
  BY Zenon DEF NotifyScoreChange, SpoolMessage, Goto, Pending, Committed, NoBlocks, CacheDatabase, TypeInv, ControlInv,
     StepInv, StagedInv
<1>7. ChainInv'
  BY Zenon DEF NotifyScoreChange, SpoolMessage, Goto, Pending, Committed, Previous, NoBlocks, CacheDatabase, TypeInv,
     ControlInv, StepInv, ChainInv
<1>8. BrokerChainInv'
  BY Zenon DEF NotifyScoreChange, SpoolMessage, Goto, Pending, NoBlocks, TypeInv, ControlInv, StepInv, BrokerChainInv
<1>9. SpoolInv'
  <2>1. pc = "blocksWritten" /\ pc' = "scoreSpooled" /\ Len(spool) = Released /\ commitStep' = commitStep
            /\ commitStep # "State_Written"
        /\ UNCHANGED <<index, reader, log, brokerState>>
    BY Zenon DEF NotifyScoreChange, SpoolMessage, Goto, SpoolInv, StepInv
  <2>2. index = Released /\ index % 2 = 0 /\ Released \in Nat
    BY <2>1, Lengths DEF SpoolInv
  <2>3. Told' = Told /\ Told = reader /\ Released' = Released /\ Previous' = Previous
    BY Zenon, <2>1 DEF Told, Released, Previous
  <2>4. ASSUME NEW i \in Told + 1 .. Len(spool') PROVE spool'[i].kind = IF i % 2 = 1 THEN "score" ELSE "state"
    <3>1. CASE i \in Told + 1 .. Len(spool)
      BY <2>1, <2>2, <2>3, <3>1, <1>1 DEF SpoolInv
    <3>2. CASE i = Len(spool) + 1
      BY <2>1, <2>2, <3>2, <1>1
    <3>3. QED
      BY <3>1, <3>2, <2>3, <1>1 DEF SpoolInv
  <2>5. ASSUME NEW i \in Told + 1 .. Len(spool'), i <= Released, i % 2 = 0 PROVE spool'[i].to = log[(i \div 2) + 1]
    BY <2>1, <2>2, <2>3, <2>5, <1>1 DEF SpoolInv
  <2>6. QED
    BY <2>1, <2>2, <2>3, <2>4, <2>5, <1>1 DEF SpoolInv
<1>10. CacheInv'
  BY Zenon DEF NotifyScoreChange, SpoolMessage, Goto, Released, Committed, Previous, CacheDatabase, TypeInv, ControlInv,
     StepInv, CacheInv
<1>11. DirInv'
  BY DEF NotifyScoreChange, SpoolMessage, Goto, Recoverable, Good, Pending, Committed, Previous, NoState, NoBlocks,
     CacheDatabase, TypeInv, ControlInv, StepInv, DirInv
<1>12. QED
  BY <1>2, <1>3, <1>4, <1>5, <1>6, <1>7, <1>8, <1>9, <1>10, <1>11 DEF IInv

\* The invariant is kept by NotifyStateChange.
LEMMA NotifyStateChangeKeeps == IInv /\ NotifyStateChange => IInv'
<1> SUFFICES ASSUME IInv, NotifyStateChange PROVE IInv'
  BY Zenon
<1>1. Len(spool) \in Nat /\ Len(spool') = Len(spool) + 1 /\ (\A i \in 1 .. Len(spool) : spool'[i] = spool[i])
      /\ spool'[Len(spool) + 1] = [kind |-> "state", from |-> chain, to |-> target]
      /\ spool' = [i \in 1 .. Len(spool') |-> spool'[i]]
  BY DEF NotifyStateChange, SpoolMessage, SpoolInv
<1>2. TypeInv'
  BY Zenon DEF NotifyStateChange, SpoolMessage, Goto, NoState, Partial, Emptied, NoBlocks, Steps, Blk, TypeInv, ControlInv, StepInv
<1>3. ControlInv'
  BY Zenon DEF NotifyStateChange, SpoolMessage, Goto, PCs, TypeInv, ControlInv, StepInv
<1>4. StepInv'
  BY Zenon DEF NotifyStateChange, SpoolMessage, Goto, Steps, TypeInv, ControlInv, StepInv
<1>5. LogInv'
  BY Zenon DEF NotifyStateChange, SpoolMessage, Goto, Committed, TypeInv, ControlInv, StepInv, LogInv
<1>6. StagedInv'
  BY Zenon DEF NotifyStateChange, SpoolMessage, Goto, Pending, Committed, NoBlocks, CacheDatabase, TypeInv, ControlInv,
     StepInv, StagedInv
<1>7. ChainInv'
  BY Zenon DEF NotifyStateChange, SpoolMessage, Goto, Pending, Committed, Previous, NoBlocks, CacheDatabase, TypeInv,
     ControlInv, StepInv, ChainInv
<1>8. BrokerChainInv'
  BY Zenon DEF NotifyStateChange, SpoolMessage, Goto, Pending, NoBlocks, TypeInv, ControlInv, StepInv, BrokerChainInv
<1>9. SpoolInv'
  <2>1. pc = "scoreSpooled" /\ pc' = "stateSpooled" /\ Len(spool) = Released + 1 /\ commitStep' = commitStep
            /\ commitStep # "State_Written"
        /\ UNCHANGED <<index, reader, log, brokerState, chain, target>>
    BY Zenon DEF NotifyStateChange, SpoolMessage, Goto, SpoolInv, StepInv
  <2>2. index = Released /\ index % 2 = 0 /\ Released \in Nat
    BY <2>1, Lengths DEF SpoolInv
  <2>3. Told' = Told /\ Told = reader /\ Released' = Released /\ Previous' = Previous
    BY Zenon, <2>1 DEF Told, Released, Previous
  <2>4. ASSUME NEW i \in Told + 1 .. Len(spool') PROVE spool'[i].kind = IF i % 2 = 1 THEN "score" ELSE "state"
    <3>1. CASE i \in Told + 1 .. Len(spool)
      BY SMTT(30), <2>1, <2>2, <2>3, <3>1, <1>1 DEF SpoolInv
    <3>2. CASE i = Len(spool) + 1
      BY <2>1, <2>2, <3>2, <1>1
    <3>3. QED
      BY <3>1, <3>2, <2>3, <1>1 DEF SpoolInv
  <2>5. ASSUME NEW i \in Told + 1 .. Len(spool'), i <= Released, i % 2 = 0 PROVE spool'[i].to = log[(i \div 2) + 1]
    BY SMTT(30), <2>1, <2>2, <2>3, <2>5, <1>1 DEF SpoolInv
  <2>6. QED
    BY SMTT(30), <2>1, <2>2, <2>3, <2>4, <2>5, <1>1 DEF SpoolInv
<1>10. CacheInv'
  BY DEF NotifyStateChange, SpoolMessage, Goto, Released, Committed, Previous, CacheDatabase, TypeInv, ControlInv,
     StepInv, CacheInv
<1>11. DirInv'
  BY Zenon DEF NotifyStateChange, SpoolMessage, Goto, Recoverable, Good, Pending, Committed, Previous, NoState, NoBlocks,
     CacheDatabase, TypeInv, ControlInv, StepInv, DirInv
<1>12. QED
  BY ZenonT(60), <1>2, <1>3, <1>4, <1>5, <1>6, <1>7, <1>8, <1>9, <1>10, <1>11 DEF IInv

\* The invariant is kept by PreStateWritten.
LEMMA PreStateWrittenKeeps == IInv /\ PreStateWritten => IInv'
<1> SUFFICES ASSUME IInv, PreStateWritten PROVE IInv'
  OBVIOUS
<1>1. TypeInv'
  BY Zenon, NotNoState, NotPartial, NotEmptied, NoBlocksIs DEF PreStateWritten, Goto, TypeInv
<1>2. ControlInv'
  BY ZenonT(60) DEF PreStateWritten, Goto, PCs, TypeInv, ControlInv, StepInv
<1>3. StepInv'
  BY Zenon DEF PreStateWritten, Goto, Steps, TypeInv, ControlInv, StepInv
<1>4. LogInv'
  BY Zenon DEF PreStateWritten, Goto, Committed, TypeInv, ControlInv, StepInv, LogInv
<1>5. StagedInv'
  BY Zenon DEF PreStateWritten, Goto, Pending, Committed, NoBlocks, CacheDatabase, TypeInv, ControlInv, StepInv, StagedInv
<1>6. ChainInv'
  BY Zenon DEF PreStateWritten, Goto, Pending, Committed, Previous, NoBlocks, CacheDatabase, TypeInv, ControlInv, StepInv, ChainInv
<1>7. BrokerChainInv'
  BY Zenon DEF PreStateWritten, Goto, Pending, NoBlocks, TypeInv, ControlInv, StepInv, BrokerChainInv
<1>8. SpoolInv'
  BY Zenon DEF PreStateWritten, Goto, Told, Released, Previous, TypeInv, ControlInv, StepInv, SpoolInv
<1>9. CacheInv'
  BY Zenon DEF PreStateWritten, Goto, Released, Committed, Previous, CacheDatabase, TypeInv, ControlInv, StepInv, CacheInv
<1>10. DirInv'
  BY Zenon DEF PreStateWritten, Goto, Recoverable, Good, Pending, Committed, Previous, NoState, NoBlocks, CacheDatabase,
     TypeInv, ControlInv, StepInv, DirInv
<1>11. QED
  BY <1>1, <1>2, <1>3, <1>4, <1>5, <1>6, <1>7, <1>8, <1>9, <1>10 DEF IInv

\* The invariant is kept by SaveSummary.
LEMMA SaveSummaryKeeps == IInv /\ SaveSummary => IInv'
<1> SUFFICES ASSUME IInv, SaveSummary PROVE IInv'
  BY Zenon
<1>1. TypeInv'
  BY Zenon DEF SaveSummary, Goto, NoState, Partial, Emptied, NoBlocks, Steps, Blk, TypeInv, ControlInv, StepInv
<1>2. ControlInv'
  BY Zenon DEF SaveSummary, Goto, PCs, TypeInv, ControlInv, StepInv
<1>3. StepInv'
  BY Zenon DEF SaveSummary, Goto, Steps, TypeInv, ControlInv, StepInv
<1>4. LogInv'
  BY Zenon DEF SaveSummary, Goto, Committed, TypeInv, ControlInv, StepInv, LogInv
<1>5. StagedInv'
  BY Zenon DEF SaveSummary, Goto, Pending, Committed, NoBlocks, CacheDatabase, TypeInv, ControlInv, StepInv, StagedInv
<1>6. ChainInv'
  BY Zenon DEF SaveSummary, Goto, Pending, Committed, Previous, NoBlocks, CacheDatabase, TypeInv, ControlInv, StepInv, ChainInv
<1>7. BrokerChainInv'
  BY Zenon DEF SaveSummary, Goto, Pending, NoBlocks, TypeInv, ControlInv, StepInv, BrokerChainInv
<1>8. SpoolInv'
  BY Zenon DEF SaveSummary, Goto, Told, Released, Previous, TypeInv, ControlInv, StepInv, SpoolInv
<1>9. CacheInv'
  BY Zenon DEF SaveSummary, Goto, Released, Committed, Previous, CacheDatabase, TypeInv, ControlInv, StepInv, CacheInv
<1>10. DirInv'
  BY ZenonT(60) DEF SaveSummary, Goto, Recoverable, Good, Pending, Committed, Previous, NoState, NoBlocks, CacheDatabase, TypeInv,
     ControlInv, StepInv, DirInv
<1>11. QED
  BY ZenonT(60), <1>1, <1>2, <1>3, <1>4, <1>5, <1>6, <1>7, <1>8, <1>9, <1>10 DEF IInv

\* The invariant is kept by CommitStateWritten.
LEMMA CommitStateWrittenKeeps == IInv /\ CommitStateWritten => IInv'
<1> SUFFICES ASSUME IInv, CommitStateWritten PROVE IInv'
  OBVIOUS
<1>1. /\ pc = "stateSaved" /\ pc' = "stateWritten" /\ commitStep' = "State_Written" /\ log' = Append(log, target)
      /\ UNCHANGED <<chain, staged, stateDir, tmpDir, spool, index, reader, lock, rocks, memory, brokerChain, brokerState,
                     routine, target, saving, config, commits, crashes>>
  BY Zenon DEF CommitStateWritten, WriteCommitStep, Goto
<1>2. commitStep # "State_Written" /\ routine = "commit" /\ lock
  BY Zenon, <1>1 DEF StepInv, ControlInv
<1>3. staged.start - 1 \in Nat /\ staged.start - 1 >= 1 /\ staged.start - 1 <= Len(chain) /\ Len(staged.blocks) >= 1
          /\ staged # NoBlocks
  <2>1. staged.start \in Nat
    BY DEF TypeInv
  <2>2. QED
    BY <2>1, <1>1 DEF StagedInv
<1>4. target = Take(chain, staged.start - 1) \o staged.blocks /\ Last(target) = commits
  BY Zenon, <1>1 DEF StagedInv
<1>5. chain = Committed
  BY Zenon, <1>2 DEF ChainInv, Pending
<1>6. target \in Seq(Int) /\ Len(target) >= 2
  <2>1. Take(chain, staged.start - 1) \in Seq(Int) /\ Len(Take(chain, staged.start - 1)) = staged.start - 1
    BY SMTT(30), <1>3, TakeIs DEF TypeInv
  <2>2. Len(target) = staged.start - 1 + Len(staged.blocks)
    BY Zenon, <1>4, <2>1, ConcatIs DEF TypeInv
  <2>3. Len(staged.blocks) \in Nat
    BY Zenon, Lengths
  <2>4. QED
    BY SMTT(30), <2>2, <2>3, <1>3 DEF TypeInv
<1>7. Len(log) \in Nat /\ Len(log) >= 1
  BY Zenon DEF LogInv
<1>8. Len(log') = Len(log) + 1 /\ (\A i \in 1 .. Len(log) : log'[i] = log[i]) /\ log'[Len(log) + 1] = target
  <2>1. log \in Seq(Seq(Int)) /\ target \in Seq(Int)
    BY Zenon DEF TypeInv
  <2>2. QED
    BY <2>1, <1>1, AppendProperties
<1>9. Committed' = target /\ Previous' = Committed /\ Released' = Released + 2 /\ Released = 2 * (Len(log) - 1)
  BY <1>7, <1>8 DEF Committed, Previous, Released
<1>10. TypeInv'
  <2>1. log' \in Seq(Seq(Int))
    BY Zenon, <1>1, <1>6, AppendProperties DEF TypeInv
  <2>2. QED
    BY Zenon, <2>1, <1>1 DEF TypeInv, Steps
<1>11. ControlInv'
  BY Zenon DEF CommitStateWritten, WriteCommitStep, Goto, PCs, TypeInv, ControlInv, StepInv
<1>12. StepInv'
  BY Zenon DEF CommitStateWritten, WriteCommitStep, Goto, Steps, TypeInv, ControlInv, StepInv
<1>13. LogInv'
  <2>1. ASSUME NEW i \in 1 .. Len(log') PROVE Len(log'[i]) >= 2 /\ log'[i] \in Seq(Int)
    <3>1. CASE i \in 1 .. Len(log)
      <4>1. log'[i] = log[i]
        BY Zenon, <3>1, <1>8
      <4>2. Len(log[i]) >= 2 /\ log[i] \in Seq(Int)
        BY Zenon, <3>1 DEF LogInv
      <4>3. QED
        BY Zenon, <4>1, <4>2
    <3>2. CASE i = Len(log) + 1
      BY Zenon, <3>2, <1>6, <1>8
    <3>3. QED
      BY <3>1, <3>2, <1>7, <1>8
  <2>2. ASSUME NEW i \in 1 .. Len(log'), NEW j \in 1 .. Len(log'), i < j PROVE Last(log'[i]) < Last(log'[j])
    <3>1. CASE j \in 1 .. Len(log)
      BY SMTT(30), <2>2, <3>1, <1>7, <1>8 DEF LogInv
    <3>2. CASE j = Len(log) + 1
      <4>1. i \in 1 .. Len(log) /\ log'[i] = log[i] /\ log'[j] = target
        BY <2>2, <3>2, <1>7, <1>8
      <4>2. Last(Committed) < commits /\ Last(Committed) = Last(log[Len(log)])
        BY Zenon, <1>1 DEF LogInv, Committed
      <4>3. CASE i = Len(log)
        BY <4>1, <4>2, <4>3, <1>4
      <4>4. CASE i < Len(log)
        <5>1. Last(log[i]) < Last(log[Len(log)])
          BY <4>1, <4>4, <1>7 DEF LogInv
        <5>2. Last(log[i]) \in Int /\ Last(log[Len(log)]) \in Int /\ commits \in Int
          <6>1. log[i] \in Seq(Int) /\ Len(log[i]) >= 2 /\ log[Len(log)] \in Seq(Int) /\ Len(log[Len(log)]) >= 2
            BY SMTT(30), <4>1, <1>7 DEF LogInv
          <6>2. commits \in Int
            BY DEF TypeInv, Blk
          <6>3. QED
            BY SMTT(30), <6>1, <6>2, LastIs
        <5>3. QED
          BY SMTT(30), <4>1, <4>2, <5>1, <5>2, <1>4
      <4>5. QED
        BY <4>1, <4>3, <4>4, <1>7
    <3>3. QED
      BY <3>1, <3>2, <1>7, <1>8
  <2>3. Last(Committed') <= commits'
    BY SMTT(30), <1>9, <1>4, <1>1 DEF TypeInv, Blk
  <2>4. QED
    BY <2>1, <2>2, <2>3, <1>7, <1>8, <1>1 DEF LogInv
<1>14. StagedInv'
  BY Zenon, <1>1, <1>9 DEF StagedInv, CacheDatabase
<1>15. ChainInv'
  <2>1. ~CacheDatabase => IsPrefixOf(chain, target) /\ staged.start = Len(chain) + 1
    <3> SUFFICES ASSUME ~CacheDatabase PROVE IsPrefixOf(chain, target) /\ staged.start = Len(chain) + 1
      BY Zenon
    <3>1. staged.start = Len(chain) + 1
      BY Zenon, <1>1 DEF StagedInv
    <3>2. Take(chain, staged.start - 1) = chain
      <4>1. staged.start - 1 = Len(chain) /\ Len(chain) \in Nat /\ chain \in Seq(Int)
        BY <3>1 DEF TypeInv
      <4>2. QED
        BY <4>1, TakeAll
    <3>3. QED
      BY Zenon, <3>1, <3>2, <1>4, ConcatIs DEF TypeInv
  <2>2. Pending' /\ Len(log') >= 2 /\ CacheDatabase' = CacheDatabase
    BY <1>1, <1>3, <1>7, <1>8 DEF Pending, CacheDatabase
  <2>3. QED
    BY Zenon, <2>1, <2>2, <1>1, <1>5, <1>4, <1>9 DEF ChainInv
<1>16. BrokerChainInv'
  <2>1. brokerChain = chain /\ IsPrefixOf(chain, chain) /\ Len(chain) >= staged.start - 1
    BY SMTT(30), <1>2, <1>3 DEF BrokerChainInv, Pending, IsPrefixOf
  <2>2. QED
    BY Zenon, <2>1, <1>1, <1>3 DEF BrokerChainInv, Pending
<1>17. SpoolInv'
  <2>1. index = Released /\ Len(spool) = Released + 2 /\ reader <= index /\ reader \in Nat /\ Released \in Nat /\ index % 2 = 0
    BY <1>1, <1>2, <1>7, <1>9 DEF SpoolInv
  <2>2. spool[Released + 2].from = chain /\ spool[Released + 2].to = target
    BY Zenon, <1>1 DEF SpoolInv
  <2>3. Told = reader /\ Told' = reader
    BY <1>1 DEF Told
  <2>4. ASSUME NEW i \in Told + 1 .. Len(spool)
        PROVE  spool[i].kind = (IF i % 2 = 1 THEN "score" ELSE "state")
    BY Zenon DEF SpoolInv
  <2>5. ASSUME NEW i \in Told + 1 .. Len(spool), i % 2 = 0
        PROVE  spool[i].to = log'[(i \div 2) + 1]
    <3>1. CASE i <= Released
      <4>1. spool[i].to = log[(i \div 2) + 1]
        BY Zenon, <2>5, <3>1 DEF SpoolInv
      <4>2. (i \div 2) + 1 \in 1 .. Len(log)
        BY <2>1, <2>3, <3>1, <1>7, <1>9
      <4>3. QED
        BY Zenon, <4>1, <4>2, <1>8
    <3>2. CASE i = Released + 2
      <4>1. (i \div 2) + 1 = Len(log) + 1
        BY <3>2, <1>7, <1>9
      <4>2. QED
        BY Zenon, <3>2, <4>1, <2>2, <1>8
    <3>3. i <= Released \/ i = Released + 2
      BY <2>1, <2>3, <2>5
    <3>4. QED
      BY <3>1, <3>2, <3>3
  <2>6. brokerState = log'[(Told \div 2) + 1]
    <3>1. (Told \div 2) + 1 \in 1 .. Len(log)
      BY <2>1, <2>3, <1>7, <1>9
    <3>2. QED
      BY Zenon, <3>1, <1>8 DEF SpoolInv
  <2>7. QED
    BY SMTT(30), <2>1, <2>2, <2>3, <2>4, <2>5, <2>6, <1>1, <1>9, <1>5 DEF SpoolInv
<1>18. CacheInv'
  <2>1. memory = Committed /\ \A r \in RocksCaches : rocks[r] = Committed
    BY Zenon, <1>1, <1>2 DEF CacheInv
  <2>2. index < Released'
    BY SMTT(30), <1>1, <1>2, <1>7, <1>9 DEF SpoolInv
  <2>3. QED
    BY Zenon, <2>1, <2>2, <1>1, <1>2, <1>9 DEF CacheInv, CacheDatabase
<1>19. DirInv'
  <2>1. Recoverable /\ tmpDir = (IF CacheDatabase THEN target ELSE NoState)
    BY Zenon, <1>1 DEF DirInv
  <2>2. target # NoState
    BY Zenon, <1>6, LongState
  <2>3. ~CacheDatabase => Len(stateDir) < staged.start
    BY <2>1, <1>1, <1>3 DEF StagedInv, Recoverable, TypeInv
  <2>4. CacheDatabase => stateDir = Committed
    BY Zenon, <2>1, <1>2 DEF Recoverable
  <2>5. Len(stateDir) >= 2 /\ Len(stateDir) <= Len(chain) /\ (~CacheDatabase => IsPrefixOf(stateDir, chain))
    BY Zenon, <2>1 DEF Recoverable
  <2>6. Recoverable'
    BY Zenon, <2>1, <2>2, <2>4, <2>5, <1>1, <1>9 DEF Recoverable, Good, CacheDatabase
  <2>7. QED
    BY Zenon, <2>1, <2>3, <2>4, <2>5, <2>6, <1>1, <1>2, <1>9 DEF DirInv, Pending, CacheDatabase
<1>20. QED
  BY <1>10, <1>11, <1>12, <1>13, <1>14, <1>15, <1>16, <1>17, <1>18, <1>19 DEF IInv

\* The invariant is kept by CommitCache.
LEMMA CommitCacheKeeps == IInv /\ CommitCache => IInv'
<1> SUFFICES ASSUME IInv, CommitCache PROVE IInv'
  BY Zenon
<1>1. TypeInv'
  BY Zenon DEF CommitCache, Goto, NoState, Partial, Emptied, NoBlocks, Steps, Blk, TypeInv, ControlInv, StepInv
<1>2. ControlInv'
  BY Zenon DEF CommitCache, Goto, PCs, TypeInv, ControlInv, StepInv
<1>3. StepInv'
  BY Zenon DEF CommitCache, Goto, Steps, TypeInv, ControlInv, StepInv
<1>4. LogInv'
  BY Zenon DEF CommitCache, Goto, Committed, TypeInv, ControlInv, StepInv, LogInv
<1>5. StagedInv'
  BY Zenon DEF CommitCache, Goto, Pending, Committed, NoBlocks, CacheDatabase, TypeInv, ControlInv, StepInv, StagedInv
<1>6. ChainInv'
  BY Zenon DEF CommitCache, Goto, Pending, Committed, Previous, NoBlocks, CacheDatabase, TypeInv, ControlInv, StepInv, ChainInv
<1>7. BrokerChainInv'
  BY Zenon DEF CommitCache, Goto, Pending, NoBlocks, TypeInv, ControlInv, StepInv, BrokerChainInv
<1>8. SpoolInv'
  BY ZenonT(60) DEF CommitCache, Goto, Told, Released, Previous, TypeInv, ControlInv, StepInv, SpoolInv
<1>9. CacheInv'
  <2>1. target = Committed /\ pc = "stateWritten"
    BY DEF CommitCache, StagedInv, ControlInv
  <2>2. QED
    BY <2>1 DEF CommitCache, Goto, CacheInv, ControlInv, Released, Committed, Previous, CacheDatabase
<1>10. DirInv'
  BY DEF CommitCache, Goto, Recoverable, Good, Pending, Committed, Previous, NoState, NoBlocks, CacheDatabase, TypeInv,
     ControlInv, StepInv, DirInv
<1>11. QED
  BY ZenonT(60), <1>1, <1>2, <1>3, <1>4, <1>5, <1>6, <1>7, <1>8, <1>9, <1>10 DEF IInv

\* The invariant is kept by DropBlocks.
LEMMA DropBlocksKeeps == IInv /\ DropBlocks => IInv'
<1> SUFFICES ASSUME IInv, DropBlocks PROVE IInv'
  OBVIOUS
<1> DEFINE base == Take(chain, staged.start - 1)
<1>1. pc = "moveBlocks" /\ staged # NoBlocks /\ commitStep = "State_Written" /\ Pending /\ routine \in {"commit", "repair"}
  BY Zenon DEF DropBlocks, StagedInv, StepInv, Pending, ControlInv
<1>2. staged.start \in Int /\ staged.start - 1 \in Nat /\ staged.start - 1 >= 1 /\ staged.start - 1 <= Len(chain)
          /\ Len(staged.blocks) >= 1
  <2>1. staged.start \in Nat
    BY Zenon DEF TypeInv
  <2>2. QED
    BY <2>1, <1>1 DEF StagedInv
<1>3. /\ base \in Seq(Int) /\ Len(base) = staged.start - 1 /\ IsPrefixOf(base, chain) /\ IsPrefixOf(base, Committed)
      /\ base \o staged.blocks = Committed /\ Len(Committed) = Len(base) + Len(staged.blocks) /\ Len(log) >= 2
  <2>1. base \in Seq(Int) /\ Len(base) = staged.start - 1 /\ IsPrefixOf(base, chain)
    BY SMTT(30), <1>2, TakeIs, TakeIsPrefix DEF TypeInv
  <2>2. base \o staged.blocks = Committed /\ Len(log) >= 2
    BY Zenon, <1>1 DEF ChainInv
  <2>3. IsPrefixOf(base, Committed) /\ Len(Committed) = Len(base) + Len(staged.blocks)
    BY Zenon, <2>1, <2>2, ConcatIs DEF TypeInv
  <2>4. QED
    BY Zenon, <2>1, <2>2, <2>3
<1> HIDE DEF base
<1>4. chain' = base
  <2>1. CASE staged.start <= Len(chain)
    BY Zenon, <2>1 DEF DropBlocks, base
  <2>2. CASE ~(staged.start <= Len(chain))
    <3>1. chain' = chain /\ chain \in Seq(Int) /\ Len(chain) = staged.start - 1
      BY <2>2, <1>2 DEF DropBlocks, TypeInv
    <3>2. QED
      BY Zenon, <3>1, <1>2, TakeAll DEF base
  <2>3. QED
    BY Zenon, <2>1, <2>2
<1>5. /\ IF staged.start <= Len(chain) THEN pc' = "notifyDrop" ELSE pc' = "moving"
      /\ UNCHANGED <<staged, commitStep, stateDir, tmpDir, spool, index, reader, lock, rocks, memory, brokerChain,
             brokerState, routine, target, saving, log, config, commits, crashes>>
  BY Zenon DEF DropBlocks, Goto
<1>6. /\ Take(chain', staged.start - 1) = base /\ Committed' = Committed /\ CacheDatabase' = CacheDatabase
             /\ Previous' = Previous /\ Pending'
  <2>1. Take(base, staged.start - 1) = base
    BY <1>2, <1>3, TakeAll
  <2>2. QED
    BY Zenon, <2>1, <1>1, <1>4, <1>5 DEF Committed, CacheDatabase, Previous, Pending
<1>7. TypeInv'
  BY Zenon, <1>3, <1>4, <1>5 DEF TypeInv
<1>8. ControlInv'
  BY SMTT(30) DEF DropBlocks, Goto, PCs, TypeInv, ControlInv, StepInv
<1>9. StepInv'
  BY Zenon DEF DropBlocks, Goto, Steps, TypeInv, ControlInv, StepInv
<1>10. LogInv'
  BY Zenon DEF DropBlocks, Goto, Committed, TypeInv, ControlInv, StepInv, LogInv
<1>11. StagedInv'
  <2>1. staged.start >= 2 /\ Len(staged.blocks) >= 1 /\ staged.start - 1 <= Len(chain')
    BY SMTT(30), <1>2, <1>3, <1>4
  <2>2. QED
    BY Zenon, <2>1, <1>1, <1>5, <1>6 DEF StagedInv
<1>12. ChainInv'
  <2>1. pc' = "notifyDrop" /\ routine = "commit" => CacheDatabase
    BY <1>1, <1>5, Lengths DEF ChainInv
  <2>2. QED
    BY Zenon, <2>1, <1>1, <1>3, <1>4, <1>5, <1>6 DEF ChainInv
<1>13. BrokerChainInv'
  <2>1. brokerChain \in Seq(Int) /\ chain \in Seq(Int)
    BY Zenon DEF TypeInv
  <2>2. IsPrefixOf(brokerChain, chain) /\ Len(brokerChain) >= staged.start - 1
    BY Zenon, <1>1 DEF BrokerChainInv
  <2>3. IsPrefixOf(base, brokerChain)
    BY Zenon, <2>1, <2>2, <1>3, PrefixesOrdered
  <2>4. CASE staged.start <= Len(chain)
    BY Zenon, <2>3, <2>4, <1>1, <1>3, <1>4, <1>5, <1>6 DEF BrokerChainInv
  <2>5. CASE ~(staged.start <= Len(chain))
    <3>1. Len(brokerChain) = Len(base)
      BY SMTT(30), <2>1, <2>2, <2>5, <1>2, <1>3 DEF IsPrefixOf
    <3>2. brokerChain = base
      BY Zenon, <3>1, <2>1, <2>3, <1>3, PrefixEqual
    <3>3. IsPrefixOf(base, base)
      BY <1>3 DEF IsPrefixOf
    <3>4. QED
      BY Zenon, <2>5, <3>2, <3>3, <1>1, <1>3, <1>4, <1>5, <1>6 DEF BrokerChainInv
  <2>6. QED
    BY Zenon, <2>4, <2>5
<1>14. SpoolInv'
  BY Zenon DEF DropBlocks, Goto, Told, Released, Previous, TypeInv, ControlInv, StepInv, SpoolInv
<1>15. CacheInv'
  BY Zenon DEF DropBlocks, Goto, Released, Committed, Previous, CacheDatabase, TypeInv, ControlInv, StepInv, CacheInv
<1>16. DirInv'
  <2>1. ~CacheDatabase => IsPrefixOf(stateDir, base)
    <3> SUFFICES ASSUME ~CacheDatabase PROVE IsPrefixOf(stateDir, base)
      OBVIOUS
    <3>1. stateDir \in Seq(Int) /\ chain \in Seq(Int)
      BY Zenon DEF TypeInv
    <3>2. IsPrefixOf(stateDir, chain) /\ Len(stateDir) < staged.start
      BY Zenon, <1>1 DEF DirInv
    <3>3. Len(stateDir) <= Len(base)
      BY <3>1, <3>2, <1>2, <1>3
    <3>4. QED
      BY Zenon, <3>1, <3>2, <3>3, <1>3, PrefixesOrdered
  <2>2. routine = "commit" /\ pc' = "notifyDrop" => Len(stateDir) > Len(base)
    <3> SUFFICES ASSUME routine = "commit", pc' = "notifyDrop" PROVE Len(stateDir) > Len(base)
      BY Zenon
    <3>1. CacheDatabase /\ staged.start <= Len(chain)
      BY <1>1, <1>5, Lengths DEF ChainInv
    <3>2. stateDir = chain
      BY Zenon, <3>1, <1>1 DEF DirInv, ChainInv
    <3>3. Len(chain) > staged.start - 1
      BY SMTT(30), <3>1, <1>2, Lengths
    <3>4. QED
      BY Zenon, <3>2, <3>3, <1>3
  <2>3. QED
    BY Zenon, <2>1, <2>2, <1>1, <1>4, <1>5, <1>6 DEF DirInv, Good
<1>17. QED
  BY <1>7, <1>8, <1>9, <1>10, <1>11, <1>12, <1>13, <1>14, <1>15, <1>16 DEF IInv

\* The invariant is kept by NotifyDropBlocks.
LEMMA NotifyDropBlocksKeeps == IInv /\ NotifyDropBlocks => IInv'
<1> SUFFICES ASSUME IInv, NotifyDropBlocks PROVE IInv'
  BY Zenon
<1> DEFINE base == Take(chain, staged.start - 1)
<1>1. pc = "notifyDrop" /\ staged # NoBlocks /\ commitStep = "State_Written" /\ Pending /\ routine \in {"commit", "repair"}
  BY Zenon DEF NotifyDropBlocks, StagedInv, StepInv, Pending, ControlInv
<1>2. staged.start \in Int /\ staged.start - 1 \in Nat /\ staged.start - 1 >= 1 /\ staged.start - 1 <= Len(chain)
          /\ Len(staged.blocks) >= 1
  <2>1. staged.start \in Nat
    BY Zenon DEF TypeInv
  <2>2. QED
    BY <2>1, <1>1 DEF StagedInv
<1>3. /\ base \in Seq(Int) /\ Len(base) = staged.start - 1 /\ IsPrefixOf(base, chain) /\ IsPrefixOf(base, Committed)
      /\ base \o staged.blocks = Committed /\ Len(Committed) = Len(base) + Len(staged.blocks) /\ Len(log) >= 2
  <2>1. base \in Seq(Int) /\ Len(base) = staged.start - 1 /\ IsPrefixOf(base, chain)
    BY SMTT(30), <1>2, TakeIs, TakeIsPrefix DEF TypeInv
  <2>2. base \o staged.blocks = Committed /\ Len(log) >= 2
    BY Zenon, <1>1 DEF ChainInv
  <2>3. IsPrefixOf(base, Committed) /\ Len(Committed) = Len(base) + Len(staged.blocks)
    BY Zenon, <2>1, <2>2, ConcatIs DEF TypeInv
  <2>4. QED
    BY Zenon, <2>1, <2>2, <2>3
<1> HIDE DEF base
<1>4. base = chain /\ brokerChain' = chain
  <2>1. Len(chain) = staged.start - 1 /\ IsPrefixOf(chain, brokerChain)
    BY Zenon, <1>1 DEF ChainInv, BrokerChainInv
  <2>2. chain \in Seq(Int) /\ brokerChain \in Seq(Int)
    BY Zenon DEF TypeInv
  <2>3. base = chain
    BY Zenon, <2>1, <2>2, <1>2, TakeAll DEF base
  <2>4. Take(brokerChain, staged.start - 1) = base
    BY Zenon, <2>1, <2>2, <1>2, TakeOfPrefix DEF base
  <2>5. QED
    BY Zenon, <2>3, <2>4 DEF NotifyDropBlocks
<1>5. pc' = "moving" /\ UNCHANGED <<chain, staged, commitStep, routine, log, config>>
  BY Zenon DEF NotifyDropBlocks, Goto
<1>6. TypeInv'
  BY Zenon, <1>4, <1>5 DEF NotifyDropBlocks, TypeInv
<1>7. ControlInv'
  BY Zenon DEF NotifyDropBlocks, Goto, PCs, TypeInv, ControlInv, StepInv
<1>8. StepInv'
  BY Zenon DEF NotifyDropBlocks, Goto, Steps, TypeInv, ControlInv, StepInv
<1>9. LogInv'
  BY Zenon DEF NotifyDropBlocks, Goto, Committed, TypeInv, ControlInv, StepInv, LogInv
<1>10. StagedInv'
  BY Zenon DEF NotifyDropBlocks, Goto, Pending, Committed, NoBlocks, CacheDatabase, TypeInv, ControlInv, StepInv, StagedInv
<1>11. ChainInv'
  BY Zenon, <1>1, <1>3, <1>4, <1>5 DEF ChainInv, Pending, Committed, CacheDatabase
<1>12. BrokerChainInv'
  <2>1. IsPrefixOf(chain, chain)
    BY DEF IsPrefixOf, TypeInv
  <2>2. QED
    BY Zenon, <2>1, <1>1, <1>2, <1>4, <1>5 DEF BrokerChainInv, Pending
<1>13. SpoolInv'
  BY Zenon DEF NotifyDropBlocks, Goto, Told, Released, Previous, TypeInv, ControlInv, StepInv, SpoolInv
<1>14. CacheInv'
  BY Zenon DEF NotifyDropBlocks, Goto, Released, Committed, Previous, CacheDatabase, TypeInv, ControlInv, StepInv, CacheInv
<1>15. DirInv'
  BY ZenonT(60) DEF NotifyDropBlocks, Goto, Recoverable, Good, Pending, Committed, Previous, NoState, NoBlocks, CacheDatabase,
     TypeInv, ControlInv, StepInv, DirInv
<1>16. QED
  BY ZenonT(60), <1>6, <1>7, <1>8, <1>9, <1>10, <1>11, <1>12, <1>13, <1>14, <1>15 DEF IInv

\* The invariant is kept by MoveBlock.
LEMMA MoveBlockKeeps == IInv /\ MoveBlock => IInv'
<1> SUFFICES ASSUME IInv, MoveBlock PROVE IInv'
  BY Zenon
<1> DEFINE base == Take(chain, staged.start - 1)
<1>1. pc = "moving" /\ staged # NoBlocks /\ commitStep = "State_Written" /\ Pending /\ routine \in {"commit", "repair"}
  BY Zenon DEF MoveBlock, StagedInv, StepInv, Pending, ControlInv
<1>2. staged.start \in Int /\ staged.start - 1 \in Nat /\ staged.start - 1 >= 1 /\ staged.start - 1 <= Len(chain)
          /\ Len(staged.blocks) >= 1
  <2>1. staged.start \in Nat
    BY Zenon DEF TypeInv
  <2>2. QED
    BY <2>1, <1>1 DEF StagedInv
<1>3. /\ base \in Seq(Int) /\ Len(base) = staged.start - 1 /\ IsPrefixOf(base, chain) /\ IsPrefixOf(base, Committed)
      /\ base \o staged.blocks = Committed /\ Len(Committed) = Len(base) + Len(staged.blocks) /\ Len(log) >= 2
  <2>1. base \in Seq(Int) /\ Len(base) = staged.start - 1 /\ IsPrefixOf(base, chain)
    BY SMTT(30), <1>2, TakeIs, TakeIsPrefix DEF TypeInv
  <2>2. base \o staged.blocks = Committed /\ Len(log) >= 2
    BY Zenon, <1>1 DEF ChainInv
  <2>3. IsPrefixOf(base, Committed) /\ Len(Committed) = Len(base) + Len(staged.blocks)
    BY Zenon, <2>1, <2>2, ConcatIs DEF TypeInv
  <2>4. QED
    BY Zenon, <2>1, <2>2, <2>3
<1> HIDE DEF base
<1>4. /\ chain \in Seq(Int) /\ Committed \in Seq(Int) /\ IsPrefixOf(chain, Committed) /\ Len(chain) < Len(Committed)
      /\ staged.blocks[NumMoved + 1] = Committed[Len(chain) + 1]
  <2>1. chain \in Seq(Int) /\ Committed \in Seq(Int) /\ IsPrefixOf(chain, Committed)
    BY Zenon, <1>1, Lengths DEF TypeInv, ChainInv
  <2>2. NumMoved < Len(staged.blocks) /\ NumMoved = Len(chain) + 1 - staged.start
    BY Zenon DEF MoveBlock, NumMoved
  <2>9. Len(chain) \in Int /\ Len(staged.blocks) \in Int /\ Len(Committed) \in Int /\ Len(base) = staged.start - 1
    BY <1>3, Lengths
  <2>10. Len(Committed) = (staged.start - 1) + Len(staged.blocks)
    BY Zenon, <1>3
  <2>3. NumMoved + 1 \in 1 .. Len(staged.blocks) /\ Len(base) + (NumMoved + 1) = Len(chain) + 1
    <3>1. NumMoved \in Int /\ NumMoved >= 0
      BY <2>2, <2>9, <1>2
    <3>2. NumMoved + 1 \in 1 .. Len(staged.blocks)
      BY <3>1, <2>2, <2>9
    <3>3. Len(base) + (NumMoved + 1) = Len(chain) + 1
      BY SMTT(30), <3>1, <2>2, <2>9, <1>2
    <3>4. QED
      BY Zenon, <3>2, <3>3
  <2>7. staged.blocks \in Seq(Int)
    BY DEF TypeInv
  <2>8. \A i \in 1 .. Len(staged.blocks) : (base \o staged.blocks)[Len(base) + i] = staged.blocks[i]
    BY Zenon, <2>7, <1>3, ConcatIs
  <2>4. Committed[Len(base) + (NumMoved + 1)] = staged.blocks[NumMoved + 1]
    BY Zenon, <2>3, <2>8, <1>3
  <2>5. Len(chain) < Len(Committed)
    BY SMTT(30), <2>2, <2>9, <2>10, <1>2
  <2>6. QED
    BY Zenon, <2>1, <2>3, <2>4, <2>5
<1>5. /\ chain' \in Seq(Int) /\ Len(chain') = Len(chain) + 1 /\ IsPrefixOf(chain, chain') /\ IsPrefixOf(chain', Committed)
  <2>1. chain' = Append(chain, Committed[Len(chain) + 1]) /\ Committed[Len(chain) + 1] \in Int
    BY <1>4 DEF MoveBlock
  <2>2. QED
    BY Zenon, <2>1, <1>4, AppendIs, AppendNext
<1>6. /\ pc' = "notifyBlock" /\ UNCHANGED <<staged, commitStep, stateDir, tmpDir, brokerChain, routine, log, config, target>>
      /\ Committed' = Committed /\ Previous' = Previous /\ Pending' /\ CacheDatabase' = CacheDatabase
  BY Zenon, <1>1 DEF MoveBlock, Goto, Committed, Previous, Pending, CacheDatabase
<1>7. Take(chain', staged.start - 1) = base
  BY Zenon, <1>2, <1>4, <1>5, TakeOfPrefix DEF base
<1>8. TypeInv'
  BY Zenon, <1>5 DEF MoveBlock, TypeInv
<1>9. ControlInv'
  BY Zenon DEF MoveBlock, NumMoved, Goto, PCs, TypeInv, ControlInv, StepInv
<1>10. StepInv'
  BY Zenon DEF MoveBlock, NumMoved, Goto, Steps, TypeInv, ControlInv, StepInv
<1>11. LogInv'
  BY Zenon DEF MoveBlock, NumMoved, Goto, Committed, TypeInv, ControlInv, StepInv, LogInv
<1>12. StagedInv'
  BY SMTT(30), <1>1, <1>2, <1>4, <1>5, <1>6 DEF StagedInv
<1>13. ChainInv'
  <2>1. Len(chain') >= staged.start
    BY SMTT(30), <1>2, <1>4, <1>5 DEF TypeInv
  <2>2. QED
    BY Zenon, <2>1, <1>3, <1>5, <1>6, <1>7 DEF ChainInv
<1>14. BrokerChainInv'
  <2>1. brokerChain = chain
    BY Zenon, <1>1 DEF BrokerChainInv
  <2>2. Len(chain) >= staged.start - 1 /\ Len(chain) = Len(chain') - 1
    BY <1>2, <1>4, <1>5
  <2>3. QED
    BY Zenon, <2>1, <2>2, <1>5, <1>6 DEF BrokerChainInv
<1>15. SpoolInv'
  BY ZenonT(60) DEF MoveBlock, NumMoved, Goto, Told, Released, Previous, TypeInv, ControlInv, StepInv, SpoolInv
<1>16. CacheInv'
  BY ZenonT(60) DEF MoveBlock, NumMoved, Goto, Released, Committed, Previous, CacheDatabase, TypeInv, ControlInv, StepInv, CacheInv
<1>17. DirInv'
  <2>1. ~CacheDatabase => IsPrefixOf(stateDir, chain') /\ Len(stateDir) < staged.start
    <3> SUFFICES ASSUME ~CacheDatabase PROVE IsPrefixOf(stateDir, chain') /\ Len(stateDir) < staged.start
      BY Zenon
    <3>1. stateDir \in Seq(Int) /\ IsPrefixOf(stateDir, chain) /\ Len(stateDir) < staged.start
      BY Zenon, <1>1 DEF DirInv, TypeInv
    <3>2. QED
      BY Zenon, <3>1, <1>4, <1>5, PrefixTransitive
  <2>2. QED
    BY Zenon, <2>1, <1>1, <1>6 DEF DirInv
<1>18. QED
  BY ZenonT(60), <1>8, <1>9, <1>10, <1>11, <1>12, <1>13, <1>14, <1>15, <1>16, <1>17 DEF IInv

\* The invariant is kept by NotifyBlock.
LEMMA NotifyBlockKeeps == IInv /\ NotifyBlock => IInv'
<1> SUFFICES ASSUME IInv, NotifyBlock PROVE IInv'
  BY Zenon
<1>1. pc = "notifyBlock" /\ staged # NoBlocks /\ commitStep = "State_Written" /\ Pending /\ routine \in {"commit", "repair"}
  BY Zenon DEF NotifyBlock, StagedInv, StepInv, Pending, ControlInv
<1>2. staged.start \in Int /\ staged.start - 1 \in Nat /\ staged.start - 1 >= 1 /\ staged.start - 1 <= Len(chain)
          /\ Len(staged.blocks) >= 1
  <2>1. staged.start \in Nat
    BY Zenon DEF TypeInv
  <2>2. QED
    BY <2>1, <1>1 DEF StagedInv
<1>3. brokerChain' = chain
  <2>1. chain \in Seq(Int) /\ brokerChain \in Seq(Int)
    BY Zenon DEF TypeInv
  <2>2. IsPrefixOf(brokerChain, chain) /\ Len(brokerChain) = Len(chain) - 1 /\ Len(chain) - 1 \in Nat
    BY <2>1, <1>1, <1>2 DEF BrokerChainInv
  <2>3. Take(brokerChain, Len(chain) - 1) = brokerChain
    BY <2>1, <2>2, TakeAll
  <2>4. brokerChain' = Append(brokerChain, Last(chain))
    BY Zenon, <2>2, <2>3 DEF NotifyBlock
  <2>5. Last(chain) = chain[Len(brokerChain) + 1] /\ Len(brokerChain) < Len(chain) /\ chain[Len(brokerChain) + 1] \in Int
    BY <2>1, <2>2 DEF Last
  <2>6. IsPrefixOf(Append(brokerChain, Last(chain)), chain)
    BY Zenon, <2>1, <2>2, <2>5, AppendNext
  <2>7. Append(brokerChain, Last(chain)) \in Seq(Int) /\ Len(Append(brokerChain, Last(chain))) = Len(chain)
    BY <2>1, <2>2, <2>5, AppendIs
  <2>8. QED
    BY Zenon, <2>1, <2>4, <2>6, <2>7, PrefixEqual
<1>4. TypeInv'
  BY ZenonT(60), <1>3 DEF NotifyBlock, TypeInv
<1>5. ControlInv'
  BY Zenon DEF NotifyBlock, Goto, PCs, TypeInv, ControlInv, StepInv
<1>6. StepInv'
  BY Zenon DEF NotifyBlock, Goto, Steps, TypeInv, ControlInv, StepInv
<1>7. LogInv'
  BY Zenon DEF NotifyBlock, Goto, Committed, TypeInv, ControlInv, StepInv, LogInv
<1>8. StagedInv'
  BY Zenon DEF NotifyBlock, Goto, Pending, Committed, NoBlocks, CacheDatabase, TypeInv, ControlInv, StepInv, StagedInv
<1>9. ChainInv'
  BY Zenon DEF NotifyBlock, Goto, Pending, Committed, Previous, NoBlocks, CacheDatabase, TypeInv, ControlInv, StepInv, ChainInv
<1>10. BrokerChainInv'
  <2>1. IsPrefixOf(chain, chain)
    BY SMTT(30) DEF IsPrefixOf, TypeInv
  <2>2. QED
    BY ZenonT(60), <2>1, <1>1, <1>2, <1>3 DEF NotifyBlock, Goto, BrokerChainInv, Pending
<1>11. SpoolInv'
  BY Zenon DEF NotifyBlock, Goto, Told, Released, Previous, TypeInv, ControlInv, StepInv, SpoolInv
<1>12. CacheInv'
  BY Zenon DEF NotifyBlock, Goto, Released, Committed, Previous, CacheDatabase, TypeInv, ControlInv, StepInv, CacheInv
<1>13. DirInv'
  BY ZenonT(60) DEF NotifyBlock, Goto, Recoverable, Good, Pending, Committed, Previous, NoState, NoBlocks, CacheDatabase, TypeInv,
     ControlInv, StepInv, DirInv
<1>14. QED
  BY Zenon, <1>4, <1>5, <1>6, <1>7, <1>8, <1>9, <1>10, <1>11, <1>12, <1>13 DEF IInv

\* The invariant is kept by PurgeStaged.
LEMMA PurgeStagedKeeps == IInv /\ PurgeStaged => IInv'
<1> SUFFICES ASSUME IInv, PurgeStaged PROVE IInv'
  OBVIOUS
<1> DEFINE base == Take(chain, staged.start - 1)
<1>1. pc = "moving" /\ staged # NoBlocks /\ commitStep = "State_Written" /\ Pending /\ routine \in {"commit", "repair"}
  BY Zenon DEF PurgeStaged, StagedInv, StepInv, Pending, ControlInv
<1>2. staged.start \in Int /\ staged.start - 1 \in Nat /\ staged.start - 1 >= 1 /\ staged.start - 1 <= Len(chain)
          /\ Len(staged.blocks) >= 1
  <2>1. staged.start \in Nat
    BY DEF TypeInv
  <2>2. QED
    BY <2>1, <1>1 DEF StagedInv
<1>3. /\ base \in Seq(Int) /\ Len(base) = staged.start - 1 /\ IsPrefixOf(base, chain) /\ IsPrefixOf(base, Committed)
      /\ base \o staged.blocks = Committed /\ Len(Committed) = Len(base) + Len(staged.blocks) /\ Len(log) >= 2
  <2>1. base \in Seq(Int) /\ Len(base) = staged.start - 1 /\ IsPrefixOf(base, chain)
    BY SMTT(30), <1>2, TakeIs, TakeIsPrefix DEF TypeInv
  <2>2. base \o staged.blocks = Committed /\ Len(log) >= 2
    BY Zenon, <1>1 DEF ChainInv
  <2>3. IsPrefixOf(base, Committed) /\ Len(Committed) = Len(base) + Len(staged.blocks)
    BY Zenon, <2>1, <2>2, ConcatIs DEF TypeInv
  <2>4. QED
    BY Zenon, <2>1, <2>2, <2>3
<1> HIDE DEF base
<1>4. chain = Committed /\ brokerChain = chain
  <2>1. chain \in Seq(Int) /\ Committed \in Seq(Int) /\ IsPrefixOf(chain, Committed)
    BY Zenon, <1>1, Lengths DEF TypeInv, ChainInv
  <2>5. Len(chain) \in Int /\ Len(staged.blocks) \in Int /\ Len(Committed) \in Int
    BY Lengths
  <2>6. Len(Committed) = (staged.start - 1) + Len(staged.blocks)
    BY Zenon, <1>3
  <2>7. Len(chain) + 1 - staged.start = Len(staged.blocks)
    BY Zenon DEF PurgeStaged, NumMoved
  <2>2. Len(chain) = Len(Committed)
    BY <2>5, <2>6, <2>7, <1>2
  <2>3. chain = Committed
    BY Zenon, <2>1, <2>2, PrefixEqual
  <2>4. QED
    BY Zenon, <2>3, <1>1 DEF BrokerChainInv
<1>5. /\ IF routine = "commit" THEN pc' = "moved" ELSE pc' = "reapply"
      /\ staged' = NoBlocks /\ ~Pending' /\ Committed' = Committed /\ Previous' = Previous /\ CacheDatabase' = CacheDatabase
      /\ UNCHANGED <<chain, commitStep, stateDir, tmpDir, brokerChain, routine, log, lock, saving, config>>
  BY Zenon DEF PurgeStaged, Goto, Pending, Committed, Previous, CacheDatabase
<1>6. TypeInv'
  BY NoBlocksIs DEF PurgeStaged, TypeInv
<1>7. ControlInv'
  BY Zenon DEF PurgeStaged, NumMoved, Goto, PCs, TypeInv, ControlInv, StepInv
<1>8. StepInv'
  BY Zenon DEF PurgeStaged, NumMoved, Goto, Steps, TypeInv, ControlInv, StepInv
<1>9. LogInv'
  BY Zenon DEF PurgeStaged, NumMoved, Goto, Committed, TypeInv, ControlInv, StepInv, LogInv
<1>10. StagedInv'
  BY Zenon DEF PurgeStaged, NumMoved, Goto, Pending, Committed, NoBlocks, CacheDatabase, TypeInv, ControlInv, StepInv, StagedInv
<1>11. ChainInv'
  BY Zenon, <1>4, <1>5 DEF ChainInv
<1>12. BrokerChainInv'
  BY Zenon, <1>4, <1>5 DEF BrokerChainInv
<1>13. SpoolInv'
  BY ZenonT(60) DEF PurgeStaged, NumMoved, Goto, Told, Released, Previous, TypeInv, ControlInv, StepInv, SpoolInv
<1>14. CacheInv'
  BY Zenon DEF PurgeStaged, NumMoved, Goto, Released, Committed, Previous, CacheDatabase, TypeInv, ControlInv, StepInv, CacheInv
<1>15. DirInv'
  <2>1. CASE routine = "commit"
    BY Zenon, <2>1, <1>1, <1>5 DEF DirInv
  <2>2. CASE routine = "repair"
    <3>1. tmpDir = NoState /\ Len(stateDir) >= 2 /\ (IF CacheDatabase THEN stateDir = Committed ELSE IsPrefixOf(stateDir,
              chain))
      BY Zenon, <2>2, <1>1, Lengths DEF DirInv
    <3>2. Len(stateDir) <= Len(chain)
      BY <3>1, <1>4 DEF IsPrefixOf, TypeInv
    <3>3. Recoverable'
      BY Zenon, <3>1, <3>2, <1>1, <1>5 DEF Recoverable, Good
    <3>4. QED
      BY ZenonT(60), <2>2, <3>1, <3>3, <1>5 DEF DirInv
  <2>3. QED
    BY Zenon, <2>1, <2>2, <1>1
<1>16. QED
  BY <1>6, <1>7, <1>8, <1>9, <1>10, <1>11, <1>12, <1>13, <1>14, <1>15 DEF IInv

\* The invariant is kept by RenameState.
LEMMA RenameStateKeeps == IInv /\ RenameState => IInv'
<1> SUFFICES ASSUME IInv, RenameState PROVE IInv'
  BY Zenon
<1>1. /\ pc = "renameState" /\ stateDir' = tmpDir /\ tmpDir' = NoState /\ Good(tmpDir) /\ commitStep = "State_Written"
             /\ routine \in {"commit", "save", "repair"}
      /\ pc' = (CASE routine = "commit" -> "stateMoved" [] routine = "save" -> "saveMove" [] routine = "repair" -> "moveStaged")
      /\ UNCHANGED <<chain, staged, commitStep, routine, log, config, saving, lock>>
  BY Zenon DEF RenameState, Goto, DirInv, StepInv, ControlInv
<1>2. Len(tmpDir) >= 2 /\ (CacheDatabase \/ staged = NoBlocks) /\ (routine # "repair" => staged = NoBlocks)
  <2>1. tmpDir \in Seq(Int)
    BY Zenon DEF TypeInv
  <2>2. Len(tmpDir) >= 2
    BY Zenon, <2>1, <1>1, GoodIsLong
  <2>3. QED
    BY Zenon, <2>2, <1>1 DEF DirInv, StagedInv
<1>3. TypeInv'
  BY DEF RenameState, Goto, NoState, Partial, Emptied, NoBlocks, Steps, Blk, TypeInv, ControlInv, StepInv
<1>4. ControlInv'
  BY ZenonT(60) DEF RenameState, Goto, PCs, TypeInv, ControlInv, StepInv
<1>5. StepInv'
  BY Zenon DEF RenameState, Goto, Steps, TypeInv, ControlInv, StepInv
<1>6. LogInv'
  BY Zenon DEF RenameState, Goto, Committed, TypeInv, ControlInv, StepInv, LogInv
<1>7. StagedInv'
  BY Zenon DEF RenameState, Goto, Pending, Committed, NoBlocks, CacheDatabase, TypeInv, ControlInv, StepInv, StagedInv
<1>8. ChainInv'
  BY Zenon DEF RenameState, Goto, Pending, Committed, Previous, NoBlocks, CacheDatabase, TypeInv, ControlInv, StepInv, ChainInv
<1>9. BrokerChainInv'
  BY Zenon DEF RenameState, Goto, Pending, NoBlocks, TypeInv, ControlInv, StepInv, BrokerChainInv
<1>10. SpoolInv'
  BY Zenon DEF RenameState, Goto, Told, Released, Previous, TypeInv, ControlInv, StepInv, SpoolInv
<1>11. CacheInv'
  BY Zenon DEF RenameState, Goto, Released, Committed, Previous, CacheDatabase, TypeInv, ControlInv, StepInv, CacheInv
<1>12. DirInv'
  <2>1. Committed' = Committed /\ CacheDatabase' = CacheDatabase /\ Pending' = Pending
    BY Zenon, <1>1 DEF Committed, CacheDatabase, Pending
  <2>2. IF CacheDatabase THEN stateDir' = Committed ELSE Len(stateDir') >= 2 /\ IsPrefixOf(stateDir', chain)
    BY Zenon, <1>1 DEF Good
  <2>3. CASE routine = "repair"
    <3>1. pc' = "moveStaged"
      BY Zenon, <2>3, <1>1
    <3>2. ~CacheDatabase => ~Pending
      BY Zenon, <1>2 DEF Pending
    <3>3. QED
      BY Zenon, <2>1, <2>2, <2>3, <3>1, <3>2, <1>1 DEF DirInv
  <2>4. CASE routine # "repair"
    <3>1. pc' \in {"stateMoved", "saveMove"} /\ ~Pending /\ staged = NoBlocks
      BY Zenon, <2>4, <1>1, <1>2 DEF Pending
    <3>2. chain = Committed
      BY Zenon, <3>1 DEF ChainInv
    <3>3. stateDir' \in Seq(Int) /\ chain \in Seq(Int)
      BY Zenon, <1>1 DEF TypeInv
    <3>4. Len(stateDir') <= Len(chain) /\ Len(stateDir') >= 2
      BY <2>2, <3>2, <3>3, <1>1, <1>2 DEF IsPrefixOf
    <3>5. Recoverable'
      BY Zenon, <2>1, <2>2, <3>1, <3>4, <1>1 DEF Recoverable, Good
    <3>6. QED
      BY Zenon, <2>1, <2>4, <3>1, <3>5, <1>1 DEF DirInv
  <2>5. QED
    BY Zenon, <2>3, <2>4
<1>13. QED
  BY Zenon, <1>3, <1>4, <1>5, <1>6, <1>7, <1>8, <1>9, <1>10, <1>11, <1>12 DEF IInv

\* The invariant is kept by CommitSupplementalData.
LEMMA CommitSupplementalDataKeeps == IInv /\ CommitSupplementalData => IInv'
<1> SUFFICES ASSUME IInv, CommitSupplementalData PROVE IInv'
  BY Zenon
<1>1. TypeInv'
  BY Zenon, NotNoState, NotPartial, NotEmptied, NoBlocksIs DEF CommitSupplementalData, PurgeStateDirectory, Goto, TypeInv
<1>2. ControlInv'
  BY ZenonT(60) DEF CommitSupplementalData, PurgeStateDirectory, Goto, PCs, TypeInv, ControlInv, StepInv
<1>3. StepInv'
  BY Zenon DEF CommitSupplementalData, PurgeStateDirectory, Goto, Steps, TypeInv, ControlInv, StepInv
<1>4. LogInv'
  BY Zenon DEF CommitSupplementalData, PurgeStateDirectory, Goto, Committed, TypeInv, ControlInv, StepInv, LogInv
<1>5. StagedInv'
  BY Zenon DEF CommitSupplementalData, PurgeStateDirectory, Goto, Pending, Committed, NoBlocks, CacheDatabase, TypeInv,
     ControlInv, StepInv, StagedInv
<1>6. ChainInv'
  BY Zenon DEF CommitSupplementalData, PurgeStateDirectory, Goto, Pending, Committed, Previous, NoBlocks, CacheDatabase,
     TypeInv, ControlInv, StepInv, ChainInv
<1>7. BrokerChainInv'
  BY Zenon DEF CommitSupplementalData, PurgeStateDirectory, Goto, Pending, NoBlocks, TypeInv, ControlInv, StepInv, BrokerChainInv
<1>8. SpoolInv'
  BY Zenon DEF CommitSupplementalData, PurgeStateDirectory, Goto, Told, Released, Previous, TypeInv, ControlInv, StepInv, SpoolInv
<1>9. CacheInv'
  BY Zenon DEF CommitSupplementalData, PurgeStateDirectory, Goto, Released, Committed, Previous, CacheDatabase, TypeInv,
     ControlInv, StepInv, CacheInv
<1>10. DirInv'
  <2>1. pc = "moved" /\ staged = NoBlocks /\ routine = "commit" /\ commitStep = "State_Written"
    BY Zenon DEF CommitSupplementalData, StagedInv, ControlInv, StepInv
  <2>2. CASE CacheDatabase
    <3>1. pc' = "renameState" /\ Good(tmpDir)' /\ ~Pending' /\ routine' = "commit" /\ CacheDatabase'
      BY Zenon, <2>1, <2>2 DEF CommitSupplementalData, PurgeStateDirectory, Goto, DirInv, Good, Committed, Pending, CacheDatabase
    <3>2. QED
      BY Zenon, <3>1 DEF DirInv
  <2>3. CASE ~CacheDatabase
    <3>1. pc' = "stateMoved" /\ tmpDir' = NoState /\ ~Pending' /\ routine' = "commit" /\ ~CacheDatabase'
      BY Zenon, <2>1, <2>3 DEF CommitSupplementalData, Goto, DirInv, Pending, CacheDatabase
    <3>2. Recoverable'
      BY ZenonT(60), <2>1, <2>3 DEF CommitSupplementalData, Goto, DirInv, Recoverable, Good, CacheDatabase, Committed, IsPrefixOf
    <3>3. QED
      BY Zenon, <3>1, <3>2 DEF DirInv
  <2>4. QED
    BY Zenon, <2>2, <2>3
<1>11. QED
  BY Zenon, <1>1, <1>2, <1>3, <1>4, <1>5, <1>6, <1>7, <1>8, <1>9, <1>10 DEF IInv

\* The invariant is kept by CommitAllUpdated.
LEMMA CommitAllUpdatedKeeps == IInv /\ CommitAllUpdated => IInv'
<1> SUFFICES ASSUME IInv, CommitAllUpdated PROVE IInv'
  OBVIOUS
<1>1. staged = NoBlocks /\ pc = "stateMoved"
  BY Zenon DEF CommitAllUpdated, WriteCommitStep, StagedInv
<1>2. TypeInv'
  BY Zenon DEF CommitAllUpdated, WriteCommitStep, Goto, NoState, Partial, Emptied, NoBlocks, Steps, Blk, TypeInv, ControlInv, StepInv
<1>3. ControlInv'
  BY Zenon DEF CommitAllUpdated, WriteCommitStep, Goto, PCs, TypeInv, ControlInv, StepInv
<1>4. StepInv'
  BY Zenon DEF CommitAllUpdated, WriteCommitStep, Goto, Steps, TypeInv, ControlInv, StepInv
<1>5. LogInv'
  BY Zenon DEF CommitAllUpdated, WriteCommitStep, Goto, Committed, TypeInv, ControlInv, StepInv, LogInv
<1>6. StagedInv'
  BY Zenon DEF CommitAllUpdated, WriteCommitStep, Goto, Pending, Committed, NoBlocks, CacheDatabase, TypeInv, ControlInv,
     StepInv, StagedInv
<1>7. ChainInv'
  BY Zenon, <1>1 DEF CommitAllUpdated, WriteCommitStep, Goto, Pending, Committed, ChainInv
<1>8. BrokerChainInv'
  BY Zenon, <1>1 DEF CommitAllUpdated, WriteCommitStep, Goto, Pending, BrokerChainInv
<1>9. SpoolInv'
  BY ZenonT(60) DEF CommitAllUpdated, WriteCommitStep, Goto, Told, Released, Previous, TypeInv, ControlInv, StepInv, SpoolInv
<1>10. CacheInv'
  BY Zenon DEF CommitAllUpdated, WriteCommitStep, Goto, Released, Committed, Previous, CacheDatabase, TypeInv, ControlInv,
     StepInv, CacheInv
<1>11. DirInv'
  BY ZenonT(60) DEF CommitAllUpdated, WriteCommitStep, Goto, Recoverable, Good, Pending, Committed, Previous, NoState, NoBlocks,
     CacheDatabase, TypeInv, ControlInv, StepInv, DirInv
<1>12. QED
  BY <1>2, <1>3, <1>4, <1>5, <1>6, <1>7, <1>8, <1>9, <1>10, <1>11 DEF IInv

\* The invariant is kept by PublishIndex.
LEMMA PublishIndexKeeps == IInv /\ PublishIndex => IInv'
<1> SUFFICES ASSUME IInv, PublishIndex PROVE IInv'
  BY Zenon
<1>1. TypeInv'
  BY Zenon DEF PublishIndex, Goto, NoState, Partial, Emptied, NoBlocks, Steps, Blk, TypeInv, ControlInv, StepInv
<1>2. ControlInv'
  BY Zenon DEF PublishIndex, Goto, PCs, TypeInv, ControlInv, StepInv
<1>3. StepInv'
  BY Zenon DEF PublishIndex, Goto, Steps, TypeInv, ControlInv, StepInv
<1>4. LogInv'
  BY Zenon DEF PublishIndex, Goto, Committed, TypeInv, ControlInv, StepInv, LogInv
<1>5. StagedInv'
  BY Zenon DEF PublishIndex, Goto, Pending, Committed, NoBlocks, CacheDatabase, TypeInv, ControlInv, StepInv, StagedInv
<1>6. ChainInv'
  BY Zenon DEF PublishIndex, Goto, Pending, Committed, Previous, NoBlocks, CacheDatabase, TypeInv, ControlInv, StepInv, ChainInv
<1>7. BrokerChainInv'
  BY Zenon DEF PublishIndex, Goto, Pending, NoBlocks, TypeInv, ControlInv, StepInv, BrokerChainInv
<1>8. SpoolInv'
  <2>1. pc = "publishIndex" /\ pc' = "idle" /\ index' = Len(spool) /\ UNCHANGED <<spool, reader, brokerState, log,
            commitStep, routine, lock>>
    BY Zenon DEF PublishIndex, Goto
  <2>2. Len(spool) = Released
    BY <2>1, ReleasedIs DEF SpoolInv
  <2>3. Released' = Released /\ Told' = reader /\ Told = reader
    BY Zenon, <2>1 DEF Released, Told
  <2>4. index' = Released /\ Released % 2 = 0 /\ Released \in Nat
    BY Zenon, <2>1, <2>2, ReleasedIs
  <2>5. reader' <= index'
    BY SMTT(30), <2>1, <2>4 DEF SpoolInv
  <2>6. QED
    BY SMTT(30), <2>1, <2>2, <2>3, <2>4, <2>5 DEF SpoolInv
<1>9. CacheInv'
  BY Zenon DEF PublishIndex, Goto, Released, Committed, Previous, CacheDatabase, TypeInv, ControlInv, StepInv, CacheInv
<1>10. DirInv'
  BY Zenon DEF PublishIndex, Goto, Recoverable, Good, Pending, Committed, Previous, NoState, NoBlocks, CacheDatabase, TypeInv,
     ControlInv, StepInv, DirInv
<1>11. QED
  BY Zenon, <1>1, <1>2, <1>3, <1>4, <1>5, <1>6, <1>7, <1>8, <1>9, <1>10 DEF IInv
=============================================================================
