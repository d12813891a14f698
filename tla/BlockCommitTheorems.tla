-------------------------- MODULE BlockCommitTheorems --------------------------
(* The second half of the proofs about BlockCommit: the steps of saving, of    *)
(* recovery, of the broker and the crash keep the invariant of                 *)
(* BlockCommitProofs; from it follow the properties of the commit run and the  *)
(* refinement of AtomicLedger.                                                 *)
EXTENDS BlockCommitProofs

USE DEF IInv, dirVars, spoolVars, cacheVars, brokerVars, boundVars, Preparing, Moving, Loading, Finishing, Saving, Moves

\* The invariant is kept by BeginShutdownSave.
LEMMA BeginShutdownSaveKeeps == IInv /\ BeginShutdownSave => IInv'
<1> SUFFICES ASSUME IInv, BeginShutdownSave PROVE IInv'
  BY Zenon
<1>1. TypeInv'
  BY Zenon DEF BeginShutdownSave, BeginSave, Goto, NoState, Partial, Emptied, NoBlocks, Steps, Blk, TypeInv, ControlInv, StepInv
<1>2. ControlInv'
  BY Zenon DEF BeginShutdownSave, BeginSave, Goto, PCs, TypeInv, ControlInv, StepInv
<1>3. StepInv'
  BY Zenon DEF BeginShutdownSave, BeginSave, Goto, Steps, TypeInv, ControlInv, StepInv
<1>4. LogInv'
  BY Zenon DEF BeginShutdownSave, BeginSave, Goto, Committed, TypeInv, ControlInv, StepInv, LogInv
<1>5. StagedInv'
  BY Zenon DEF BeginShutdownSave, BeginSave, Goto, Pending, Committed, NoBlocks, CacheDatabase, TypeInv, ControlInv, StepInv,
     StagedInv
<1>6. ChainInv'
  BY Zenon DEF BeginShutdownSave, BeginSave, Goto, Pending, Committed, Previous, NoBlocks, CacheDatabase, TypeInv, ControlInv,
     StepInv, ChainInv
<1>7. BrokerChainInv'
  BY Zenon DEF BeginShutdownSave, BeginSave, Goto, Pending, NoBlocks, TypeInv, ControlInv, StepInv, BrokerChainInv
<1>8. SpoolInv'
  BY Zenon DEF BeginShutdownSave, BeginSave, Goto, Told, Released, Previous, TypeInv, ControlInv, StepInv, SpoolInv
<1>9. CacheInv'
  <2>1. pc = "idle" /\ pc' = "saveBegin" /\ routine' = "save" /\ UNCHANGED <<memory, rocks, log, index, config, saving>>
    BY Zenon DEF BeginShutdownSave, BeginSave, Goto
  <2>2. routine = "commit"
    BY Zenon, <2>1 DEF ControlInv
  <2>3. memory = Committed /\ \A r \in RocksCaches : rocks[r] = Committed
    BY Zenon, <2>1, <2>2 DEF CacheInv
  <2>4. Committed' = Committed /\ CacheDatabase' = CacheDatabase
    BY Zenon, <2>1 DEF Committed, CacheDatabase
  <2>5. Len(Committed) >= 2 /\ IsPrefixOf(Committed, Committed)
    BY Zenon, Lengths, PrefixOfItself
  <2>6. QED
    BY Zenon, <2>1, <2>3, <2>4, <2>5 DEF CacheInv
<1>10. DirInv'
  BY ZenonT(60) DEF BeginShutdownSave, BeginSave, Goto, Recoverable, Good, Pending, Committed, Previous, NoState, NoBlocks,
     CacheDatabase, TypeInv, ControlInv, StepInv, DirInv
<1>11. QED
  BY Zenon, <1>1, <1>2, <1>3, <1>4, <1>5, <1>6, <1>7, <1>8, <1>9, <1>10 DEF IInv

\* The invariant is kept by BeginRecoverySave.
LEMMA BeginRecoverySaveKeeps == IInv /\ BeginRecoverySave => IInv'
<1> SUFFICES ASSUME IInv, BeginRecoverySave PROVE IInv'
  OBVIOUS
<1>1. TypeInv'
  BY Zenon DEF BeginRecoverySave, BeginSave, Goto, NoState, Partial, Emptied, NoBlocks, Steps, Blk, TypeInv, ControlInv, StepInv
<1>2. ControlInv'
  BY Zenon DEF BeginRecoverySave, BeginSave, Goto, PCs, TypeInv, ControlInv, StepInv
<1>3. StepInv'
  BY Zenon DEF BeginRecoverySave, BeginSave, Goto, Steps, TypeInv, ControlInv, StepInv
<1>4. LogInv'
  BY Zenon DEF BeginRecoverySave, BeginSave, Goto, Committed, TypeInv, ControlInv, StepInv, LogInv
<1>5. StagedInv'
  BY Zenon DEF BeginRecoverySave, BeginSave, Goto, Pending, Committed, NoBlocks, CacheDatabase, TypeInv, ControlInv, StepInv,
     StagedInv
<1>6. ChainInv'
  BY Zenon DEF BeginRecoverySave, BeginSave, Goto, Pending, Committed, Previous, NoBlocks, CacheDatabase, TypeInv, ControlInv,
     StepInv, ChainInv
<1>7. BrokerChainInv'
  BY Zenon DEF BeginRecoverySave, BeginSave, Goto, Pending, NoBlocks, TypeInv, ControlInv, StepInv, BrokerChainInv
<1>8. SpoolInv'
  BY Zenon DEF BeginRecoverySave, BeginSave, Goto, Told, Released, Previous, TypeInv, ControlInv, StepInv, SpoolInv
<1>9. CacheInv'
  BY Zenon DEF BeginRecoverySave, BeginSave, Goto, Released, Committed, Previous, CacheDatabase, TypeInv, ControlInv, StepInv,
     CacheInv
<1>10. DirInv'
  BY Zenon DEF BeginRecoverySave, BeginSave, Goto, Recoverable, Good, Pending, Committed, Previous, NoState, NoBlocks,
     CacheDatabase, TypeInv, ControlInv, StepInv, DirInv
<1>11. QED
  BY <1>1, <1>2, <1>3, <1>4, <1>5, <1>6, <1>7, <1>8, <1>9, <1>10 DEF IInv

\* The invariant is kept by SaveStateBegin.
LEMMA SaveStateBeginKeeps == IInv /\ SaveStateBegin => IInv'
<1> SUFFICES ASSUME IInv, SaveStateBegin PROVE IInv'
  BY Zenon
<1>1. TypeInv'
  BY DEF SaveStateBegin, SaveState, Goto, NoState, Partial, Emptied, NoBlocks, Steps, Blk, TypeInv, ControlInv, StepInv
<1>2. ControlInv'
  BY Zenon DEF SaveStateBegin, SaveState, Goto, PCs, TypeInv, ControlInv, StepInv
<1>3. StepInv'
  BY Zenon DEF SaveStateBegin, SaveState, Goto, Steps, TypeInv, ControlInv, StepInv
<1>4. LogInv'
  BY Zenon DEF SaveStateBegin, SaveState, Goto, Committed, TypeInv, ControlInv, StepInv, LogInv
<1>5. StagedInv'
  BY Zenon DEF SaveStateBegin, SaveState, Goto, Pending, Committed, NoBlocks, CacheDatabase, TypeInv, ControlInv, StepInv, StagedInv
<1>6. ChainInv'
  BY Zenon DEF SaveStateBegin, SaveState, Goto, Pending, Committed, Previous, NoBlocks, CacheDatabase, TypeInv, ControlInv,
     StepInv, ChainInv
<1>7. BrokerChainInv'
  BY Zenon DEF SaveStateBegin, SaveState, Goto, Pending, NoBlocks, TypeInv, ControlInv, StepInv, BrokerChainInv
<1>8. SpoolInv'
  BY Zenon DEF SaveStateBegin, SaveState, Goto, Told, Released, Previous, TypeInv, ControlInv, StepInv, SpoolInv
<1>9. CacheInv'
  BY Zenon DEF SaveStateBegin, SaveState, Goto, Released, Committed, Previous, CacheDatabase, TypeInv, ControlInv, StepInv, CacheInv
<1>10. DirInv'
  BY ZenonT(60) DEF SaveStateBegin, SaveState, Goto, Recoverable, Good, Pending, Committed, Previous, NoState, NoBlocks,
     CacheDatabase, TypeInv, ControlInv, StepInv, DirInv
<1>11. QED
  BY Zenon, <1>1, <1>2, <1>3, <1>4, <1>5, <1>6, <1>7, <1>8, <1>9, <1>10 DEF IInv

\* The invariant is kept by SaveStateEnd.
LEMMA SaveStateEndKeeps == IInv /\ SaveStateEnd => IInv'
<1> SUFFICES ASSUME IInv, SaveStateEnd PROVE IInv'
  OBVIOUS
<1>1. TypeInv'
  BY Zenon DEF SaveStateEnd, SaveState, Goto, NoState, Partial, Emptied, NoBlocks, Steps, Blk, TypeInv, ControlInv, StepInv
<1>2. ControlInv'
  BY Zenon DEF SaveStateEnd, SaveState, Goto, PCs, TypeInv, ControlInv, StepInv
<1>3. StepInv'
  BY Zenon DEF SaveStateEnd, SaveState, Goto, Steps, TypeInv, ControlInv, StepInv
<1>4. LogInv'
  BY Zenon DEF SaveStateEnd, SaveState, Goto, Committed, TypeInv, ControlInv, StepInv, LogInv
<1>5. StagedInv'
  BY Zenon DEF SaveStateEnd, SaveState, Goto, Pending, Committed, NoBlocks, CacheDatabase, TypeInv, ControlInv, StepInv, StagedInv
<1>6. ChainInv'
  BY Zenon DEF SaveStateEnd, SaveState, Goto, Pending, Committed, Previous, NoBlocks, CacheDatabase, TypeInv, ControlInv,
     StepInv, ChainInv
<1>7. BrokerChainInv'
  BY Zenon DEF SaveStateEnd, SaveState, Goto, Pending, NoBlocks, TypeInv, ControlInv, StepInv, BrokerChainInv
<1>8. SpoolInv'
  BY Zenon DEF SaveStateEnd, SaveState, Goto, Told, Released, Previous, TypeInv, ControlInv, StepInv, SpoolInv
<1>9. CacheInv'
  BY Zenon DEF SaveStateEnd, SaveState, Goto, Released, Committed, Previous, CacheDatabase, TypeInv, ControlInv, StepInv, CacheInv
<1>10. DirInv'
  <2>1. pc = "savingState" /\ pc' = "saveWritten" /\ tmpDir' = memory /\ UNCHANGED <<chain, staged, commitStep, stateDir,
            routine, log, config>>
    BY Zenon DEF SaveStateEnd, SaveState, Goto
  <2>2. routine = "save" /\ commitStep # "State_Written"
    BY Zenon, <2>1 DEF ControlInv, StepInv
  <2>3. ~Pending /\ chain = Committed
    BY Zenon, <2>2 DEF Pending, ChainInv
  <2>4. Good(memory)
    BY Zenon, <2>1, <2>2, <2>3 DEF Good, CacheInv
  <2>5. Recoverable
    BY Zenon, <2>1 DEF DirInv
  <2>6. Committed' = Committed /\ CacheDatabase' = CacheDatabase /\ ~Pending'
    BY Zenon, <2>1, <2>2 DEF Committed, CacheDatabase, Pending
  <2>7. Recoverable'
    BY Zenon, <2>1, <2>2, <2>5, <2>6 DEF Recoverable
  <2>8. Good(tmpDir)'
    BY Zenon, <2>1, <2>4, <2>6 DEF Good
  <2>9. QED
    BY Zenon, <2>1, <2>2, <2>6, <2>7, <2>8 DEF DirInv
<1>11. QED
  BY <1>1, <1>2, <1>3, <1>4, <1>5, <1>6, <1>7, <1>8, <1>9, <1>10 DEF IInv

\* The invariant is kept by SaveStateWritten.
LEMMA SaveStateWrittenKeeps == IInv /\ SaveStateWritten => IInv'
<1> SUFFICES ASSUME IInv, SaveStateWritten PROVE IInv'
  BY Zenon
<1>1. staged = NoBlocks /\ pc = "saveWritten"
  BY Zenon DEF SaveStateWritten, StagedInv
<1>2. TypeInv'
  BY Zenon DEF SaveStateWritten, NoState, Partial, Emptied, NoBlocks, Steps, Blk, TypeInv, ControlInv, StepInv
<1>3. ControlInv'
  BY Zenon DEF SaveStateWritten, PCs, TypeInv, ControlInv, StepInv
<1>4. StepInv'
  BY Zenon DEF SaveStateWritten, Steps, TypeInv, ControlInv, StepInv
<1>5. LogInv'
  BY Zenon DEF SaveStateWritten, Committed, TypeInv, ControlInv, StepInv, LogInv
<1>6. StagedInv'
  BY Zenon DEF SaveStateWritten, Pending, Committed, NoBlocks, CacheDatabase, TypeInv, ControlInv, StepInv, StagedInv
<1>7. ChainInv'
  BY Zenon, <1>1 DEF SaveStateWritten, Pending, Committed, ChainInv
<1>8. BrokerChainInv'
  BY Zenon, <1>1 DEF SaveStateWritten, Pending, BrokerChainInv
<1>9. SpoolInv'
  BY Zenon DEF SaveStateWritten, Told, Released, Previous, TypeInv, ControlInv, StepInv, SpoolInv
<1>10. CacheInv'
  BY Zenon DEF SaveStateWritten, Released, Committed, Previous, CacheDatabase, TypeInv, ControlInv, StepInv, CacheInv
<1>11. DirInv'
  <2>1. Recoverable /\ Good(tmpDir) /\ chain = Committed
    BY Zenon, <1>1 DEF DirInv, ChainInv, Pending
  <2>2. Good(tmpDir)'
    BY Zenon, <2>1 DEF SaveStateWritten, Good, Committed, CacheDatabase
  <2>3. tmpDir # NoState
    BY Zenon, <2>1, GoodIsLong DEF TypeInv
  <2>4. Recoverable'
    BY ZenonT(60), <2>1, <2>2, <2>3, <1>1 DEF SaveStateWritten, Recoverable, Committed, CacheDatabase
  <2>5. QED
    BY ZenonT(60), <2>2, <2>4, <1>1 DEF SaveStateWritten, DirInv, Pending
<1>12. QED
  BY Zenon, <1>2, <1>3, <1>4, <1>5, <1>6, <1>7, <1>8, <1>9, <1>10, <1>11 DEF IInv

\* The invariant is kept by SaveStateMove.
LEMMA SaveStateMoveKeeps == IInv /\ SaveStateMove => IInv'
<1> SUFFICES ASSUME IInv, SaveStateMove PROVE IInv'
  OBVIOUS
<1>1. TypeInv'
  BY DEF SaveStateMove, PurgeStateDirectory, Goto, NoState, Partial, Emptied, NoBlocks, Steps, Blk, TypeInv, ControlInv, StepInv
<1>2. ControlInv'
  BY Zenon DEF SaveStateMove, PurgeStateDirectory, Goto, PCs, TypeInv, ControlInv, StepInv
<1>3. StepInv'
  BY Zenon DEF SaveStateMove, PurgeStateDirectory, Goto, Steps, TypeInv, ControlInv, StepInv
<1>4. LogInv'
  BY Zenon DEF SaveStateMove, PurgeStateDirectory, Goto, Committed, TypeInv, ControlInv, StepInv, LogInv
<1>5. StagedInv'
  BY Zenon DEF SaveStateMove, PurgeStateDirectory, Goto, Pending, Committed, NoBlocks, CacheDatabase, TypeInv, ControlInv,
     StepInv, StagedInv
<1>6. ChainInv'
  BY Zenon DEF SaveStateMove, PurgeStateDirectory, Goto, Pending, Committed, Previous, NoBlocks, CacheDatabase, TypeInv,
     ControlInv, StepInv, ChainInv
<1>7. BrokerChainInv'
  BY Zenon DEF SaveStateMove, PurgeStateDirectory, Goto, Pending, NoBlocks, TypeInv, ControlInv, StepInv, BrokerChainInv
<1>8. SpoolInv'
  BY ZenonT(60) DEF SaveStateMove, PurgeStateDirectory, Goto, Told, Released, Previous, TypeInv, ControlInv, StepInv, SpoolInv
<1>9. CacheInv'
  BY Zenon DEF SaveStateMove, PurgeStateDirectory, Goto, Released, Committed, Previous, CacheDatabase, TypeInv, ControlInv,
     StepInv, CacheInv
<1>10. DirInv'
  BY DEF SaveStateMove, PurgeStateDirectory, Goto, Recoverable, Good, Pending, Committed, Previous, NoState, NoBlocks,
     CacheDatabase, TypeInv, ControlInv, StepInv, DirInv
<1>11. QED
  BY <1>1, <1>2, <1>3, <1>4, <1>5, <1>6, <1>7, <1>8, <1>9, <1>10 DEF IInv

\* The invariant is kept by EndProcess.
LEMMA EndProcessKeeps == IInv /\ EndProcess => IInv'
<1> SUFFICES ASSUME IInv, EndProcess PROVE IInv'
  BY Zenon
<1>1. staged = NoBlocks /\ index = Released /\ pc \in {"saveMove", "recovered"}
  BY Zenon DEF EndProcess, StagedInv, SpoolInv
<1>2. TypeInv'
  BY Zenon, NotNoState, NotPartial, NotEmptied, NoBlocksIs DEF EndProcess, DropMemory, Goto, TypeInv, Steps
<1>3. ControlInv'
  BY Zenon DEF EndProcess, DropMemory, Goto, PCs, TypeInv, ControlInv, StepInv
<1>4. StepInv'
  BY Zenon DEF EndProcess, DropMemory, Goto, Steps, TypeInv, ControlInv, StepInv
<1>5. LogInv'
  BY Zenon DEF EndProcess, DropMemory, Goto, Committed, TypeInv, ControlInv, StepInv, LogInv
<1>6. StagedInv'
  BY Zenon DEF EndProcess, DropMemory, Goto, Pending, Committed, NoBlocks, CacheDatabase, TypeInv, ControlInv, StepInv, StagedInv
<1>7. ChainInv'
  BY Zenon, <1>1 DEF EndProcess, Goto, Pending, Committed, ChainInv
<1>8. BrokerChainInv'
  BY Zenon, <1>1 DEF EndProcess, Goto, Pending, BrokerChainInv
<1>9. SpoolInv'
  <2>1. Told' = Told /\ Released' = Released /\ Previous' = Previous /\ pc' = "off" /\ UNCHANGED <<spool, index, reader,
            log, brokerState>>
    BY Zenon, <1>1 DEF EndProcess, Goto, Told, Released, Previous
  <2>2. Len(spool) <= Released
    BY SMTT(30), <1>1, Lengths DEF SpoolInv
  <2>3. QED
    BY <1>1, <2>1, <2>2 DEF SpoolInv
<1>10. CacheInv'
  BY Zenon DEF EndProcess, DropMemory, Goto, Released, Committed, Previous, CacheDatabase, TypeInv, ControlInv, StepInv, CacheInv
<1>11. DirInv'
  BY Zenon DEF EndProcess, DropMemory, Goto, Recoverable, Good, Pending, Committed, Previous, NoState, NoBlocks, CacheDatabase,
     TypeInv, ControlInv, StepInv, DirInv
<1>12. QED
  BY Zenon, <1>2, <1>3, <1>4, <1>5, <1>6, <1>7, <1>8, <1>9, <1>10, <1>11 DEF IInv

\* The invariant is kept by RepairSpooling.
LEMMA RepairSpoolingKeeps == IInv /\ RepairSpooling => IInv'
<1> SUFFICES ASSUME IInv, RepairSpooling PROVE IInv'
  OBVIOUS
<1>1. TypeInv'
  BY NotNoState, NotPartial, NotEmptied, NoBlocksIs DEF RepairSpooling, Goto, TypeInv
<1>2. ControlInv'
  BY Zenon DEF RepairSpooling, Goto, PCs, TypeInv, ControlInv, StepInv
<1>3. StepInv'
  BY DEF RepairSpooling, Goto, Steps, TypeInv, ControlInv, StepInv
<1>4. LogInv'
  BY Zenon DEF RepairSpooling, Goto, Committed, TypeInv, ControlInv, StepInv, LogInv
<1>5. StagedInv'
  BY Zenon DEF RepairSpooling, Goto, Pending, Committed, NoBlocks, CacheDatabase, TypeInv, ControlInv, StepInv, StagedInv
<1>6. ChainInv'
  BY Zenon DEF RepairSpooling, Goto, Pending, Committed, Previous, NoBlocks, CacheDatabase, TypeInv, ControlInv, StepInv, ChainInv
<1>7. BrokerChainInv'
  BY Zenon DEF RepairSpooling, Goto, Pending, NoBlocks, TypeInv, ControlInv, StepInv, BrokerChainInv
<1>8. SpoolInv'
  <2>1. pc = "off" /\ lock /\ pc' = "loadState" /\ routine' = "repair" /\ UNCHANGED <<index, reader, brokerState, log,
            commitStep, lock>>
    BY Zenon DEF RepairSpooling, Goto
  <2>2. Released' = Released /\ Told' = reader /\ Told = reader
    BY Zenon, <2>1 DEF Released, Told
  <2>3. CASE commitStep = "State_Written"
    <3>1. spool' = spool /\ Len(spool) = Released
      BY <2>3, ReleasedIs DEF RepairSpooling, SpoolInv
    <3>2. \A i \in Told' + 1 .. Len(spool') :
           /\ spool'[i].kind = (IF i % 2 = 1 THEN "score" ELSE "state")
           /\ i <= Released' /\ i % 2 = 0 => spool'[i].to = log'[(i \div 2) + 1]
      BY Zenon, <2>1, <2>2, <3>1 DEF SpoolInv
    <3>3. spool' = [i \in 1 .. Len(spool') |-> spool'[i]]
      BY Zenon, <3>1 DEF SpoolInv
    <3>4. index < Released => spool'[Released'].from = Previous'
      BY Zenon, <2>1, <2>2, <3>1 DEF SpoolInv, Previous
    <3>5. QED
      BY ZenonT(60), <2>1, <2>2, <2>3, <3>1, <3>2, <3>3, <3>4 DEF SpoolInv
  <2>4. CASE commitStep # "State_Written"
    <3>1. index = Released /\ Released \in Nat /\ Len(spool) \in Nat /\ Released <= Len(spool)
      BY SMTT(30), <2>1, <2>4, ReleasedIs DEF SpoolInv
    <3>2. spool' = SubSeq(spool, 1, Released)
      BY <2>4, <3>1 DEF RepairSpooling, Take
    <3>3. Len(spool') = Released /\ spool' = [i \in 1 .. Released |-> spool[i]]
      BY <3>1, <3>2 DEF SpoolInv
    <3>4. \A i \in 1 .. Released : spool'[i] = spool[i]
      BY Zenon, <3>3
    <3>5. spool' = [i \in 1 .. Len(spool') |-> spool'[i]]
      BY Zenon, <3>3
    <3>6. reader \in Nat
      BY Zenon DEF SpoolInv
    <3>7. \A i \in reader + 1 .. Released : i \in reader + 1 .. Len(spool) /\ i \in 1 .. Released
      BY SMTT(30), <3>1, <3>6
    <3>8. \A i \in Told' + 1 .. Len(spool') :
           /\ spool'[i].kind = (IF i % 2 = 1 THEN "score" ELSE "state")
           /\ i <= Released' /\ i % 2 = 0 => spool'[i].to = log'[(i \div 2) + 1]
      BY ZenonT(60), <2>1, <2>2, <3>3, <3>4, <3>7 DEF SpoolInv
    <3>9. QED
      BY Zenon, <2>1, <2>2, <2>4, <3>1, <3>3, <3>5, <3>8 DEF SpoolInv
  <2>5. QED
    BY Zenon, <2>3, <2>4
<1>9. CacheInv'
  BY Zenon DEF RepairSpooling, Goto, Released, Committed, Previous, CacheDatabase, TypeInv, ControlInv, StepInv, CacheInv
<1>10. DirInv'
  BY Zenon DEF RepairSpooling, Goto, Recoverable, Good, Pending, Committed, Previous, NoState, NoBlocks, CacheDatabase,
     TypeInv, ControlInv, StepInv, DirInv
<1>11. QED
  BY <1>1, <1>2, <1>3, <1>4, <1>5, <1>6, <1>7, <1>8, <1>9, <1>10 DEF IInv

\* The invariant is kept by LoadState.
LEMMA LoadStateKeeps == IInv /\ LoadState => IInv'
<1> SUFFICES ASSUME IInv, LoadState PROVE IInv'
  BY Zenon
<1>1. pc = "loadState" /\ routine = "repair" /\ Recoverable /\ saving /\ lock
  BY Zenon DEF LoadState, ControlInv, DirInv, CacheInv
<1>2. LoadedState = stateDir /\ Len(stateDir) >= 2 /\ Len(stateDir) <= Len(chain) /\ Len(chain) \in Nat /\ Len(stateDir) \in Nat
  BY Zenon, <1>1, Loads, Lengths DEF Recoverable
<1>3. StateRecoveryMode(Len(stateDir), Len(chain)) = IF CacheDatabase \/ Len(stateDir) = Len(chain) THEN "None" ELSE "Repair"
  <2>4. \A n \in Nat : n >= 2 => n # 1
    OBVIOUS
  <2>1. Len(stateDir) # 1
    BY <2>4, <1>2, Zenon
  <2>2. ~(Len(stateDir) > Len(chain))
    BY <1>2
  <2>3. QED
    BY <2>1, <2>2, Zenon DEF StateRecoveryMode
<1>4. pc' = "catchUp"
  <2>1. StateRecoveryMode(Len(stateDir), Len(chain)) \notin {"Reseed", "Throw"}
    BY Zenon, <1>3
  <2>2. QED
    BY Zenon, <2>1, <1>2 DEF LoadState, Goto
<1>5. UNCHANGED <<chain, staged, commitStep, stateDir, tmpDir, spool, index, reader, lock, brokerChain, brokerState,
          routine, target, saving, log, config, commits, crashes>>
  BY Zenon DEF LoadState
<1>6. /\ CacheDatabase => memory' = stateDir /\ rocks' = rocks
      /\ ~CacheDatabase => memory' = chain /\ rocks' = [r \in RocksCaches |-> chain]
  <2>1. stateDir \in Seq(Int) /\ chain \in Seq(Int) /\ rocks = [r \in RocksCaches |-> rocks[r]]
    BY Zenon DEF TypeInv
  <2>2. CASE CacheDatabase
    BY Zenon, <2>2, <1>2, <1>3 DEF LoadState, LoadCaches
  <2>3. CASE ~CacheDatabase /\ Len(stateDir) = Len(chain)
    <3>1. IsPrefixOf(stateDir, chain)
      BY Zenon, <2>3, <1>1 DEF Recoverable
    <3>2. stateDir = chain
      BY Zenon, <2>1, <2>3, <3>1, PrefixEqual
    <3>3. QED
      BY Zenon, <2>3, <3>2, <1>2, <1>3 DEF LoadState, LoadCaches
  <2>4. CASE ~CacheDatabase /\ Len(stateDir) # Len(chain)
    <3>1. IsPrefixOf(stateDir, chain)
      BY Zenon, <2>4, <1>1 DEF Recoverable
    <3>2. stateDir \o SubSeq(chain, Len(stateDir) + 1, Len(chain)) = chain
      BY Zenon, <2>1, <3>1, TakeAndRest
    <3>3. QED
      BY Zenon, <2>4, <3>2, <1>2, <1>3 DEF LoadState, LoadCaches
  <2>5. QED
    BY Zenon, <2>2, <2>3, <2>4
<1>7. TypeInv'
  <2>1. memory' \in Seq(Int) /\ rocks' = [r \in RocksCaches |-> rocks'[r]]
    BY Zenon, <1>6 DEF TypeInv
  <2>2. QED
    BY ZenonT(60), <2>1, <1>5 DEF TypeInv
<1>8. ControlInv'
  BY Zenon, <1>1, <1>4, <1>5 DEF ControlInv, PCs
<1>9. StepInv'
  BY Zenon, <1>1, <1>4, <1>5 DEF StepInv
<1>10. LogInv'
  BY Zenon DEF LoadState, LoadCaches, LoadedState, HasSerializedState, StateRecoveryMode, Goto, Committed, TypeInv, ControlInv,
     StepInv, LogInv
<1>11. StagedInv'
  BY Zenon DEF LoadState, LoadCaches, LoadedState, HasSerializedState, StateRecoveryMode, Goto, Pending, Committed, NoBlocks,
     CacheDatabase, TypeInv, ControlInv, StepInv, StagedInv
<1>12. ChainInv'
  BY Zenon DEF LoadState, LoadCaches, LoadedState, HasSerializedState, StateRecoveryMode, Goto, Pending, Committed, Previous,
     NoBlocks, CacheDatabase, TypeInv, ControlInv, StepInv, ChainInv
<1>13. BrokerChainInv'
  BY Zenon DEF LoadState, LoadCaches, LoadedState, HasSerializedState, StateRecoveryMode, Goto, Pending, NoBlocks, TypeInv,
     ControlInv, StepInv, BrokerChainInv
<1>14. SpoolInv'
  BY Zenon DEF LoadState, LoadCaches, LoadedState, HasSerializedState, StateRecoveryMode, Goto, Told, Released, Previous,
     TypeInv, ControlInv, StepInv, SpoolInv
<1>15. CacheInv'
  <2>1. Committed' = Committed /\ Previous' = Previous /\ CacheDatabase' = CacheDatabase /\ Released' = Released
    BY Zenon, <1>5 DEF Committed, Previous, CacheDatabase, Released
  <2>2. CASE CacheDatabase
    <3>1. commitStep # "State_Written" => memory' = Committed
      BY Zenon, <2>2, <1>1, <1>6 DEF Recoverable
    <3>2. \A r \in RocksCaches : rocks'[r] = Committed \/ (index < Released /\ rocks'[r] = Previous)
      BY Zenon, <2>2, <1>6 DEF CacheInv
    <3>3. QED
      BY ZenonT(60), <2>1, <2>2, <3>1, <3>2, <1>1, <1>4, <1>5 DEF CacheInv
  <2>3. CASE ~CacheDatabase
    <3>1. chain \in Seq(Int)
      BY Zenon DEF TypeInv
    <3>2. IsPrefixOf(chain, Committed)
      BY Zenon, <2>3, <3>1, PrefixOfItself DEF ChainInv
    <3>3. Len(chain) >= 2
      BY <1>2
    <3>4. memory' = chain
      BY ZenonT(60), <2>3, <1>6
    <3>5. QED
      BY ZenonT(60), <2>1, <2>3, <3>2, <3>3, <3>4, <1>1, <1>4, <1>5 DEF CacheInv
  <2>4. QED
    BY Zenon, <2>2, <2>3
<1>16. DirInv'
  BY DEF LoadState, LoadCaches, LoadedState, HasSerializedState, StateRecoveryMode, Goto, Recoverable, Good, Pending,
     Committed, Previous, NoState, NoBlocks, CacheDatabase, TypeInv, ControlInv, StepInv, DirInv
<1>17. QED
  BY Zenon, <1>7, <1>8, <1>9, <1>10, <1>11, <1>12, <1>13, <1>14, <1>15, <1>16 DEF IInv

\* The invariant is kept by CatchUp.
LEMMA CatchUpKeeps == IInv /\ CatchUp => IInv'
<1> SUFFICES ASSUME IInv, CatchUp PROVE IInv'
  BY Zenon
<1>1. pc = "catchUp" /\ Told = reader /\ reader \in Nat /\ routine = "repair" /\ lock /\ Len(spool) = Released
          /\ Released \in Nat
  BY ReleasedIs DEF CatchUp, Told, SpoolInv, ControlInv
<1>2. UNCHANGED <<chain, staged, commitStep, stateDir, tmpDir, index, lock, rocks, memory, brokerChain, routine, target,
          saving, log, config, commits, crashes>>
  BY Zenon DEF CatchUp
<1>3. \/ reader = index /\ pc' = "applySpooled" /\ UNCHANGED <<spool, reader, brokerState>>
      \/ /\ reader < index /\ pc' = pc /\ reader' = reader + 1 /\ spool' = [spool EXCEPT ![reader + 1] = Consumed]
         /\ Deliver(spool[reader + 1])
  <2>1. CASE reader = index
    BY Zenon, <2>1 DEF CatchUp, Goto
  <2>2. CASE reader # index
    <3>1. reader < index /\ reader + 1 <= Released /\ index <= Released
      BY <2>2, <1>1 DEF SpoolInv
    <3>2. reader + 1 \in Told + 1 .. Len(spool)
      BY <3>1, <1>1
    <3>3. spool[reader + 1].kind = (IF (reader + 1) % 2 = 1 THEN "score" ELSE "state")
      BY Zenon, <3>2 DEF SpoolInv
    <3>4. spool[reader + 1] # Consumed
      BY <3>3 DEF Consumed
    <3>5. QED
      BY Zenon, <2>2, <3>1, <3>4 DEF CatchUp
  <2>3. QED
    BY Zenon, <2>1, <2>2
<1>4. TypeInv'
  BY Zenon, <1>2 DEF TypeInv
<1>5. ControlInv'
  BY Zenon, <1>1, <1>2, <1>3 DEF ControlInv, PCs
<1>6. StepInv'
  BY Zenon, <1>1, <1>2, <1>3 DEF StepInv
<1>7. LogInv'
  BY Zenon DEF CatchUp, Goto, Deliver, Committed, TypeInv, ControlInv, StepInv, LogInv
<1>8. StagedInv'
  BY Zenon DEF CatchUp, Goto, Deliver, Pending, Committed, NoBlocks, CacheDatabase, TypeInv, ControlInv, StepInv, StagedInv
<1>9. ChainInv'
  BY Zenon DEF CatchUp, Goto, Deliver, Pending, Committed, Previous, NoBlocks, CacheDatabase, TypeInv, ControlInv, StepInv, ChainInv
<1>10. BrokerChainInv'
  BY Zenon DEF CatchUp, Goto, Deliver, Pending, NoBlocks, TypeInv, ControlInv, StepInv, BrokerChainInv
<1>11. SpoolInv'
  <2>1. CASE reader = index /\ pc' = "applySpooled" /\ UNCHANGED <<spool, reader, brokerState>>
    <3>1. Told' = Told /\ Released' = Released /\ Previous' = Previous
      BY Zenon, <2>1, <1>1, <1>2 DEF Told, Released, Previous
    <3>2. QED
      BY ZenonT(60), <2>1, <3>1, <1>1, <1>2 DEF SpoolInv
  <2>2. CASE /\ reader < index /\ pc' = pc /\ reader' = reader + 1 /\ spool' = [spool EXCEPT ![reader + 1] = Consumed]
             /\ Deliver(spool[reader + 1])
    <3>2. Told < Released /\ reader' \in Nat /\ reader' <= index
      BY <2>2, <1>1 DEF SpoolInv
    <3>3. brokerState' = log[((Told + 1) \div 2) + 1]
      BY Zenon, <2>2, <3>2, <1>1, Delivered
    <3>4. /\ Len(spool') = Len(spool)
          /\ spool' = [i \in 1 .. Len(spool') |-> spool'[i]]
          /\ \A i \in 1 .. Len(spool) : i # reader + 1 => spool'[i] = spool[i]
      BY Zenon, <2>2, <1>1, OthersStay
    <3>5. Told' = reader + 1 /\ Released' = Released
      BY Zenon, <2>2, <1>1, <1>2 DEF Told, Released
    <3>6. \A i \in reader + 2 .. Len(spool) : i \in Told + 1 .. Len(spool) /\ i # reader + 1 /\ i \in 1 .. Len(spool)
      BY <1>1
    <3>7. \A i \in Told' + 1 .. Len(spool') :
           /\ spool'[i].kind = (IF i % 2 = 1 THEN "score" ELSE "state")
           /\ i <= Released' /\ i % 2 = 0 => spool'[i].to = log'[(i \div 2) + 1]
      <4>1. Told' + 1 = reader + 2
        BY SMTT(30), <3>5, <1>1
      <4>2. \A i \in Told + 1 .. Len(spool) :
           /\ spool[i].kind = (IF i % 2 = 1 THEN "score" ELSE "state")
           /\ i <= Released /\ i % 2 = 0 => spool[i].to = log[(i \div 2) + 1]
        BY Zenon DEF SpoolInv
      <4>3. \A i \in reader + 2 .. Len(spool) : spool'[i] = spool[i]
        BY Zenon, <3>4, <3>6
      <4>4. QED
        BY ZenonT(60), <4>1, <4>2, <4>3, <3>4, <3>5, <3>6, <1>2
    <3>8. brokerState' = log'[(Told' \div 2) + 1]
      BY Zenon, <3>3, <3>5, <1>1, <1>2
    <3>9. index < Released => spool'[Released] = spool[Released]
      BY <2>2, <3>4, <1>1 DEF SpoolInv
    <3>10. Previous' = Previous /\ Committed' = Committed
      BY Zenon, <1>2 DEF Previous, Committed
    <3>11. QED
      BY ZenonT(60), <2>2, <3>2, <3>4, <3>5, <3>7, <3>8, <3>9, <3>10, <1>1, <1>2 DEF SpoolInv
  <2>3. QED
    BY Zenon, <2>1, <2>2, <1>3
<1>12. CacheInv'
  BY Zenon DEF CatchUp, Goto, Deliver, Released, Committed, Previous, CacheDatabase, TypeInv, ControlInv, StepInv, CacheInv
<1>13. DirInv'
  BY ZenonT(60) DEF CatchUp, Goto, Deliver, Recoverable, Good, Pending, Committed, Previous, NoState, NoBlocks, CacheDatabase,
     TypeInv, ControlInv, StepInv, DirInv
<1>14. QED
  BY Zenon, <1>4, <1>5, <1>6, <1>7, <1>8, <1>9, <1>10, <1>11, <1>12, <1>13 DEF IInv

\* The invariant is kept by ApplySpooled.
LEMMA ApplySpooledKeeps == IInv /\ ApplySpooled => IInv'
<1> SUFFICES ASSUME IInv, ApplySpooled PROVE IInv'
  BY Zenon
<1>1. pc = "applySpooled" /\ Told = index /\ index \in Nat /\ routine = "repair" /\ lock /\ saving
          /\ Len(spool) = Released /\ Released \in Nat /\ Released % 2 = 0 /\ index <= Released
                 /\ Released - 2 <= index /\ reader \in Nat /\ reader <= index
  BY ReleasedIs DEF ApplySpooled, Told, SpoolInv, ControlInv, CacheInv
<1>2. UNCHANGED <<chain, staged, commitStep, stateDir, tmpDir, reader, lock, memory, brokerChain, routine, target,
          saving, log, config, commits, crashes>>
  BY Zenon DEF ApplySpooled
<1>3. \/ index = Released /\ pc' = "reindex" /\ UNCHANGED <<spool, index, brokerState, rocks>>
      \/ /\ index < Released /\ pc' = pc /\ index' = index + 1 /\ spool' = [spool EXCEPT ![index + 1] = Consumed]
         /\ Deliver(spool[index + 1])
         /\ rocks' = IF CacheDatabase /\ spool[index + 1].kind = "state" THEN [r \in RocksCaches |-> Repaired(rocks[r],
                spool[index + 1])] ELSE rocks
  <2>1. CASE index = Len(spool)
    BY Zenon, <2>1, <1>1 DEF ApplySpooled, Goto
  <2>2. CASE index # Len(spool)
    <3>1. index < Released
      BY <2>2, <1>1
    <3>2. QED
      BY Zenon, <2>2, <3>1, <1>1 DEF ApplySpooled
  <2>3. QED
    BY Zenon, <2>1, <2>2
<1>4. Released' = Released /\ Committed' = Committed /\ Previous' = Previous /\ CacheDatabase' = CacheDatabase
  BY Zenon, <1>2 DEF Released, Committed, Previous, CacheDatabase
<1>5. TypeInv'
  <2>1. rocks' = [r \in RocksCaches |-> rocks'[r]]
    <3>1. rocks = [r \in RocksCaches |-> rocks[r]]
      BY Zenon DEF TypeInv
    <3>2. QED
      BY Zenon, <3>1, <1>3
  <2>2. QED
    BY Zenon, <2>1, <1>2 DEF TypeInv
<1>6. ControlInv'
  BY Zenon, <1>1, <1>2, <1>3 DEF ControlInv, PCs
<1>7. StepInv'
  BY Zenon, <1>1, <1>2, <1>3 DEF StepInv
<1>8. LogInv'
  BY Zenon DEF ApplySpooled, Goto, Deliver, Repaired, Committed, TypeInv, ControlInv, StepInv, LogInv
<1>9. StagedInv'
  BY Zenon DEF ApplySpooled, Goto, Deliver, Repaired, Pending, Committed, NoBlocks, CacheDatabase, TypeInv, ControlInv,
     StepInv, StagedInv
<1>10. ChainInv'
  BY Zenon DEF ApplySpooled, Goto, Deliver, Repaired, Pending, Committed, Previous, NoBlocks, CacheDatabase, TypeInv,
     ControlInv, StepInv, ChainInv
<1>11. BrokerChainInv'
  BY Zenon DEF ApplySpooled, Goto, Deliver, Repaired, Pending, NoBlocks, TypeInv, ControlInv, StepInv, BrokerChainInv
<1>12. SpoolInv'
  <2>1. CASE index = Released /\ pc' = "reindex" /\ UNCHANGED <<spool, index, brokerState, rocks>>
    <3>1. Told' = Told
      BY Zenon, <2>1, <1>1, <1>2 DEF Told
    <3>2. QED
      BY ZenonT(60), <2>1, <3>1, <1>1, <1>2, <1>4 DEF SpoolInv
  <2>2. CASE /\ index < Released /\ pc' = pc /\ index' = index + 1 /\ spool' = [spool EXCEPT ![index + 1] = Consumed]
             /\ Deliver(spool[index + 1])
    <3>2. Told < Released /\ index' \in Nat /\ index' <= Released /\ Released - 2 <= index' /\ reader <= index'
      BY <2>2, <1>1
    <3>3. brokerState' = log[((Told + 1) \div 2) + 1]
      BY Zenon, <2>2, <3>2, <1>1, Delivered
    <3>4. /\ Len(spool') = Len(spool)
          /\ spool' = [i \in 1 .. Len(spool') |-> spool'[i]]
          /\ \A i \in 1 .. Len(spool) : i # index + 1 => spool'[i] = spool[i]
      BY Zenon, <2>2, <1>1, OthersStay
    <3>5. Told' = index + 1 /\ Released' = Released
      BY Zenon, <2>2, <1>1, <1>2 DEF Told, Released
    <3>6. \A i \in index + 2 .. Len(spool) : i \in Told + 1 .. Len(spool) /\ i # index + 1 /\ i \in 1 .. Len(spool)
      BY <1>1
    <3>7. \A i \in Told' + 1 .. Len(spool') :
           /\ spool'[i].kind = (IF i % 2 = 1 THEN "score" ELSE "state")
           /\ i <= Released' /\ i % 2 = 0 => spool'[i].to = log'[(i \div 2) + 1]
      <4>1. Told' + 1 = index + 2
        BY <3>5, <1>1
      <4>2. \A i \in Told + 1 .. Len(spool) :
           /\ spool[i].kind = (IF i % 2 = 1 THEN "score" ELSE "state")
           /\ i <= Released /\ i % 2 = 0 => spool[i].to = log[(i \div 2) + 1]
        BY Zenon DEF SpoolInv
      <4>3. \A i \in index + 2 .. Len(spool) : spool'[i] = spool[i]
        BY Zenon, <3>4, <3>6
      <4>4. QED
        BY ZenonT(60), <4>1, <4>2, <4>3, <3>4, <3>5, <3>6, <1>2
    <3>8. brokerState' = log'[(Told' \div 2) + 1]
      BY Zenon, <3>3, <3>5, <1>1, <1>2
    <3>9. index' < Released => spool'[Released] = spool[Released]
      BY <2>2, <3>4, <1>1
    <3>10. Previous' = Previous /\ Committed' = Committed
      BY Zenon, <1>2 DEF Previous, Committed
    <3>11. index < Released => commitStep = "State_Written" /\ spool[Released].from = Previous
      BY Zenon, <1>1 DEF SpoolInv
    <3>12. QED
      BY ZenonT(60), <2>2, <3>2, <3>4, <3>5, <3>7, <3>8, <3>9, <3>10, <3>11, <1>1, <1>2 DEF SpoolInv
  <2>3. QED
    BY Zenon, <2>1, <2>2, <1>3
<1>13. CacheInv'
  <2>1. CacheDatabase => \A r \in RocksCaches : rocks[r] = Committed \/ (index < Released /\ rocks[r] = Previous)
    BY Zenon DEF CacheInv
  <2>2. CASE index = Released /\ pc' = "reindex" /\ UNCHANGED <<spool, index, brokerState, rocks>>
    BY Zenon, <2>2, <1>1, <1>2, <1>4 DEF CacheInv
  <2>3. CASE /\ index < Released /\ pc' = pc /\ index' = index + 1
             /\ rocks' = IF CacheDatabase /\ spool[index + 1].kind = "state"
                    THEN [r \in RocksCaches |-> Repaired(rocks[r], spool[index + 1])] ELSE rocks
    <3>1. index + 1 \in Told + 1 .. Len(spool)
      BY <2>3, <1>1
    <3>2. spool[index + 1].kind = (IF (index + 1) % 2 = 1 THEN "score" ELSE "state")
      BY Zenon, <3>1 DEF SpoolInv
    <3>3. (index + 1) % 2 = 0 \/ (index + 1) % 2 = 1
      BY <1>1
    <3>4. CASE (index + 1) % 2 = 1
      <4>1. index' < Released /\ rocks' = rocks
        <5>1. rocks' = rocks
          BY Zenon, <2>3, <3>2, <3>4
        <5>2. index + 1 # Released
          BY <3>4, <1>1
        <5>3. index + 1 < Released
          BY SMTT(30), <5>2, <2>3, <1>1
        <5>4. QED
          BY Zenon, <5>1, <5>3, <2>3
      <4>2. QED
        BY Zenon, <2>1, <2>3, <4>1, <1>1, <1>2, <1>4 DEF CacheInv
    <3>5. CASE (index + 1) % 2 = 0
      <4>1. index + 1 = Released
        BY SMTT(30), <2>3, <3>5, <1>1
      <4>2. spool[Released].to = Committed /\ spool[Released].from = Previous
        <5>1. spool[Released].to = log[(Released \div 2) + 1]
          BY Zenon, <3>1, <4>1, <1>1 DEF SpoolInv
        <5>2. (Released \div 2) + 1 = Len(log)
          BY SMTT(30), ReleasedIs, Lengths
        <5>3. QED
          BY Zenon, <5>1, <5>2, <2>3 DEF SpoolInv, Committed
      <4>3. CacheDatabase => \A r \in RocksCaches : rocks'[r] = Committed
        <5>1. \A r \in RocksCaches : CacheDatabase => Repaired(rocks[r], spool[Released]) = Committed
          BY <2>1, <4>2 DEF Repaired
        <5>2. CacheDatabase => rocks' = [r \in RocksCaches |-> Repaired(rocks[r], spool[Released])]
          BY <2>3, <3>2, <3>5, <4>1
        <5>3. QED
          BY Zenon, <5>1, <5>2
      <4>4. QED
        BY ZenonT(60), <2>3, <4>3, <1>1, <1>2, <1>4 DEF CacheInv
    <3>6. QED
      BY Zenon, <3>3, <3>4, <3>5
  <2>4. QED
    BY Zenon, <2>2, <2>3, <1>3
<1>14. DirInv'
  BY Zenon DEF ApplySpooled, Goto, Deliver, Repaired, Recoverable, Good, Pending, Committed, Previous, NoState, NoBlocks,
     CacheDatabase, TypeInv, ControlInv, StepInv, DirInv
<1>15. QED
  BY ZenonT(60), <1>5, <1>6, <1>7, <1>8, <1>9, <1>10, <1>11, <1>12, <1>13, <1>14 DEF IInv

\* The invariant is kept by Reindex.
LEMMA ReindexKeeps == IInv /\ Reindex => IInv'
<1> SUFFICES ASSUME IInv, Reindex PROVE IInv'
  BY Zenon
<1>1. TypeInv'
  BY Zenon, NotNoState, NotPartial, NotEmptied, NoBlocksIs DEF Reindex, Goto, TypeInv
<1>2. ControlInv'
  BY SMTT(30) DEF Reindex, Goto, PCs, TypeInv, ControlInv, StepInv
<1>3. StepInv'
  BY Zenon DEF Reindex, Goto, Steps, TypeInv, ControlInv, StepInv
<1>4. LogInv'
  BY Zenon DEF Reindex, Goto, Committed, TypeInv, ControlInv, StepInv, LogInv
<1>5. StagedInv'
  BY Zenon DEF Reindex, Goto, Pending, Committed, NoBlocks, CacheDatabase, TypeInv, ControlInv, StepInv, StagedInv
<1>6. ChainInv'
  BY Zenon DEF Reindex, Goto, Pending, Committed, Previous, NoBlocks, CacheDatabase, TypeInv, ControlInv, StepInv, ChainInv
<1>7. BrokerChainInv'
  BY Zenon DEF Reindex, Goto, Pending, NoBlocks, TypeInv, ControlInv, StepInv, BrokerChainInv
<1>8. SpoolInv'
  BY Zenon DEF Reindex, Goto, Told, Released, Previous, TypeInv, ControlInv, StepInv, SpoolInv
<1>9. CacheInv'
  BY Zenon DEF Reindex, Goto, Released, Committed, Previous, CacheDatabase, TypeInv, ControlInv, StepInv, CacheInv
<1>10. DirInv'
  <2>1. pc = "reindex" /\ saving /\ routine = "repair" /\ Recoverable
    BY Zenon DEF Reindex, CacheInv, DirInv, ControlInv
  <2>2. UNCHANGED <<chain, staged, commitStep, stateDir, routine, log, config, saving, lock>>
    BY Zenon DEF Reindex
  <2>3. Committed' = Committed /\ CacheDatabase' = CacheDatabase /\ Pending' = Pending
    BY Zenon, <2>2 DEF Committed, CacheDatabase, Pending
  <2>4. CASE commitStep = "State_Written"
    <3>1. tmpDir' = tmpDir /\ pc' = "moveState"
      BY Zenon, <2>4 DEF Reindex, Goto
    <3>2. Recoverable'
      BY Zenon, <2>1, <2>2, <2>3, <3>1 DEF Recoverable, Good
    <3>3. QED
      BY Zenon, <2>1, <2>2, <2>3, <3>1, <3>2 DEF DirInv
  <2>5. CASE commitStep # "State_Written"
    <3>1. pc' = "finalize"
      BY Zenon, <2>5 DEF Reindex, Goto
    <3>2. Recoverable'
      BY Zenon, <2>1, <2>2, <2>3, <2>5 DEF Recoverable
    <3>3. CacheDatabase => stateDir' = Committed'
      BY ZenonT(60), <2>1, <2>2, <2>3, <2>5 DEF Recoverable
    <3>4. QED
      BY ZenonT(60), <2>1, <2>2, <2>3, <2>5, <3>1, <3>2, <3>3 DEF DirInv
  <2>6. QED
    BY Zenon, <2>4, <2>5
<1>11. QED
  BY Zenon, <1>1, <1>2, <1>3, <1>4, <1>5, <1>6, <1>7, <1>8, <1>9, <1>10 DEF IInv

\* The invariant is kept by MoveSupplementalDataFiles.
LEMMA MoveSupplementalDataFilesKeeps == IInv /\ MoveSupplementalDataFiles => IInv'
<1> SUFFICES ASSUME IInv, MoveSupplementalDataFiles PROVE IInv'
  OBVIOUS
<1>1. TypeInv'
  BY Zenon, NotNoState, NotPartial, NotEmptied, NoBlocksIs DEF MoveSupplementalDataFiles, PurgeStateDirectory, Goto, TypeInv
<1>2. ControlInv'
  BY Zenon DEF MoveSupplementalDataFiles, PurgeStateDirectory, Goto, PCs, TypeInv, ControlInv, StepInv
<1>3. StepInv'
  BY Zenon DEF MoveSupplementalDataFiles, PurgeStateDirectory, Goto, Steps, TypeInv, ControlInv, StepInv
<1>4. LogInv'
  BY Zenon DEF MoveSupplementalDataFiles, PurgeStateDirectory, Goto, Committed, TypeInv, ControlInv, StepInv, LogInv
<1>5. StagedInv'
  BY Zenon DEF MoveSupplementalDataFiles, PurgeStateDirectory, Goto, Pending, Committed, NoBlocks, CacheDatabase, TypeInv,
     ControlInv, StepInv, StagedInv
<1>6. ChainInv'
  BY Zenon DEF MoveSupplementalDataFiles, PurgeStateDirectory, Goto, Pending, Committed, Previous, NoBlocks, CacheDatabase,
     TypeInv, ControlInv, StepInv, ChainInv
<1>7. BrokerChainInv'
  BY Zenon DEF MoveSupplementalDataFiles, PurgeStateDirectory, Goto, Pending, NoBlocks, TypeInv, ControlInv, StepInv, BrokerChainInv
<1>8. SpoolInv'
  BY Zenon DEF MoveSupplementalDataFiles, PurgeStateDirectory, Goto, Told, Released, Previous, TypeInv, ControlInv, StepInv, SpoolInv
<1>9. CacheInv'
  BY Zenon DEF MoveSupplementalDataFiles, PurgeStateDirectory, Goto, Released, Committed, Previous, CacheDatabase, TypeInv,
     ControlInv, StepInv, CacheInv
<1>10. DirInv'
  BY Zenon DEF MoveSupplementalDataFiles, PurgeStateDirectory, Goto, Recoverable, Good, Pending, Committed, Previous, NoState,
     NoBlocks, CacheDatabase, TypeInv, ControlInv, StepInv, DirInv
<1>11. QED
  BY <1>1, <1>2, <1>3, <1>4, <1>5, <1>6, <1>7, <1>8, <1>9, <1>10 DEF IInv

\* The invariant is kept by MoveStaged.
LEMMA MoveStagedKeeps == IInv /\ MoveStaged => IInv'
<1> SUFFICES ASSUME IInv, MoveStaged PROVE IInv'
  BY Zenon
<1>1. pc = "moveStaged" /\ routine = "repair" /\ commitStep = "State_Written" /\ lock /\ UNCHANGED <<chain, staged,
          commitStep, stateDir, tmpDir, lock, routine, log, config>>
  BY Zenon DEF MoveStaged, ControlInv, StepInv
<1>2. IF staged = NoBlocks THEN pc' = "finalize" /\ saving' = ~CacheDatabase ELSE pc' = "moveBlocks" /\ saving' = saving
  BY Zenon DEF MoveStaged, Goto
<1>3. TypeInv'
  BY Zenon DEF MoveStaged, Goto, NoState, Partial, Emptied, NoBlocks, Steps, Blk, TypeInv, ControlInv, StepInv
<1>4. ControlInv'
  BY ZenonT(60) DEF MoveStaged, Goto, PCs, TypeInv, ControlInv, StepInv
<1>5. StepInv'
  BY Zenon DEF MoveStaged, Goto, Steps, TypeInv, ControlInv, StepInv
<1>6. LogInv'
  BY Zenon DEF MoveStaged, Goto, Committed, TypeInv, ControlInv, StepInv, LogInv
<1>7. StagedInv'
  BY Zenon DEF MoveStaged, Goto, Pending, Committed, NoBlocks, CacheDatabase, TypeInv, ControlInv, StepInv, StagedInv
<1>8. ChainInv'
  BY Zenon DEF MoveStaged, Goto, Pending, Committed, Previous, NoBlocks, CacheDatabase, TypeInv, ControlInv, StepInv, ChainInv
<1>9. BrokerChainInv'
  BY Zenon DEF MoveStaged, Goto, Pending, NoBlocks, TypeInv, ControlInv, StepInv, BrokerChainInv
<1>10. SpoolInv'
  BY Zenon DEF MoveStaged, Goto, Told, Released, Previous, TypeInv, ControlInv, StepInv, SpoolInv
<1>11. CacheInv'
  BY ZenonT(60) DEF MoveStaged, Goto, Released, Committed, Previous, CacheDatabase, TypeInv, ControlInv, StepInv, CacheInv
<1>12. DirInv'
  <2>1. CASE staged # NoBlocks
    <3>1. Committed' = Committed /\ CacheDatabase' = CacheDatabase /\ Pending' = Pending
      BY Zenon, <1>1 DEF Committed, CacheDatabase, Pending
    <3>2. QED
      BY ZenonT(60), <2>1, <3>1, <1>1, <1>2 DEF DirInv
  <2>2. CASE staged = NoBlocks
    <3>1. tmpDir = NoState /\ (IF CacheDatabase THEN stateDir = Committed ELSE Len(stateDir) >= 2 /\ IsPrefixOf(stateDir,
              chain))
      BY Zenon, <1>1 DEF DirInv
    <3>2. chain = Committed /\ ~Pending /\ staged = NoBlocks
      BY Zenon, <2>2, <1>1 DEF ChainInv, Pending, StagedInv
    <3>3. chain \in Seq(Int) /\ stateDir \in Seq(Int) /\ Len(Committed) >= 2
      BY Zenon, Lengths DEF TypeInv
    <3>4. Len(stateDir) >= 2 /\ Len(stateDir) <= Len(chain)
      BY <3>1, <3>2, <3>3 DEF IsPrefixOf
    <3>5. Committed' = Committed /\ CacheDatabase' = CacheDatabase /\ ~Pending'
      BY Zenon, <3>2, <1>1 DEF Committed, CacheDatabase, Pending
    <3>6. Recoverable'
      BY ZenonT(60), <3>1, <3>2, <3>4, <3>5, <1>1 DEF Recoverable, Good
    <3>7. QED
      BY ZenonT(60), <2>2, <3>1, <3>5, <3>6, <1>1, <1>2 DEF DirInv
  <2>3. QED
    BY Zenon, <2>1, <2>2
<1>13. QED
  BY Zenon, <1>3, <1>4, <1>5, <1>6, <1>7, <1>8, <1>9, <1>10, <1>11, <1>12 DEF IInv

\* The invariant is kept by Reapply.
LEMMA ReapplyKeeps == IInv /\ Reapply => IInv'
<1> SUFFICES ASSUME IInv, Reapply PROVE IInv'
  OBVIOUS
<1>1. pc = "reapply" /\ routine = "repair" /\ commitStep = "State_Written" /\ lock /\ UNCHANGED <<chain, staged,
          commitStep, stateDir, tmpDir, lock, routine, log, config, memory, index>>
  BY Zenon DEF Reapply, ControlInv, StepInv
<1>2. pc' = "finalize" /\ saving' = ~CacheDatabase
  BY Zenon DEF Reapply, Goto
<1>3. TypeInv'
  BY Zenon DEF Reapply, Goto, NoState, Partial, Emptied, NoBlocks, Steps, Blk, TypeInv, ControlInv, StepInv
<1>4. ControlInv'
  BY Zenon DEF Reapply, Goto, PCs, TypeInv, ControlInv, StepInv
<1>5. StepInv'
  BY Zenon DEF Reapply, Goto, Steps, TypeInv, ControlInv, StepInv
<1>6. LogInv'
  BY Zenon DEF Reapply, Goto, Committed, TypeInv, ControlInv, StepInv, LogInv
<1>7. StagedInv'
  BY Zenon DEF Reapply, Goto, Pending, Committed, NoBlocks, CacheDatabase, TypeInv, ControlInv, StepInv, StagedInv
<1>8. ChainInv'
  BY Zenon DEF Reapply, Goto, Pending, Committed, Previous, NoBlocks, CacheDatabase, TypeInv, ControlInv, StepInv, ChainInv
<1>9. BrokerChainInv'
  BY Zenon DEF Reapply, Goto, Pending, NoBlocks, TypeInv, ControlInv, StepInv, BrokerChainInv
<1>10. SpoolInv'
  BY Zenon DEF Reapply, Goto, Told, Released, Previous, TypeInv, ControlInv, StepInv, SpoolInv
<1>11. CacheInv'
  <2>1. staged = NoBlocks /\ index = Released
    BY Zenon, <1>1 DEF StagedInv, SpoolInv
  <2>2. chain = Committed
    BY Zenon, <2>1 DEF ChainInv, Pending
  <2>3. Released \in Nat
    BY Zenon, Lengths
  <2>4. CacheDatabase => \A r \in RocksCaches : rocks[r] = Committed
    BY <2>1, <2>3 DEF CacheInv
  <2>5. CacheDatabase => \A r \in RocksCaches : rocks'[r] = Committed
    <3>1. CASE VerifiableState
      BY Zenon, <2>2, <2>4, <3>1 DEF Reapply
    <3>2. CASE ~VerifiableState
      BY Zenon, <2>4, <3>2 DEF Reapply
    <3>3. QED
      BY Zenon, <3>1, <3>2
  <2>6. Committed' = Committed /\ CacheDatabase' = CacheDatabase
    BY Zenon, <1>1 DEF Committed, CacheDatabase
  <2>7. ~CacheDatabase => Len(memory) >= 2 /\ IsPrefixOf(memory, Committed)
    BY Zenon, <1>1 DEF CacheInv
  <2>8. QED
    BY Zenon, <2>5, <2>6, <2>7, <1>1, <1>2 DEF CacheInv
<1>12. DirInv'
  <2>2. staged = NoBlocks
    BY Zenon, <1>1 DEF StagedInv
  <2>3. DirInv'
    <3>1. tmpDir = NoState /\ (IF CacheDatabase THEN stateDir = Committed ELSE Len(stateDir) >= 2 /\ IsPrefixOf(stateDir,
              chain))
      BY Zenon, <1>1 DEF DirInv
    <3>2. chain = Committed /\ ~Pending /\ staged = NoBlocks
      BY ZenonT(60), <2>2, <1>1 DEF ChainInv, Pending, StagedInv
    <3>3. chain \in Seq(Int) /\ stateDir \in Seq(Int) /\ Len(Committed) >= 2
      BY Lengths DEF TypeInv
    <3>4. Len(stateDir) >= 2 /\ Len(stateDir) <= Len(chain)
      BY <3>1, <3>2, <3>3 DEF IsPrefixOf
    <3>5. Committed' = Committed /\ CacheDatabase' = CacheDatabase /\ ~Pending'
      BY Zenon, <3>2, <1>1 DEF Committed, CacheDatabase, Pending
    <3>6. Recoverable'
      BY Zenon, <3>1, <3>2, <3>4, <3>5, <1>1 DEF Recoverable, Good
    <3>7. QED
      BY ZenonT(60), <2>2, <3>1, <3>5, <3>6, <1>1, <1>2 DEF DirInv
  <2>4. QED
    BY Zenon, <2>3
<1>13. QED
  BY <1>3, <1>4, <1>5, <1>6, <1>7, <1>8, <1>9, <1>10, <1>11, <1>12 DEF IInv

\* The invariant is kept by ResetSystemState.
LEMMA ResetSystemStateKeeps == IInv /\ ResetSystemState => IInv'
<1> SUFFICES ASSUME IInv, ResetSystemState PROVE IInv'
  BY Zenon
<1>1. staged = NoBlocks /\ index = Released /\ pc = "finalize"
  BY Zenon DEF ResetSystemState, StagedInv, SpoolInv
<1>2. TypeInv'
  BY Zenon DEF ResetSystemState, Goto, NoState, Partial, Emptied, NoBlocks, Steps, Blk, TypeInv, ControlInv, StepInv
<1>3. ControlInv'
  BY Zenon DEF ResetSystemState, Goto, PCs, TypeInv, ControlInv, StepInv
<1>4. StepInv'
  BY Zenon DEF ResetSystemState, Goto, Steps, TypeInv, ControlInv, StepInv
<1>5. LogInv'
  BY Zenon DEF ResetSystemState, Goto, Committed, TypeInv, ControlInv, StepInv, LogInv
<1>6. StagedInv'
  BY Zenon DEF ResetSystemState, Goto, Pending, Committed, NoBlocks, CacheDatabase, TypeInv, ControlInv, StepInv, StagedInv
<1>7. ChainInv'
  BY Zenon, <1>1 DEF ResetSystemState, Goto, Pending, Committed, ChainInv
<1>8. BrokerChainInv'
  BY Zenon, <1>1 DEF ResetSystemState, Goto, Pending, BrokerChainInv
<1>9. SpoolInv'
  <2>1. /\ UNCHANGED <<spool, index, reader, log, brokerState, chain, target, lock, routine>>
        /\ pc = "finalize" /\ pc' = "recovered"
    BY Zenon DEF ResetSystemState, Goto, spoolVars, brokerVars
  <2>2. Told' = Told /\ Released' = Released /\ Previous' = Previous
    BY Zenon, <2>1 DEF Told, Released, Previous
  <2>3. pc \notin Preparing /\ pc # "off" /\ pc # "applySpooled" /\ pc # "publishIndex"
    BY Zenon, <2>1 DEF Preparing
  <2>4. /\ index = Released /\ ~(Len(spool) > Released) /\ ~(index < Released)
        /\ index % 2 = 0 /\ reader <= index
    BY <1>1, <2>3 DEF SpoolInv
  <2>5. pc' \notin {"staged", "blocksWritten", "scoreSpooled", "stateSpooled", "savingSummary", "stateSaved"}
    BY Zenon, <2>1
  <2>6. /\ reader' \in Nat /\ index' \in Nat /\ reader' <= index' /\ index' <= Released' /\ Released' <= Len(spool')
        /\ Released' - 2 <= index'
        /\ spool' = [i \in 1 .. Len(spool') |-> spool'[i]]
        /\ brokerState' = log'[(Told' \div 2) + 1]
    BY Zenon, <2>1, <2>2 DEF SpoolInv
  <2>7. \A i \in Told' + 1 .. Len(spool') :
        /\ spool'[i].kind = (IF i % 2 = 1 THEN "score" ELSE "state")
        /\ i <= Released' /\ i % 2 = 0 => spool'[i].to = log'[(i \div 2) + 1]
    BY Zenon, <2>1, <2>2 DEF SpoolInv
  <2>8. index' = Released' /\ ~(Len(spool') > Released') /\ ~(index' < Released') /\ index' % 2 = 0
    BY Zenon, <2>1, <2>2, <2>4
  <2> QED
    BY Zenon, <2>5, <2>6, <2>7, <2>8 DEF SpoolInv
<1>10. CacheInv'
  BY Zenon DEF ResetSystemState, Goto, Released, Committed, Previous, CacheDatabase, TypeInv, ControlInv, StepInv, CacheInv
<1>11. DirInv'
  <2>1. Recoverable /\ (~saving => tmpDir = NoState) /\ chain = Committed
    BY Zenon, <1>1 DEF DirInv, ChainInv, Pending
  <2>2. CacheDatabase => stateDir = Committed
    BY Zenon, <1>1 DEF DirInv
  <2>3. Recoverable'
    BY ZenonT(60), <2>1, <2>2 DEF ResetSystemState, Goto, Recoverable, Committed, CacheDatabase
  <2>4. QED
    BY Zenon, <2>1, <2>2, <2>3, <1>1 DEF ResetSystemState, Goto, DirInv, Pending, CacheDatabase, Committed
<1>12. QED
  BY Zenon, <1>2, <1>3, <1>4, <1>5, <1>6, <1>7, <1>8, <1>9, <1>10, <1>11 DEF IInv

\* The invariant is kept by BrokerConsume.
LEMMA BrokerConsumeKeeps == IInv /\ BrokerConsume => IInv'
<1> SUFFICES ASSUME IInv, BrokerConsume PROVE IInv'
  OBVIOUS
<1>1. Told = reader /\ reader \in Nat /\ Len(spool) \in Nat /\ Released \in Nat /\ Released <= Len(spool)
          /\ index \in Nat /\ index <= Released
  <2>1. pc \notin {"applySpooled", "reindex"}
    BY Zenon DEF BrokerConsume, ControlInv
  <2>2. Told = reader
    BY Zenon, <2>1 DEF Told
  <2>3. Len(spool) \in Nat
    BY DEF SpoolInv
  <2> QED
    BY Zenon, <2>2, <2>3, ReleasedIs DEF SpoolInv
<1>2. UNCHANGED <<chain, staged, commitStep, stateDir, tmpDir, index, lock, rocks, memory, brokerChain, routine, pc,
          target, saving, log, config, commits, crashes>>
  BY Zenon DEF BrokerConsume
<1>3. TypeInv'
  BY ZenonT(60) DEF BrokerConsume, Deliver, NoState, Partial, Emptied, NoBlocks, Steps, Blk, TypeInv, ControlInv, StepInv
<1>4. ControlInv'
  BY ZenonT(60) DEF BrokerConsume, Deliver, PCs, TypeInv, ControlInv, StepInv
<1>5. StepInv'
  BY Zenon DEF BrokerConsume, Deliver, Steps, TypeInv, ControlInv, StepInv
<1>6. LogInv'
  BY Zenon DEF BrokerConsume, Deliver, Committed, TypeInv, ControlInv, StepInv, LogInv
<1>7. StagedInv'
  BY Zenon DEF BrokerConsume, Deliver, Pending, Committed, NoBlocks, CacheDatabase, TypeInv, ControlInv, StepInv, StagedInv
<1>8. ChainInv'
  BY ZenonT(60) DEF BrokerConsume, Deliver, Pending, Committed, Previous, NoBlocks, CacheDatabase, TypeInv, ControlInv, StepInv, ChainInv
<1>9. BrokerChainInv'
  BY Zenon DEF BrokerConsume, Deliver, Pending, NoBlocks, TypeInv, ControlInv, StepInv, BrokerChainInv
<1>10. SpoolInv'
  <2>2. /\ reader < index /\ pc' = pc /\ reader' = reader + 1 /\ spool' = [spool EXCEPT ![reader + 1] = Consumed]
        /\ Deliver(spool[reader + 1]) /\ pc # "applySpooled" /\ pc # "reindex"
    BY Zenon DEF BrokerConsume, ControlInv
  <2>3. SpoolInv'
    <3>2. Told < Released /\ reader' \in Nat /\ reader' <= index
      BY SMTT(30), <2>2, <1>1 DEF SpoolInv
    <3>3. brokerState' = log[((Told + 1) \div 2) + 1]
      BY Zenon, <2>2, <3>2, <1>1, Delivered
    <3>4. /\ Len(spool') = Len(spool)
          /\ spool' = [i \in 1 .. Len(spool') |-> spool'[i]]
          /\ \A i \in 1 .. Len(spool) : i # reader + 1 => spool'[i] = spool[i]
      BY Zenon, <2>2, <1>1, OthersStay
    <3>5. Told' = reader + 1 /\ Released' = Released
      BY Zenon, <2>2, <1>1, <1>2 DEF Told, Released
    <3>6. \A i \in reader + 2 .. Len(spool) : i \in Told + 1 .. Len(spool) /\ i # reader + 1 /\ i \in 1 .. Len(spool)
      BY <1>1
    <3>7. \A i \in Told' + 1 .. Len(spool') :
           /\ spool'[i].kind = (IF i % 2 = 1 THEN "score" ELSE "state")
           /\ i <= Released' /\ i % 2 = 0 => spool'[i].to = log'[(i \div 2) + 1]
      <4>1. Told' + 1 = reader + 2
        BY <3>5, <1>1
      <4>2. \A i \in Told + 1 .. Len(spool) :
           /\ spool[i].kind = (IF i % 2 = 1 THEN "score" ELSE "state")
           /\ i <= Released /\ i % 2 = 0 => spool[i].to = log[(i \div 2) + 1]
        BY Zenon DEF SpoolInv
      <4>3. \A i \in reader + 2 .. Len(spool) : spool'[i] = spool[i]
        BY Zenon, <3>4, <3>6
      <4>4. QED
        BY ZenonT(60), <4>1, <4>2, <4>3, <3>4, <3>5, <3>6, <1>2
    <3>8. brokerState' = log'[(Told' \div 2) + 1]
      BY Zenon, <3>3, <3>5, <1>1, <1>2
    <3>9. index < Released => spool'[Released] = spool[Released]
      BY SMTT(30), <2>2, <3>4, <1>1 DEF SpoolInv
    <3>10. Previous' = Previous /\ Committed' = Committed
      BY Zenon, <1>2 DEF Previous, Committed
    <3>12. Len(spool) > Released \/ pc \in Preparing => Len(spool) >= Released
      BY Zenon, <1>1
    <3>13. \A i \in Released + 1 .. Len(spool) : spool'[i] = spool[i]
      BY SMTT(30), <2>2, <3>4, <1>1
    <3>14. pc \in {"stateSpooled", "savingSummary", "stateSaved"} => Len(spool) = Released + 2
               /\ spool'[Released + 2] = spool[Released + 2]
      BY SMTT(30), <3>13, <1>1 DEF SpoolInv
    <3>15. QED
      BY ZenonT(60), <2>2, <3>2, <3>4, <3>5, <3>7, <3>8, <3>9, <3>10, <3>14, <1>1, <1>2 DEF SpoolInv
  <2>4. QED
    BY Zenon, <2>3
<1>11. CacheInv'
  BY Zenon DEF BrokerConsume, Deliver, Released, Committed, Previous, CacheDatabase, TypeInv, ControlInv, StepInv, CacheInv
<1>12. DirInv'
  BY ZenonT(60) DEF BrokerConsume, Deliver, Recoverable, Good, Pending, Committed, Previous, NoState, NoBlocks, CacheDatabase,
     TypeInv, ControlInv, StepInv, DirInv
<1>13. QED
  BY <1>3, <1>4, <1>5, <1>6, <1>7, <1>8, <1>9, <1>10, <1>11, <1>12 DEF IInv

\* The invariant is kept by CommitSubCache.
LEMMA CommitSubCacheKeeps == ASSUME IInv, NEW r \in RocksCaches, CommitSubCache(r) PROVE IInv'
<1>1. pc = "stateWritten" /\ target = Committed /\ routine = "commit" /\ rocks' = [rocks EXCEPT ![r] = target]
  BY Zenon DEF CommitSubCache, StagedInv, ControlInv
<1>2. UNCHANGED <<chain, staged, commitStep, stateDir, tmpDir, spool, index, reader, lock, memory, brokerChain,
          brokerState, routine, pc, target, saving, log, config, commits, crashes>>
  BY Zenon DEF CommitSubCache
<1>3. Committed' = Committed /\ CacheDatabase' = CacheDatabase /\ Previous' = Previous /\ Released' = Released
  BY Zenon, <1>2 DEF Committed, CacheDatabase, Previous, Released
<1>4. TypeInv'
  <2>1. rocks = [c \in RocksCaches |-> rocks[c]]
    BY Zenon DEF TypeInv
  <2>2. rocks' = [c \in RocksCaches |-> rocks'[c]]
    BY Zenon, <2>1, <1>1
  <2>3. QED
    BY Zenon, <2>2, <1>2 DEF TypeInv
<1>5. ControlInv'
  BY Zenon DEF CommitSubCache, PCs, TypeInv, ControlInv, StepInv
<1>6. StepInv'
  BY Zenon DEF CommitSubCache, Steps, TypeInv, ControlInv, StepInv
<1>7. LogInv'
  BY Zenon DEF CommitSubCache, Committed, TypeInv, ControlInv, StepInv, LogInv
<1>8. StagedInv'
  BY Zenon DEF CommitSubCache, Pending, Committed, NoBlocks, CacheDatabase, TypeInv, ControlInv, StepInv, StagedInv
<1>9. ChainInv'
  BY Zenon DEF CommitSubCache, Pending, Committed, Previous, NoBlocks, CacheDatabase, TypeInv, ControlInv, StepInv, ChainInv
<1>10. BrokerChainInv'
  BY Zenon DEF CommitSubCache, Pending, NoBlocks, TypeInv, ControlInv, StepInv, BrokerChainInv
<1>11. SpoolInv'
  BY ZenonT(60) DEF CommitSubCache, Told, Released, Previous, TypeInv, ControlInv, StepInv, SpoolInv
<1>12. CacheInv'
  <2>1. rocks = [c \in RocksCaches |-> rocks[c]]
    BY DEF TypeInv
  <2>2. \A c \in RocksCaches : rocks'[c] = Committed \/ rocks'[c] = rocks[c]
    BY Zenon, <2>1, <1>1
  <2>3. QED
    BY Zenon, <2>2, <1>1, <1>2, <1>3 DEF CacheInv
<1>13. DirInv'
  BY Zenon DEF CommitSubCache, Recoverable, Good, Pending, Committed, Previous, NoState, NoBlocks, CacheDatabase, TypeInv,
     ControlInv, StepInv, DirInv
<1>14. QED
  BY Zenon, <1>4, <1>5, <1>6, <1>7, <1>8, <1>9, <1>10, <1>11, <1>12, <1>13 DEF IInv

\* Killing a process in one of the safe windows keeps the invariant.
LEMMA CrashKeeps == ASSUME IInv, Survivable, Crash PROVE IInv'
<1>1. <<routine, pc, Len(stateDir) > Len(chain)>> \in SafeWindows
  BY Zenon DEF Crash, Survivable
<1>2. /\ pc \notin {"off", "applySpooled", "reindex", "publishIndex", "renameState", "moveStaged", "notifyDrop"}
      /\ pc \in Moves \union {"moved"} => routine = "commit" /\ (pc = "moveBlocks" \/ ~(Len(stateDir) > Len(chain)))
  <2>1. routine = "commit" /\ pc = "notifyDrop" => Len(stateDir) > Len(chain)
    BY Zenon DEF DirInv
  <2>2. CASE <<routine, pc, Len(stateDir) > Len(chain)>> \in CommitWindows
    BY Zenon, <2>2 DEF CommitWindows, Always
  <2>3. CASE <<routine, pc, Len(stateDir) > Len(chain)>> \in MoveWindows(FALSE)
    BY Zenon, <2>1, <2>3 DEF MoveWindows
  <2>4. CASE <<routine, pc, Len(stateDir) > Len(chain)>> \in SaveWindows
    BY Zenon, <2>4 DEF SaveWindows, Always
  <2>5. CASE <<routine, pc, Len(stateDir) > Len(chain)>> \in RepairWindows
    BY Zenon, <2>5 DEF RepairWindows, Always
  <2>6. QED
    BY Zenon, <2>2, <2>3, <2>4, <2>5, <1>1 DEF SafeWindows
<1>3. pc' = "off" /\ lock /\ UNCHANGED <<chain, staged, commitStep, stateDir, tmpDir, spool, index, reader, lock,
          brokerChain, brokerState, routine, target, saving, log, config, commits>>
  BY Zenon, <1>2 DEF Crash, Goto, ControlInv
<1>4. memory' = NoState /\ rocks' = IF CacheDatabase THEN rocks ELSE [c \in RocksCaches |-> NoState]
  BY Zenon DEF Crash, DropMemory
<1>5. Committed' = Committed /\ CacheDatabase' = CacheDatabase /\ Previous' = Previous /\ Released' = Released
          /\ Told' = Told /\ Pending' = Pending
  BY Zenon, <1>2, <1>3 DEF Committed, CacheDatabase, Previous, Released, Told, Pending
<1>6. TypeInv'
  <2>1. memory' \in Seq(Int)
    BY Zenon, <1>4, NotNoState
  <2>2. rocks' = [c \in RocksCaches |-> rocks'[c]]
    BY Zenon, <1>4 DEF TypeInv
  <2>3. QED
    BY Zenon, <2>1, <2>2, <1>3 DEF TypeInv
<1>7. ControlInv'
  BY Zenon, <1>3 DEF ControlInv, PCs
<1>8. StepInv'
  BY Zenon, <1>3 DEF StepInv
<1>9. LogInv'
  BY Zenon, <1>3, <1>5 DEF LogInv
<1>10. StagedInv'
  BY Zenon, <1>3, <1>5 DEF StagedInv
<1>11. ChainInv'
  BY ZenonT(60), <1>3, <1>5 DEF ChainInv
<1>12. BrokerChainInv'
  BY Zenon, <1>2, <1>3, <1>5 DEF BrokerChainInv
<1>13. SpoolInv'
  <2>1. Len(spool) > Released => commitStep # "State_Written"
    BY Zenon DEF SpoolInv
  <2>2. QED
    BY ZenonT(60), <2>1, <1>2, <1>3, <1>5 DEF SpoolInv
<1>14. CacheInv'
  BY ZenonT(60), <1>2, <1>3, <1>4, <1>5 DEF CacheInv
<1>15. DirInv'
  <2>1. Recoverable
    <3>1. CASE pc \notin Moves \union {"moved"}
      BY Zenon, <3>1, <1>2 DEF DirInv
    <3>2. CASE pc \in Moves \union {"moved"}
      <4>1. routine = "commit" /\ pc \in {"moved", "moveBlocks"} \union Moving /\ commitStep = "State_Written"
        BY Zenon, <3>2, <1>2 DEF StepInv
      <4>2. /\ Len(stateDir) >= 2
            /\ IF CacheDatabase THEN tmpDir = Committed /\ stateDir = Previous
               ELSE tmpDir = NoState /\ IsPrefixOf(stateDir, chain)
        BY Zenon, <4>1 DEF DirInv
      <4>3. CASE CacheDatabase
        <5>1. pc = "moveBlocks" => Len(stateDir) = Len(chain)
          BY Zenon, <4>1, <4>2, <4>3 DEF ChainInv
        <5>2. Len(stateDir) <= Len(chain)
          BY <5>1, <3>2, <1>2, Lengths
        <5>3. tmpDir # NoState
          BY <4>2, <4>3, Lengths, NotNoState
        <5>4. QED
          BY Zenon, <4>1, <4>2, <4>3, <5>2, <5>3 DEF Recoverable, Good
      <4>4. CASE ~CacheDatabase
        BY Zenon, <4>1, <4>2, <4>4 DEF Recoverable, Good, IsPrefixOf
      <4>5. QED
        BY Zenon, <4>3, <4>4
    <3>3. QED
      BY Zenon, <3>1, <3>2
  <2>2. Recoverable'
    BY Zenon, <2>1, <1>3, <1>5 DEF Recoverable, Good
  <2>3. QED
    BY ZenonT(60), <2>2, <1>3, <1>5 DEF DirInv
<1>16. QED
  BY Zenon, <1>6, <1>7, <1>8, <1>9, <1>10, <1>11, <1>12, <1>13, <1>14, <1>15 DEF IInv

\* So does a step that changes nothing.
LEMMA UnchangedKeeps == ASSUME IInv, UNCHANGED vars PROVE IInv'
<1>1. /\ Committed' = Committed /\ CacheDatabase' = CacheDatabase /\ Previous' = Previous /\ Released' = Released
      /\ Told' = Told /\ Pending' = Pending /\ Recoverable' = Recoverable /\ Good(tmpDir)' = Good(tmpDir)
  BY Zenon DEF vars, Committed, CacheDatabase, Previous, Released, Told, Pending, Recoverable, Good
<1>2. TypeInv'
  BY Zenon, <1>1 DEF vars, TypeInv
<1>3. ControlInv'
  BY Zenon, <1>1 DEF vars, ControlInv
<1>4. StepInv'
  BY Zenon, <1>1 DEF vars, StepInv
<1>5. LogInv'
  BY Zenon, <1>1 DEF vars, LogInv
<1>6. StagedInv'
  BY Zenon, <1>1 DEF vars, StagedInv
<1>7. ChainInv'
  BY Zenon, <1>1 DEF vars, ChainInv
<1>8. BrokerChainInv'
  BY Zenon, <1>1 DEF vars, BrokerChainInv
<1>9. SpoolInv'
  BY ZenonT(60), <1>1 DEF vars, SpoolInv
<1>10. CacheInv'
  BY <1>1 DEF vars, CacheInv
<1>11. DirInv'
  BY <1>1 DEF vars, DirInv
<1>12. QED
  BY Zenon, <1>2, <1>3, <1>4, <1>5, <1>6, <1>7, <1>8, <1>9, <1>10, <1>11 DEF IInv

-----------------------------------------------------------------------------
(* The theorems. *)

\* A node that was shut down cleanly satisfies the invariant.
LEMMA InitKeeps == Init => IInv
<1> SUFFICES ASSUME Init PROVE IInv
  BY Zenon
<1>1. InitialChain \in Seq(Int) /\ Len(InitialChain) = 2 /\ InitialChain[2] = 0
  BY DEF InitialChain
<1>2. log \in Seq(Seq(Int)) /\ Len(log) = 1 /\ log[1] = InitialChain
  BY <1>1 DEF Init
<1>3. Committed = InitialChain /\ Released = 0 /\ Told = 0 /\ ~Pending
  BY <1>2 DEF Committed, Released, Told, Pending, Init
<1>4. spool = <<>> /\ Len(spool) = 0
  BY Zenon DEF Init
<1>5. TypeInv
  <2>1. rocks = [r \in RocksCaches |-> rocks[r]]
    BY Zenon DEF Init
  <2>2. 0 \in Blk
    BY BoundAssumption DEF Blk
  <2>3. staged = NoBlocks
    BY Zenon DEF Init
  <2>4. staged = [start |-> staged.start, blocks |-> staged.blocks] /\ staged.start \in Nat
            /\ staged.blocks \in Seq(Blk) /\ staged.blocks \in Seq(Int)
    BY <2>3, NoBlocksIs
  <2>5. chain \in Seq(Int) /\ target \in Seq(Int) /\ brokerChain \in Seq(Int) /\ stateDir \in Seq(Int)
            /\ tmpDir \in Seq(Int) /\ memory \in Seq(Int)
    BY Zenon, <1>1, NotNoState DEF Init
  <2>6. config \in Modes /\ commitStep \in Steps /\ lock \in BOOLEAN /\ saving \in BOOLEAN /\ commits \in Blk
    BY Zenon, <2>2 DEF Init, Steps
  <2>7. QED
    BY Zenon, <1>2, <2>1, <2>4, <2>5, <2>6 DEF TypeInv
<1>6. ControlInv
  BY Zenon DEF Init, ControlInv, PCs
<1>7. StepInv
  BY Zenon DEF Init, StepInv
<1>8. LogInv
  <2>1. Last(Committed) = 0
    BY Zenon, <1>1, <1>3 DEF Last
  <2>2. \A i \in 1 .. Len(log) : i = 1
    BY <1>2
  <2>3. \A i, j \in 1 .. Len(log) : ~(i < j)
    BY <1>2
  <2>4. commits = 0 /\ pc = "off"
    BY Zenon DEF Init
  <2>5. Len(log) \in Nat /\ Len(log) >= 1
    BY <1>2
  <2>6. \A i \in 1 .. Len(log) : log[i] \in Seq(Int) /\ Len(log[i]) >= 2
    <3> SUFFICES ASSUME NEW i \in 1 .. Len(log) PROVE log[i] \in Seq(Int) /\ Len(log[i]) >= 2
      BY Zenon
    <3>1. log[i] = InitialChain
      BY <1>2, <2>2, Zenon
    <3>2. QED
      BY SMTT(30), <1>1, <3>1
  <2>7. QED
    BY <2>1, <2>3, <2>4, <2>5, <2>6 DEF LogInv
<1>9. StagedInv
  BY DEF Init, StagedInv
<1>10. ChainInv
  BY Zenon, <1>3 DEF Init, ChainInv
<1>11. BrokerChainInv
  BY Zenon, <1>3 DEF Init, BrokerChainInv
<1>12. SpoolInv
  <2>1. brokerState = log[(Told \div 2) + 1]
    BY <1>2, <1>3 DEF Init
  <2>2. spool = [i \in 1 .. Len(spool) |-> spool[i]]
    BY <1>4
  <2>3. \A i \in Told + 1 .. Len(spool) : FALSE
    BY <1>3, <1>4
  <2>4. reader = 0 /\ index = 0 /\ pc = "off"
    BY Zenon DEF Init
  <2>5. QED
    BY SMTT(30), <1>3, <1>4, <2>1, <2>2, <2>3, <2>4 DEF SpoolInv
<1>13. CacheInv
  BY Zenon, <1>3 DEF Init, CacheInv
<1>14. DirInv
  <2>1. Recoverable
    BY <1>1, <1>3, PrefixOfItself DEF Init, Recoverable
  <2>2. QED
    BY ZenonT(60), <2>1, <1>3 DEF Init, DirInv
<1>15. QED
  BY Zenon, <1>5, <1>6, <1>7, <1>8, <1>9, <1>10, <1>11, <1>12, <1>13, <1>14

\* Every step keeps the invariant.
LEMMA NextKeeps == ASSUME Survivable PROVE IInv /\ [Next]_vars => IInv'
<1> SUFFICES ASSUME IInv, [Next]_vars PROVE IInv'
  BY Zenon
<1> USE DEF IInv
<1>1. CASE Boot
  BY Zenon, <1>1, BootKeeps
<1>2. CASE Move
  BY Zenon, <1>2, DropBlocksKeeps, NotifyDropBlocksKeeps, MoveBlockKeeps, NotifyBlockKeeps, PurgeStagedKeeps, RenameStateKeeps DEF Move
<1>3. CASE Commit
  <2>1. CASE \E r \in RocksCaches : CommitSubCache(r)
    BY Zenon, <2>1, CommitSubCacheKeeps
  <2>2. CASE ~\E r \in RocksCaches : CommitSubCache(r)
    BY ZenonT(60), <1>3, <2>2, CommitBlocksWrittenKeeps, NotifyScoreChangeKeeps, NotifyStateChangeKeeps, PreStateWrittenKeeps,
       SaveSummaryKeeps,
       CommitStateWrittenKeeps, CommitCacheKeeps, CommitSupplementalDataKeeps, CommitAllUpdatedKeeps,
           PublishIndexKeeps DEF Commit
  <2>3. QED
    BY Zenon, <2>1, <2>2
<1>4. CASE Save
  BY Zenon, <1>4, SaveStateBeginKeeps, SaveStateEndKeeps, SaveStateWrittenKeeps, SaveStateMoveKeeps, EndProcessKeeps DEF Save
<1>5. CASE Repair
  BY ZenonT(60), <1>5, RepairSpoolingKeeps, LoadStateKeeps, CatchUpKeeps, ApplySpooledKeeps, ReindexKeeps, MoveSupplementalDataFilesKeeps,
     MoveStagedKeeps, ReapplyKeeps, ResetSystemStateKeeps, BeginRecoverySaveKeeps DEF Repair
<1>6. CASE \E common \in 1 .. Len(chain), n \in 1 .. MaxHeight : StageBlocks(common, n)
  BY Zenon, <1>6, StageBlocksKeeps
<1>7. CASE BeginShutdownSave
  BY <1>7, BeginShutdownSaveKeeps
<1>8. CASE BrokerConsume
  BY <1>8, BrokerConsumeKeeps
<1>9. CASE Crash
  BY Zenon, <1>9, CrashKeeps
<1>10. CASE UNCHANGED vars
  BY Zenon, <1>10, UnchangedKeeps
<1>11. QED
  BY Zenon, <1>1, <1>2, <1>3, <1>4, <1>5, <1>6, <1>7, <1>8, <1>9, <1>10 DEF Next, Progress

\* The inductive invariant: what the log, the staged and the stored files and the caches hold at every step of a commit
\* and of a recovery, for any number of caches, commits, crashes and heights.
THEOREM Invariant == ASSUME Survivable PROVE Spec => []IInv
<1>1. Init => IInv
  BY Zenon, InitKeeps
<1>2. IInv /\ [Next]_vars => IInv'
  BY Zenon, NextKeeps
<1>3. QED
  BY <1>1, <1>2, PTL DEF Spec

\* After any number of commits, of any heights and caches, and of crashes in the safe windows with their recoveries, a
\* node that is running has the caches and the state directory of the stored chain, and indexes that a recovery can use.
THEOREM NodeRunsConsistently == ASSUME Survivable PROVE Spec => []RunningNodeConsistent
<1>1. IInv => RunningNodeConsistent
  <2> SUFFICES ASSUME IInv, pc = "idle"
               PROVE  /\ memory = chain
                      /\ \A r \in RocksCaches : rocks[r] = chain
                      /\ CacheDatabase => stateDir = chain
                      /\ reader <= index /\ index <= Len(spool)
    BY Zenon DEF RunningNodeConsistent
  <2>1. routine = "commit" /\ staged = NoBlocks /\ commitStep = "All_Updated"
    BY Zenon DEF ControlInv, StagedInv, StepInv
  <2>2. chain = Committed
    BY Zenon, <2>1 DEF ChainInv, Pending
  <2>3. memory = Committed /\ \A r \in RocksCaches : rocks[r] = Committed
    BY Zenon, <2>1 DEF CacheInv
  <2>4. CacheDatabase => stateDir = Committed
    BY Zenon, <2>1 DEF DirInv, Recoverable
  <2>5. reader <= index /\ index <= Len(spool)
    BY Zenon, ReleasedIs DEF SpoolInv
  <2>6. QED
    BY Zenon, <2>2, <2>3, <2>4, <2>5
<1>2. QED
  BY <1>1, Invariant, PTL

\* Whatever crashes left in the spool directories, a broker that has read all that was released to it knows the chain
\* and the state of the running node.
THEOREM BrokerFollows == ASSUME Survivable PROVE Spec => []BrokerCatchesUp
<1>1. IInv => BrokerCatchesUp
  <2> SUFFICES ASSUME IInv, pc = "idle", reader = index PROVE brokerState = chain /\ brokerChain = chain
    BY Zenon DEF BrokerCatchesUp
  <2>1. staged = NoBlocks /\ Told = Released
    BY Zenon DEF StagedInv, SpoolInv, Told
  <2>2. chain = Committed /\ brokerChain = chain
    BY Zenon, <2>1 DEF ChainInv, BrokerChainInv, Pending
  <2>3. (Released \div 2) + 1 = Len(log)
    BY SMTT(30), ReleasedIs, Lengths
  <2>4. brokerState = Committed
    BY ZenonT(60), <2>1, <2>3 DEF SpoolInv, Committed
  <2>5. QED
    BY Zenon, <2>2, <2>4
<1>2. QED
  BY <1>1, Invariant, PTL

\* A node that crashed in a safe window can always be recovered: no step of the recovery finds files that it gives up on.
THEOREM RecoveryNeverGivesUp == ASSUME Survivable PROVE Spec => []RecoverySucceeds
<1>1. IInv => RecoverySucceeds
  BY Zenon DEF ControlInv, RecoverySucceeds
<1>2. QED
  BY <1>1, Invariant, PTL

-----------------------------------------------------------------------------
(* Refinement of AtomicLedger. *)

\* The ledger is the last committed chain.
LEMMA LedgerIs == IInv => Ledger = Committed
BY Zenon DEF ChainInv, Ledger, Pending

\* Committed chains differ in their last blocks, so that what the broker knows says how many of them it has seen.
LEMMA SeenIs == IInv => Seen = (Told \div 2) + 1 /\ Seen \in 1 .. Len(log)
<1> SUFFICES ASSUME IInv PROVE Seen = (Told \div 2) + 1 /\ Seen \in 1 .. Len(log)
  BY Zenon
<1>1. Told \in Nat /\ Told <= Released
  BY ReleasedIs DEF Told, SpoolInv
<1>2. (Told \div 2) + 1 \in 1 .. Len(log)
  <2>1. \A n \in Nat, k \in Nat : n <= 2 * k => n \div 2 <= k /\ n \div 2 \in Nat
    OBVIOUS
  <2>2. Len(log) - 1 \in Nat
    BY DEF LogInv
  <2>3. Told \div 2 <= Len(log) - 1 /\ Told \div 2 \in Nat
    BY Zenon, <1>1, <2>1, <2>2 DEF Released
  <2>4. QED
    BY <2>2, <2>3
<1>3. log[(Told \div 2) + 1] = brokerState
  BY Zenon DEF SpoolInv
<1>4. Seen \in 1 .. Len(log) /\ log[Seen] = brokerState
  BY Zenon, <1>2, <1>3 DEF Seen
<1>5. \A i \in 1 .. Len(log) : Last(log[i]) \in Int
  BY LastIs DEF LogInv
<1>6. \A i, j \in 1 .. Len(log) : log[i] = log[j] => i = j
  <2> SUFFICES ASSUME NEW i \in 1 .. Len(log), NEW j \in 1 .. Len(log), i # j PROVE Last(log[i]) # Last(log[j])
    BY Zenon
  <2>1. CASE i < j
    BY <2>1, <1>5 DEF LogInv
  <2>2. CASE j < i
    BY <2>2, <1>5 DEF LogInv
  <2>3. QED
    BY <2>1, <2>2
<1>7. QED
  BY Zenon, <1>2, <1>3, <1>4, <1>6

\* The same after a step.
LEMMA LedgerIsThen == IInv' => Ledger' = Committed'
<1>1. (IInv => Ledger = Committed)'
  BY LedgerIs, PTL
<1>2. QED
  BY Zenon, <1>1

\* The same for what the broker has seen.
LEMMA SeenIsThen == IInv' => Seen' = (Told' \div 2) + 1 /\ Seen' \in 1 .. Len(log')
<1>1. (IInv => Seen = (Told \div 2) + 1 /\ Seen \in 1 .. Len(log))'
  BY SeenIs, PTL
<1>2. QED
  BY Zenon, <1>1

\* The steps that are neither a commit nor a message to the broker do not touch what AtomicLedger talks about.
LEMMA MovesAreQuiet == IInv /\ Move => log' = log /\ Told' = Told
<1>1. IInv /\ RenameState => log' = log /\ Told' = Told
  BY Zenon DEF RenameState, ControlInv, Told, Goto
<1>2. QED
  BY Zenon, <1>1 DEF Move, DropBlocks, NotifyDropBlocks, MoveBlock, NotifyBlock, PurgeStaged, Told, Goto

\* Of a commit, only State_Written changes the ledger, and nothing is told to the broker.
LEMMA CommitsAreQuiet == IInv /\ Commit => Told' = Told /\ (log' = log \/ CommitStateWritten)
<1> SUFFICES ASSUME IInv, Commit PROVE Told' = Told /\ (log' = log \/ CommitStateWritten)
  BY Zenon
<1>1. CASE CommitBlocksWritten \/ CommitStateWritten \/ CommitAllUpdated
  BY Zenon, <1>1 DEF CommitBlocksWritten, CommitStateWritten, CommitAllUpdated, WriteCommitStep, Told, Goto
<1>2. CASE NotifyScoreChange \/ NotifyStateChange \/ PreStateWritten \/ SaveSummary
  BY Zenon, <1>2 DEF NotifyScoreChange, NotifyStateChange, SpoolMessage, PreStateWritten, SaveSummary, Told, Goto
<1>3. CASE \E r \in RocksCaches : CommitSubCache(r)
  BY Zenon, <1>3 DEF CommitSubCache, Told
<1>4. CASE CommitCache \/ CommitSupplementalData \/ PublishIndex
  BY Zenon, <1>4 DEF CommitCache, CommitSupplementalData, PublishIndex, Told, Goto
<1>5. QED
  BY Zenon, <1>1, <1>2, <1>3, <1>4 DEF Commit

\* Booting and saving the state change nothing of it.
LEMMA SavesAreQuiet == IInv /\ (Save \/ BeginShutdownSave \/ Boot) => log' = log /\ Told' = Told
BY Zenon DEF Save, SaveStateBegin, SaveStateEnd, SaveState, SaveStateWritten, SaveStateMove, EndProcess, BeginShutdownSave,
   BeginSave, Boot, Told, Goto

\* Recovery tells the broker at most one message in a step.
LEMMA RepairsAreQuiet == IInv /\ Repair => log' = log /\ (Told' = Told \/ Told' = Told + 1)
<1> SUFFICES ASSUME IInv, Repair PROVE log' = log /\ (Told' = Told \/ Told' = Told + 1)
  BY Zenon
<1>1. CASE RepairSpooling \/ MoveSupplementalDataFiles \/ MoveStaged
  BY Zenon, <1>1 DEF RepairSpooling, MoveSupplementalDataFiles, MoveStaged, Told, Goto
<1>2. CASE Reapply \/ ResetSystemState \/ BeginRecoverySave
  BY Zenon, <1>2 DEF Reapply, ResetSystemState, BeginRecoverySave, BeginSave, Told, Goto
<1>3. CASE LoadState
  BY Zenon, <1>3 DEF LoadState, Told, Goto
<1>4. CASE CatchUp
  BY Zenon, <1>4 DEF CatchUp, Told, Goto
<1>5. CASE ApplySpooled
  BY Zenon, <1>5 DEF ApplySpooled, Told, Goto
<1>6. CASE Reindex
  BY Zenon, <1>6 DEF Reindex, Told, Goto
<1>7. QED
  BY Zenon, <1>1, <1>2, <1>3, <1>4, <1>5, <1>6 DEF Repair

\* A crash in a safe window loses nothing that the broker was told.
LEMMA CrashIsQuiet == ASSUME IInv, Survivable, Crash PROVE log' = log /\ Told' = Told
<1>1. <<routine, pc, Len(stateDir) > Len(chain)>> \in SafeWindows
  BY Zenon DEF Crash, Survivable
<1>2. pc \notin {"applySpooled", "reindex"}
  BY Zenon, <1>1 DEF SafeWindows, CommitWindows, MoveWindows, SaveWindows, RepairWindows
<1>3. QED
  BY Zenon, <1>2 DEF Crash, Told, Goto

\* Reaching State_Written is the commit of the abstract specification.
LEMMA CommitRefines == ASSUME IInv, IInv', CommitStateWritten PROVE Abstract!Next
<1>1. pc = "stateSaved" /\ commitStep' = "State_Written" /\ log' = Append(log, target) /\ UNCHANGED <<chain, staged>>
  BY Zenon DEF CommitStateWritten, WriteCommitStep
<1>2. commitStep # "State_Written" /\ staged # NoBlocks
  BY Zenon, <1>1 DEF StepInv, StagedInv
<1>3. /\ staged.start >= 2 /\ staged.start - 1 <= Len(chain) /\ staged.start - 1 + MaxRollback >= Len(chain)
      /\ Len(staged.blocks) >= 1 /\ Len(staged.blocks) <= MaxHeight /\ target = Take(chain, staged.start - 1) \o staged.blocks
  BY Zenon, <1>1, <1>2 DEF StagedInv
<1>4. Ledger = chain
  BY Zenon, <1>2 DEF Ledger
<1>5. Ledger' = Take(chain, staged.start - 1) \o staged.blocks
  BY Zenon, <1>1, <1>2 DEF Ledger
<1>6. staged.start \in Nat /\ chain \in Seq(Int) /\ staged.blocks \in Seq(Blk) /\ Len(chain) \in Nat
          /\ Len(staged.blocks) \in Nat
  BY SMTT(30) DEF TypeInv
<1>7. MaxHeight \in Nat
  BY Zenon, BoundAssumption
<1>8. PICK common \in 1 .. Len(chain) : common = staged.start - 1
  BY <1>3, <1>6
<1>9. PICK n \in 1 .. MaxHeight : n = Len(staged.blocks)
  BY <1>3, <1>6, <1>7
<1>10. staged.blocks \in [1 .. n -> 0 .. MaxCommits]
  <2>1. staged.blocks \in [1 .. Len(staged.blocks) -> Blk]
    BY <1>6
  <2>2. QED
    BY Zenon, <2>1, <1>9 DEF Blk
<1>11. Take(chain, staged.start - 1) = SubSeq(chain, 1, common)
  BY SMTT(30), <1>3, <1>6, <1>8 DEF Take
<1>12. Ledger' = SubSeq(Ledger, 1, common) \o staged.blocks
  BY Zenon, <1>4, <1>5, <1>11
<1>13. log' = Append(log, Ledger')
  BY Zenon, <1>1, <1>3, <1>5
<1>14. Seen' = Seen
  <2>1. Told' = Told
    BY Zenon DEF CommitStateWritten, WriteCommitStep, Told, Goto
  <2>2. Seen = (Told \div 2) + 1
    BY Zenon, SeenIs
  <2>3. Seen' = (Told' \div 2) + 1
    BY Zenon, SeenIsThen
  <2>4. QED
    BY Zenon, <2>1, <2>2, <2>3
<1>15. common + MaxRollback >= Len(Ledger)
  BY Zenon, <1>3, <1>4, <1>8
<1>16. common \in 1 .. Len(Ledger)
  BY Zenon, <1>4
<1>17. Abstract!Commit(common, staged.blocks)
  BY Zenon, <1>12, <1>13, <1>14, <1>15 DEF Abstract!Commit
<1>18. QED
  BY Zenon, <1>10, <1>16, <1>17 DEF Abstract!Next

\* A step that commits nothing and tells the broker at most one message is one that lets it see at most one more commit.
LEMMA QuietRefines ==
    ASSUME IInv, IInv', log' = log, Told' = Told \/ Told' = Told + 1
    PROVE  Abstract!Next \/ UNCHANGED <<Ledger, log, Seen>>
<1>1. Committed' = Committed
  BY Zenon DEF Committed
<1>2. Ledger' = Committed'
  BY Zenon, LedgerIsThen
<1>3. Ledger' = Ledger
  BY Zenon, <1>1, <1>2, LedgerIs
<1>4. Seen = (Told \div 2) + 1 /\ Seen \in 1 .. Len(log)
  BY Zenon, SeenIs
<1>5. Seen' = (Told' \div 2) + 1 /\ Seen' \in 1 .. Len(log')
  BY Zenon, SeenIsThen
<1>6. Told \in Nat
  BY Zenon DEF Told, SpoolInv
<1>7. Seen' = Seen \/ Seen' = Seen + 1
  <2>1. \A n \in Nat : (n + 1) \div 2 = n \div 2 \/ (n + 1) \div 2 = (n \div 2) + 1
    OBVIOUS
  <2>2. QED
    BY Zenon, <2>1, <1>4, <1>5, <1>6
<1>8. CASE Seen' = Seen
  BY Zenon, <1>3, <1>8
<1>9. CASE Seen' = Seen + 1
  <2>1. Len(log) \in Nat
    BY Zenon, Lengths
  <2>2. Seen < Len(log)
    BY <1>4, <1>5, <1>9, <2>1
  <2>3. QED
    BY Zenon, <1>3, <1>9, <2>2 DEF Abstract!Next, Abstract!Observe
<1>10. QED
  BY Zenon, <1>7, <1>8, <1>9

\* CommitsAtomically: with whatever crashes in the safe windows, the disk and the broker implement AtomicLedger.
THEOREM CommitsAreAtomic == ASSUME Survivable PROVE Spec => CommitsAtomically
<1>1. Init => Abstract!Init
  <2> SUFFICES ASSUME Init PROVE Abstract!Init
    BY Zenon
  <2>1. Ledger = InitialChain /\ log = <<InitialChain>>
    BY Zenon DEF Init, Ledger
  <2>2. Told = 0
    BY Zenon DEF Init, Told
  <2>3. Seen = (Told \div 2) + 1
    BY Zenon, InitKeeps, SeenIs
  <2>4. Seen = 1
    BY <2>2, <2>3
  <2>5. QED
    BY Zenon, <2>1, <2>4 DEF Abstract!Init
<1>2. IInv /\ IInv' /\ [Next]_vars => [Abstract!Next]_<<Ledger, log, Seen>>
  <2> SUFFICES ASSUME IInv, IInv', [Next]_vars PROVE Abstract!Next \/ UNCHANGED <<Ledger, log, Seen>>
    BY Zenon
  <2>1. CASE CommitStateWritten
    BY Zenon, <2>1, CommitRefines
  <2>2. CASE ~CommitStateWritten
    <3>1. log' = log /\ (Told' = Told \/ Told' = Told + 1)
      <4>1. CASE Progress
        BY Zenon, <4>1, <2>2, MovesAreQuiet, CommitsAreQuiet, SavesAreQuiet, RepairsAreQuiet DEF Progress
      <4>2. CASE \E common \in 1 .. Len(chain), n \in 1 .. MaxHeight : StageBlocks(common, n)
        BY Zenon, <4>2 DEF StageBlocks, Told, Goto
      <4>3. CASE BeginShutdownSave
        BY Zenon, <4>3, SavesAreQuiet
      <4>4. CASE BrokerConsume
        BY Zenon, <4>4 DEF BrokerConsume, Told, ControlInv
      <4>5. CASE Crash
        BY Zenon, <4>5, CrashIsQuiet
      <4>6. CASE UNCHANGED vars
        BY Zenon, <4>6 DEF vars, Told
      <4>7. QED
        BY Zenon, <4>1, <4>2, <4>3, <4>4, <4>5, <4>6 DEF Next
    <3>2. QED
      BY Zenon, <3>1, QuietRefines
  <2>3. QED
    BY Zenon, <2>1, <2>2
<1>3. QED
  BY <1>1, <1>2, Invariant, PTL DEF Spec, CommitsAtomically, Abstract!Spec
=============================================================================
