---------------------- MODULE ConsumerDispatcherProofs ----------------------
(***************************************************************************)
(* Proofs about the consumer dispatcher, for every number of consumers,    *)
(* every capacity and every memory limit: type correctness, that no        *)
(* element is overwritten while a thread uses it, that elements complete   *)
(* exactly once and in order, that memory is accounted for, and that an    *)
(* element that a consumer aborts is given to none of the later ones.      *)
(***************************************************************************)
EXTENDS ConsumerDispatcher, TLAPS

-----------------------------------------------------------------------------
(* Slots. *)

\* No multiple of the capacity lies strictly between zero and the capacity.
LEMMA NoMultipleBetween ==
    ASSUME NEW c \in Nat \ {0}, NEW k \in Int, 0 < c * k, c * k < c
    PROVE  FALSE
<1>1. CASE k <= 0
  <2>1. c * k <= 0
    BY <1>1, SMT
  <2> QED
    BY <2>1, SMT
<1>2. CASE k >= 1
  <2>1. c * k >= c
    BY <1>2, SMT
  <2> QED
    BY <2>1, SMT
<1> QED
  BY <1>1, <1>2, SMT

\* Two positions less than a full turn apart use different slots.
LEMMA SlotsDiffer ==
    ASSUME NEW p \in Nat, NEW q \in Nat, p < q, q < p + Capacity
    PROVE  SlotOf(p) # SlotOf(q)
<1> DEFINE c == Capacity
<1>0. c \in Nat \ {0}
  BY CapacityAssumption
<1> HIDE DEF c
<1> SUFFICES ASSUME p % c = q % c, q < p + c
             PROVE  FALSE
  BY DEF SlotOf, c
<1>1. /\ p = c * (p \div c) + (p % c)
      /\ q = c * (q \div c) + (q % c)
      /\ p \div c \in Int /\ q \div c \in Int
      /\ p % c \in Int /\ q % c \in Int
  BY <1>0, SMT
<1> DEFINE k == (q \div c) - (p \div c)
<1>2. k \in Int /\ q - p = c * k
  BY <1>0, <1>1, SMT
<1> HIDE DEF k
<1> QED
  BY <1>0, <1>2, NoMultipleBetween, SMT

\* Every position has a slot.
LEMMA SlotInRange ==
    ASSUME NEW p \in Nat
    PROVE  SlotOf(p) \in 0 .. Capacity - 1
  BY CapacityAssumption, SMT DEF SlotOf

-----------------------------------------------------------------------------
(* The inductive invariant. *)

\* The barriers follow the threads' positions and are ordered by level, and a
\* thread works only on a position its barrier has released.
Pipelined ==
    /\ \A l \in Levels : barriers[l + 1] = entry[l]
    /\ \A i, j \in 0 .. NumConsumers : i <= j => barriers[j] <= barriers[i]
    /\ \A l \in Levels : pc[l] \in {"run", "advance"} => entry[l] < barriers[l]
    /\ \A l \in Levels : pc[l] \in {"inspect", "complete"} => l = LastLevel /\ entry[l] > 0
    /\ allElements = barriers[0] + (IF stage = "publish" THEN 1 ELSE 0)
    /\ allElements + (IF stage = "push" THEN 1 ELSE 0) <= MaxElements

\* The position just released by the last consumer keeps its slot, also while
\* a producer is adding.
SpareSlotKept ==
    barriers[0] - barriers[NumConsumers] + 1 + (IF stage = "none" THEN 0 ELSE 1) <= Capacity

\* From the position before the last barrier on, every slot holds the element
\* that was pushed to its position.
LiveSlotsIntact ==
    \A p \in 0 .. allElements - 1 :
        barriers[NumConsumers] <= p + 1 =>
            /\ ElementAt(p).id = p + 1
            /\ ElementAt(p).size = total[p + 1] - total[p]

\* The histories are as long as the last barrier says, up to the step the last
\* consumer's thread is at.
HistoryFollowsBarriers ==
    /\ Len(inspected) = barriers[NumConsumers] - (IF pc[LastLevel] = "inspect" THEN 1 ELSE 0)
    /\ Len(completed) = barriers[NumConsumers] - (IF pc[LastLevel] \in {"inspect", "complete"} THEN 1 ELSE 0)
    /\ CompletedInOrder

\* The history of cumulative sizes is monotone.
TotalsGrow ==
    \A i, j \in 0 .. allElements : i <= j => total[i] <= total[j]

\* MemoryAccounted alone is not inductive: that a completion releases what the
\* reservation took needs the live slots, and those need the spare slot.
IInv ==
    /\ TypeOK
    /\ Pipelined
    /\ SpareSlotKept
    /\ LiveSlotsIntact
    /\ HistoryFollowsBarriers
    /\ TotalsGrow
    /\ MemoryAccounted
-----------------------------------------------------------------------------
USE NumConsumersAssumption, CapacityAssumption, MemoryAssumption, MaxElementsAssumption

\* The inductive invariant holds initially.
LEMMA InitIInv == Init => IInv
<1> SUFFICES ASSUME Init
             PROVE  IInv
  BY Zenon
<1> USE DEF Init
<1>1. TypeOK
  BY DEF TypeOK, Element, EmptySlot, Levels, PCs
<1>2. Pipelined
  BY DEF Pipelined, Levels
<1>3. SpareSlotKept
  BY DEF SpareSlotKept
<1>4. LiveSlotsIntact
  BY DEF LiveSlotsIntact
<1>5. HistoryFollowsBarriers
  BY DEF HistoryFollowsBarriers, CompletedInOrder, Levels, LastLevel
<1>6. TotalsGrow
  BY DEF TotalsGrow
<1>7. MemoryAccounted
  BY DEF MemoryAccounted
<1> QED
  BY Zenon, <1>1, <1>2, <1>3, <1>4, <1>5, <1>6, <1>7 DEF IInv

\* The history of completions never runs ahead of the last barrier, and no
\* barrier runs ahead of the first.
LEMMA LevelBounds ==
    ASSUME IInv
    PROVE  /\ Len(completed) <= barriers[NumConsumers]
           /\ Len(inspected) <= barriers[NumConsumers]
           /\ \A i \in 0 .. NumConsumers : barriers[NumConsumers] <= barriers[i] /\ barriers[i] <= barriers[0]
<1>1. barriers[NumConsumers] \in Nat
  BY DEF IInv, TypeOK
<1>2. Len(completed) <= barriers[NumConsumers] /\ Len(inspected) <= barriers[NumConsumers]
  BY <1>1 DEF IInv, HistoryFollowsBarriers
<1>3. \A i \in 0 .. NumConsumers : barriers[NumConsumers] <= barriers[i] /\ barriers[i] <= barriers[0]
  BY DEF IInv, Pipelined
<1> QED
  BY <1>2, <1>3

\* The histories are sequences of elements.
LEMMA LenIsNat ==
    ASSUME IInv
    PROVE  Len(completed) \in Nat /\ Len(inspected) \in Nat
  BY DEF IInv, TypeOK

\* The totals that m_memorySize is compared with are defined.
LEMMA TotalsTyped ==
    ASSUME IInv
    PROVE  /\ allElements \in 0 .. MaxElements /\ Len(completed) \in 0 .. allElements
           /\ total[allElements] \in Nat /\ total[Len(completed)] \in Nat
<1>1. allElements \in Nat /\ allElements <= MaxElements /\ barriers[0] \in Nat /\ barriers[0] <= allElements
  BY DEF IInv, TypeOK, Pipelined
<1>2. barriers[NumConsumers] \in Nat /\ barriers[NumConsumers] <= barriers[0]
  BY LevelBounds DEF IInv, TypeOK
<1>3. allElements \in 0 .. MaxElements /\ Len(completed) \in 0 .. allElements
  BY <1>1, <1>2, LevelBounds, LenIsNat
<1>4. Len(completed) \in 0 .. MaxElements
  BY <1>3
<1> QED
  BY Zenon, <1>3, <1>4 DEF IInv, TypeOK

\* The element that the last consumer's thread has advanced over and still
\* inspects or completes is intact.
LEMMA JustReleased ==
    ASSUME IInv, NEW l \in Levels, pc[l] \in {"inspect", "complete"}
    PROVE  /\ l = LastLevel /\ entry[l] \in Nat \ {0} /\ entry[l] = barriers[NumConsumers]
           /\ entry[l] \in 1 .. allElements
           /\ ElementAt(entry[l] - 1) \in Element
           /\ ElementAt(entry[l] - 1).id = entry[l]
           /\ ElementAt(entry[l] - 1).size = total[entry[l]] - total[entry[l] - 1]
<1>1. l = LastLevel /\ entry[l] \in Nat \ {0}
  BY DEF IInv, Pipelined, TypeOK
<1>2. entry[l] = barriers[l + 1] /\ l + 1 = NumConsumers
  BY <1>1 DEF IInv, Pipelined, LastLevel
<1>3. barriers[NumConsumers] <= barriers[0]
  BY LevelBounds
<1>4. barriers[0] <= allElements /\ barriers[0] \in Nat /\ allElements \in Nat
  BY DEF IInv, Pipelined, TypeOK
<1>5. entry[l] \in 1 .. allElements
  BY <1>1, <1>2, <1>3, <1>4
<1> DEFINE p == entry[l] - 1
<1>6. p \in 0 .. allElements - 1 /\ p \in Nat /\ barriers[NumConsumers] <= p + 1 /\ p + 1 = entry[l]
  BY <1>1, <1>2, <1>4, <1>5
<1> HIDE DEF p
<1>7. ElementAt(p) \in Element
  BY Zenon, <1>6, SlotInRange DEF ElementAt, IInv, TypeOK
<1>8. ElementAt(p).id = p + 1 /\ ElementAt(p).size = total[p + 1] - total[p]
  BY <1>6 DEF IInv, LiveSlotsIntact
<1> QED
  BY Zenon, <1>1, <1>2, <1>5, <1>6, <1>7, <1>8 DEF p

\* The checks and the reservation preserve the invariant.
LEMMA ReserveStep ==
    ASSUME IInv, NEW size \in Sizes, Reserve(size)
    PROVE  IInv'
<1> USE DEF IInv, Reserve, CanProcessNextElement, HasMemoryFor, threadVars, producerVars, historyVars
<1>0. size \in Nat
  BY MemoryAssumption
<1>1. TypeOK'
  <2>1. memorySize' \in Nat /\ pending' \in Nat
    BY <1>0 DEF TypeOK
  <2>2. stage' \in {"none", "push", "publish"}
    BY Zenon
  <2> QED
    BY Zenon, <2>1, <2>2 DEF TypeOK
<1>2. Pipelined'
  BY DEF Pipelined, TypeOK
<1>3. SpareSlotKept'
  BY DEF SpareSlotKept, TypeOK
<1>4. LiveSlotsIntact'
  BY Zenon DEF LiveSlotsIntact, ElementAt
<1>5. HistoryFollowsBarriers'
  BY Zenon DEF HistoryFollowsBarriers, CompletedInOrder
<1>6. TotalsGrow'
  BY DEF TotalsGrow
<1>7. MemoryAccounted'
  <2>1. memorySize = total[allElements] - total[Len(completed)]
    BY TotalsTyped DEF MemoryAccounted
  <2>2. MaxMemory \in Nat /\ memorySize \in Nat
    BY DEF TypeOK
  <2>3. memorySize' <= MaxMemory
    BY <1>0, <2>2
  <2>4. memorySize' = total'[allElements'] - total'[Len(completed')] + pending'
    BY <2>1
  <2> QED
    BY <2>3, <2>4 DEF MemoryAccounted
<1> QED
  BY <1>1, <1>2, <1>3, <1>4, <1>5, <1>6, <1>7

\* The new element replaces none that is still live, and its size is entered in
\* the history.
LEMMA PushStep ==
    ASSUME IInv, Push
    PROVE  IInv'
<1> USE DEF IInv, Push, threadVars, producerVars, historyVars
<1>0. /\ allElements \in 0 .. MaxElements /\ allElements + 1 \in 0 .. MaxElements
      /\ allElements = barriers[0] /\ barriers[NumConsumers] \in Nat
  BY SMTT(30) DEF Pipelined, TypeOK
<1>c. /\ SlotOf(allElements) \in 0 .. Capacity - 1 /\ allElements + 1 \in Nat /\ pending \in Nat
      /\ \A q \in 0 .. MaxElements : total[q] \in Nat
      /\ \A q \in 0 .. MaxElements : total'[q] = IF q = allElements + 1 THEN total[allElements] + pending ELSE total[q]
  <2>1. SlotOf(allElements) \in 0 .. Capacity - 1
    BY Zenon, SlotInRange DEF TypeOK
  <2>2. allElements + 1 \in Nat /\ pending \in Nat /\ \A q \in 0 .. MaxElements : total[q] \in Nat
    BY SMTT(30) DEF TypeOK
  <2>3. \A q \in 0 .. MaxElements : total'[q] = IF q = allElements + 1 THEN total[allElements] + pending ELSE total[q]
    BY DEF TypeOK
  <2> QED
    BY <2>1, <2>2, <2>3
<1>b. Len(completed) \in Nat /\ Len(completed) <= barriers[NumConsumers] /\ barriers[NumConsumers] <= barriers[0]
  BY LevelBounds, LenIsNat
<1>1. TypeOK'
  <2>1. slots' \in [0 .. Capacity - 1 -> Element]
    BY Zenon, <1>c DEF TypeOK, Element
  <2>2. allElements' \in Nat /\ total' \in [0 .. MaxElements -> Nat]
    <3>1. total \in [0 .. MaxElements -> Nat]
      BY Zenon DEF TypeOK
    <3>2. total' = [total EXCEPT ![allElements + 1] = total[allElements] + pending] /\ allElements' = allElements + 1
      OBVIOUS
    <3> HIDE DEF IInv, Push
    <3>3. total[allElements] + pending \in Nat
      BY <1>0, <1>c
    <3> QED
      BY Zenon, <1>c, <3>1, <3>2, <3>3
  <2>3. stage' \in {"none", "push", "publish"}
    OBVIOUS
  <2> QED
    BY Zenon, <2>1, <2>2, <2>3 DEF TypeOK
<1>2. Pipelined'
  BY SMTT(30) DEF Pipelined, TypeOK, Levels, LastLevel
<1>3. SpareSlotKept'
  BY DEF SpareSlotKept, TypeOK
<1>4. LiveSlotsIntact'
  <2> SUFFICES ASSUME NEW p \in 0 .. allElements, barriers[NumConsumers] <= p + 1
               PROVE  ElementAt(p)'.id = p + 1 /\ ElementAt(p)'.size = total'[p + 1] - total'[p]
    BY DEF LiveSlotsIntact, TypeOK
  <2>1. CASE p = allElements
    <3>1. total'[p + 1] = total[p] + pending /\ total'[p] = total[p] /\ total[p] \in Nat
      BY <1>0, <1>c, <2>1
    <3>2. ElementAt(p)'.id = p + 1 /\ ElementAt(p)'.size = pending
      BY Zenon, <1>c, <2>1 DEF ElementAt, TypeOK
    <3> QED
      BY <1>c, <3>1, <3>2
  <2>2. CASE p # allElements
    <3>1. p \in 0 .. allElements - 1 /\ p \in Nat /\ p < allElements
      BY <2>2 DEF TypeOK
    <3>2. allElements < p + Capacity
      <4>1. barriers[0] - barriers[NumConsumers] + 1 + 1 <= Capacity
        BY Zenon DEF SpareSlotKept
      <4> QED
        BY <1>0, <3>1, <4>1
    <3>3. SlotOf(p) # SlotOf(allElements)
      BY Zenon, <3>1, <3>2, SlotsDiffer DEF TypeOK
    <3>4. ElementAt(p)' = ElementAt(p)
      BY Zenon, <3>1, <3>3, SlotInRange DEF ElementAt, TypeOK
    <3>5. total'[p + 1] = total[p + 1] /\ total'[p] = total[p]
      BY <1>0, <1>c, <3>1
    <3> QED
      BY Zenon, <3>1, <3>4, <3>5 DEF LiveSlotsIntact
  <2> QED
    BY <2>1, <2>2
<1>5. HistoryFollowsBarriers'
  BY Zenon DEF HistoryFollowsBarriers, CompletedInOrder
<1>6. TotalsGrow'
  <2> SUFFICES ASSUME NEW i \in 0 .. allElements + 1, NEW j \in 0 .. allElements + 1, i <= j
               PROVE  total'[i] <= total'[j]
    BY Zenon DEF TotalsGrow, TypeOK
  <2>1. i <= allElements => total'[i] = total[i] /\ total[i] <= total[allElements]
    BY <1>0, <1>c DEF TotalsGrow
  <2>2. total'[allElements + 1] = total[allElements] + pending
    BY Zenon, <1>0, <1>c
  <2>3. CASE j <= allElements
    BY <1>0, <1>c, <2>3 DEF TotalsGrow
  <2>4. CASE j = allElements + 1 /\ i <= allElements
    <3>1. total[allElements] \in Nat /\ total[i] \in Nat /\ pending \in Nat
      BY <1>0, <1>c, <2>4
    <3>2. total[i] <= total[allElements] + pending
      BY <2>1, <2>4, <3>1
    <3> QED
      BY <2>1, <2>2, <2>4, <3>2
  <2>5. CASE i = allElements + 1
    <3>1. i = j
      BY <1>0, <2>5
    <3>2. total'[i] \in Nat
      BY <1>0, <1>c, <2>2, <2>5
    <3> QED
      BY <3>1, <3>2
  <2> QED
    BY <1>0, <2>3, <2>4, <2>5
<1>7. MemoryAccounted'
  <2>1. Len(completed) \in 0 .. allElements
    BY <1>0, <1>b DEF Pipelined, TypeOK, Levels
  <2>2. total'[allElements'] = total[allElements] + pending /\ total'[Len(completed)] = total[Len(completed)]
    BY <1>0, <2>1 DEF TypeOK
  <2>3. memorySize = total[allElements] - total[Len(completed)] + pending /\ memorySize <= MaxMemory
    BY DEF MemoryAccounted
  <2>4. total[allElements] \in Nat /\ total[Len(completed)] \in Nat /\ pending \in Nat
    <3>1. allElements' = allElements + 1
      OBVIOUS
    <3> HIDE DEF IInv, Push
    <3> QED
      BY <1>0, <1>c, <2>1, <3>1
  <2> QED
    BY <2>2, <2>3, <2>4 DEF MemoryAccounted
<1> QED
  BY Zenon, <1>1, <1>2, <1>3, <1>4, <1>5, <1>6, <1>7

\* The element becomes visible to the first consumer.
LEMMA PublishStep ==
    ASSUME IInv, Publish
    PROVE  IInv'
<1> USE DEF IInv, Publish, threadVars, producerVars, historyVars
<1>1. TypeOK'
  <2>1. barriers' \in [0 .. NumConsumers -> Nat]
    BY DEF TypeOK
  <2>2. stage' \in {"none", "push", "publish"}
    OBVIOUS
  <2> QED
    BY Zenon, <2>1, <2>2 DEF TypeOK
<1>2. Pipelined'
  <2>1. \A i \in 0 .. NumConsumers : barriers'[i] = IF i = 0 THEN barriers[0] + 1 ELSE barriers[i]
    BY DEF TypeOK
  <2>2. \A l \in Levels : l + 1 \in 1 .. NumConsumers /\ l \in 0 .. NumConsumers
    BY DEF Levels
  <2>3. \A i \in 0 .. NumConsumers : barriers[i] \in Nat
    BY Zenon DEF TypeOK
  <2>4. \A l \in Levels : barriers'[l + 1] = entry'[l]
    BY <2>1, <2>2 DEF Pipelined
  <2>5. \A i, j \in 0 .. NumConsumers : i <= j => barriers'[j] <= barriers'[i]
    BY <2>1, <2>3 DEF Pipelined
  <2>6. \A l \in Levels : pc'[l] \in {"run", "advance"} => entry'[l] < barriers'[l]
    <3> SUFFICES ASSUME NEW l \in Levels, pc[l] \in {"run", "advance"}
                 PROVE  entry[l] < barriers'[l]
      BY Zenon
    <3>1. entry[l] < barriers[l] /\ entry[l] \in Nat
      BY Zenon DEF Pipelined, TypeOK
    <3>2. barriers[l] \in Nat /\ barriers[l] <= barriers'[l]
      BY <2>1, <2>2, <2>3
    <3>3. barriers'[l] \in Nat
      BY <2>1, <2>2, <2>3
    <3> QED
      BY <3>1, <3>2, <3>3
  <2>7. allElements' = barriers'[0] /\ allElements' <= MaxElements
    BY <2>1, <2>3 DEF Pipelined, TypeOK
  <2> QED
    BY <2>4, <2>5, <2>6, <2>7 DEF Pipelined, TypeOK
<1>3. SpareSlotKept'
  <2>1. barriers'[0] = barriers[0] + 1 /\ barriers'[NumConsumers] = barriers[NumConsumers]
    BY DEF TypeOK
  <2>2. barriers[0] \in Nat /\ barriers[NumConsumers] \in Nat
    BY DEF TypeOK
  <2> QED
    BY <2>1, <2>2 DEF SpareSlotKept
<1>4. LiveSlotsIntact'
  <2>1. barriers'[NumConsumers] = barriers[NumConsumers]
    BY DEF TypeOK
  <2> QED
    BY Zenon, <2>1 DEF LiveSlotsIntact, ElementAt
<1>5. HistoryFollowsBarriers'
  <2>1. barriers'[NumConsumers] = barriers[NumConsumers]
    BY DEF TypeOK
  <2> QED
    BY Zenon, <2>1 DEF HistoryFollowsBarriers, CompletedInOrder
<1>6. TotalsGrow'
  BY Zenon DEF TotalsGrow
<1>7. MemoryAccounted'
  BY DEF MemoryAccounted
<1> QED
  BY Zenon, <1>1, <1>2, <1>3, <1>4, <1>5, <1>6, <1>7

\* A thread that looks at the flag moves no position.
LEMMA LoopStep ==
    ASSUME IInv, NEW l \in Levels, Loop(l)
    PROVE  IInv'
<1> USE DEF IInv, Loop, threadVars, producerVars, historyVars
<1>a. LastLevel \in Levels /\ NumConsumers \in 0 .. NumConsumers
  BY DEF Levels, LastLevel
<1>1. TypeOK'
  <2>1. pc' \in [Levels -> PCs]
    BY Zenon DEF TypeOK, PCs
  <2> QED
    BY Zenon, <2>1 DEF TypeOK
<1>2. Pipelined'
  BY Zenon DEF Pipelined, TypeOK, Levels, LastLevel
<1>3. SpareSlotKept'
  BY DEF SpareSlotKept, TypeOK
<1>4. LiveSlotsIntact'
  BY DEF LiveSlotsIntact, ElementAt
<1>5. HistoryFollowsBarriers'
  <2>1. pc'[LastLevel] \in {"inspect", "complete"} \/ pc[LastLevel] \in {"inspect", "complete"} => pc'[LastLevel] = pc[LastLevel]
    BY Zenon, <1>a DEF TypeOK
  <2> QED
    BY Zenon, <2>1 DEF HistoryFollowsBarriers, CompletedInOrder
<1>6. TotalsGrow'
  BY DEF TotalsGrow
<1>7. MemoryAccounted'
  BY DEF MemoryAccounted
<1> QED
  BY Zenon, <1>1, <1>2, <1>3, <1>4, <1>5, <1>6, <1>7

\* A thread that finds an element finds a released one.
LEMMA TryNextStep ==
    ASSUME IInv, NEW l \in Levels, TryNext(l)
    PROVE  IInv'
<1> USE DEF IInv, TryNext, threadVars, producerVars, historyVars
<1>a. LastLevel \in Levels /\ NumConsumers \in 0 .. NumConsumers
  BY DEF Levels, LastLevel
<1>1. TypeOK'
  <2>1. pc' \in [Levels -> PCs]
    BY Zenon DEF TypeOK, PCs
  <2>2. resume' \in [Levels -> {"loop", "tryNext"}]
    BY Zenon DEF TypeOK
  <2> QED
    BY Zenon, <2>1, <2>2 DEF TypeOK
<1>2. Pipelined'
  <2>1. \A k \in Levels : k \in 0 .. NumConsumers /\ k + 1 \in 0 .. NumConsumers
    BY DEF Levels
  <2>2. entry[l] # barriers[l] => entry[l] < barriers[l]
    <3>1. entry[l] <= barriers[l]
      BY <2>1 DEF Pipelined
    <3>2. entry[l] \in Nat /\ barriers[l] \in Nat
      BY Zenon, <2>1 DEF TypeOK
    <3> QED
      BY <3>1, <3>2
  <2>3. \A k \in Levels : pc'[k] \in {"run", "advance"} => entry[k] < barriers[k]
    BY SMTT(30), <2>2, SMTT(40) DEF Pipelined, TypeOK
  <2>4. \A k \in Levels : pc'[k] \in {"inspect", "complete"} => pc'[k] = pc[k]
    BY ZenonT(60) DEF TypeOK
  <2> QED
    BY Zenon, <2>3, <2>4 DEF Pipelined
<1>3. SpareSlotKept'
  BY DEF SpareSlotKept, TypeOK
<1>4. LiveSlotsIntact'
  BY Zenon DEF LiveSlotsIntact, ElementAt
<1>5. HistoryFollowsBarriers'
  <2>1. pc'[LastLevel] \in {"inspect", "complete"} \/ pc[LastLevel] \in {"inspect", "complete"} => pc'[LastLevel] = pc[LastLevel]
    BY <1>a DEF TypeOK
  <2> QED
    BY Zenon, <2>1 DEF HistoryFollowsBarriers, CompletedInOrder
<1>6. TotalsGrow'
  BY DEF TotalsGrow
<1>7. MemoryAccounted'
  BY DEF MemoryAccounted
<1> QED
  BY <1>1, <1>2, <1>3, <1>4, <1>5, <1>6, <1>7

\* The consumer changes only the skipped flag of an element that is live.
LEMMA ConsumeStep ==
    ASSUME IInv, NEW l \in Levels, NEW aborted \in BOOLEAN, Consume(l, aborted)
    PROVE  IInv'
<1> USE DEF IInv, Consume, threadVars, producerVars, historyVars
<1>a. LastLevel \in Levels /\ NumConsumers \in 0 .. NumConsumers
  BY DEF Levels, LastLevel
<1>0. entry[l] \in Nat
  BY Zenon DEF TypeOK
<1>1. TypeOK'
  <2>1. slots' \in [0 .. Capacity - 1 -> Element]
    <3> DEFINE s == SlotOf(entry[l])
    <3>1. slots \in [0 .. Capacity - 1 -> Element] /\ s \in 0 .. Capacity - 1
      BY Zenon, <1>0, SlotInRange DEF TypeOK
    <3>2. slots' = [slots EXCEPT ![s].skipped = @ \/ aborted]
      OBVIOUS
    <3> HIDE DEF s, IInv, Consume
    <3>3. [slots[s] EXCEPT !.skipped = @ \/ aborted] \in Element
      BY Zenon, <3>1 DEF Element
    <3>4. slots' = [slots EXCEPT ![s] = [slots[s] EXCEPT !.skipped = @ \/ aborted]]
      BY <3>2
    <3> QED
      BY Zenon, <3>1, <3>3, <3>4
  <2>2. ran' \in [1 .. MaxElements -> SUBSET (Levels \X BOOLEAN)]
    <3> DEFINE R == Levels \X BOOLEAN
    <3>1. <<l, aborted>> \in R
      OBVIOUS
    <3>2. ran \in [1 .. MaxElements -> SUBSET R]
      BY Zenon DEF TypeOK
    <3> HIDE DEF R
    <3>3. \A S \in SUBSET R : S \union {<<l, aborted>>} \in SUBSET R
      BY Zenon, <3>1
    <3>4. ran' \in [1 .. MaxElements -> SUBSET R]
      BY Zenon, <3>2, <3>3
    <3> QED
      BY Zenon, <3>4 DEF R
  <2>3. pc' \in [Levels -> PCs]
    BY Zenon DEF TypeOK, PCs
  <2>4. resume' \in [Levels -> {"loop", "tryNext"}]
    BY DEF TypeOK
  <2> QED
    BY Zenon, <2>1, <2>2, <2>3, <2>4 DEF TypeOK
<1>2. Pipelined'
  BY Zenon DEF Pipelined, TypeOK, Levels, LastLevel
<1>3. SpareSlotKept'
  BY Zenon DEF SpareSlotKept, TypeOK
<1>4. LiveSlotsIntact'
  <2>1. \A p \in 0 .. allElements - 1 : SlotOf(p) \in 0 .. Capacity - 1
    BY SMTT(30), SlotInRange DEF TypeOK
  <2>2. \A p \in 0 .. allElements - 1 : ElementAt(p)'.id = ElementAt(p).id /\ ElementAt(p)'.size = ElementAt(p).size
    BY ZenonT(60), <1>0, <2>1, SlotInRange DEF ElementAt, TypeOK, Element
  <2> QED
    BY Zenon, <2>2 DEF LiveSlotsIntact
<1>5. HistoryFollowsBarriers'
  <2>1. pc'[LastLevel] \in {"inspect", "complete"} \/ pc[LastLevel] \in {"inspect", "complete"} => pc'[LastLevel] = pc[LastLevel]
    BY Zenon, <1>a DEF TypeOK
  <2> QED
    BY Zenon, <2>1 DEF HistoryFollowsBarriers, CompletedInOrder
<1>6. TotalsGrow'
  BY Zenon DEF TotalsGrow
<1>7. MemoryAccounted'
  BY DEF MemoryAccounted
<1> QED
  BY Zenon, <1>1, <1>2, <1>3, <1>4, <1>5, <1>6, <1>7

\* The thread moves on; the last consumer's thread turns to the inspector.
LEMMA AdvanceStep ==
    ASSUME IInv, NEW l \in Levels, Advance(l)
    PROVE  IInv'
<1> USE DEF IInv, Advance, threadVars, producerVars, historyVars
<1>a. LastLevel \in Levels /\ NumConsumers \in 0 .. NumConsumers
  BY DEF Levels, LastLevel
<1>0. l \in 0 .. NumConsumers /\ l + 1 \in 0 .. NumConsumers /\ l \in Nat /\ l + 1 # 0
  BY DEF Levels
<1>b. entry[l] < barriers[l] /\ entry[l] = barriers[l + 1]
  BY Zenon DEF Pipelined
<1>d. \A i \in 0 .. NumConsumers : barriers[i] \in Nat
  BY Zenon DEF TypeOK
<1>e. \A i \in 0 .. NumConsumers : barriers'[i] = IF i = l + 1 THEN barriers[i] + 1 ELSE barriers[i]
  BY Zenon, <1>0 DEF TypeOK
<1>f. \A k \in Levels : k \in 0 .. NumConsumers /\ k + 1 \in 0 .. NumConsumers
  BY DEF Levels
<1>c. /\ \A i \in 0 .. NumConsumers : barriers[i] \in Nat /\ barriers'[i] \in Nat
      /\ \A i \in 0 .. NumConsumers : barriers'[i] = IF i = l + 1 THEN barriers[i] + 1 ELSE barriers[i]
      /\ \A k \in Levels : k + 1 \in 0 .. NumConsumers
  BY <1>d, <1>e, <1>f
<1>1. TypeOK'
  <2>1. entry' \in [Levels -> Nat]
    BY SMTT(30) DEF TypeOK
  <2>2. barriers' \in [0 .. NumConsumers -> Nat]
    BY Zenon, <1>0, <1>c DEF TypeOK
  <2>3. pc' \in [Levels -> PCs]
    BY Zenon DEF TypeOK, PCs
  <2> QED
    BY Zenon, <2>1, <2>2, <2>3 DEF TypeOK
<1>2. Pipelined'
  <2>1. \A k \in Levels : barriers'[k + 1] = entry'[k]
    <3> SUFFICES ASSUME NEW k \in Levels
                 PROVE  barriers'[k + 1] = entry'[k]
      BY Zenon
    <3>1. barriers[k + 1] = entry[k] /\ entry'[k] = IF k = l THEN entry[k] + 1 ELSE entry[k]
      BY Zenon DEF Pipelined, TypeOK
    <3>2. barriers'[k + 1] = IF k + 1 = l + 1 THEN barriers[k + 1] + 1 ELSE barriers[k + 1]
      BY Zenon, <1>e, <1>f
    <3> QED
      BY <3>1, <3>2 DEF Levels
  <2>2. \A i, j \in 0 .. NumConsumers : i <= j => barriers'[j] <= barriers'[i]
    <3> SUFFICES ASSUME NEW i \in 0 .. NumConsumers, NEW j \in 0 .. NumConsumers, i <= j
                 PROVE  barriers'[j] <= barriers'[i]
      BY Zenon
    <3>1. barriers[j] <= barriers[i] /\ barriers[i] \in Nat /\ barriers[j] \in Nat
      BY Zenon DEF Pipelined, TypeOK
    <3>2. CASE j # l + 1 \/ i = l + 1
      BY <1>c, <3>1, <3>2
    <3>3. CASE j = l + 1 /\ i <= l
      <4>1. barriers[l] <= barriers[i]
        BY Zenon, <1>0, <3>3 DEF Pipelined
      <4> QED
        BY <1>0, <1>b, <1>c, <3>1, <3>3, <4>1
    <3> QED
      BY <1>0, <3>2, <3>3 DEF Levels
  <2>3. \A k \in Levels : pc'[k] \in {"run", "advance"} => entry'[k] < barriers'[k]
    <3> SUFFICES ASSUME NEW k \in Levels, pc'[k] \in {"run", "advance"}
                 PROVE  entry'[k] < barriers'[k]
      BY Zenon
    <3>1. k # l /\ pc[k] \in {"run", "advance"}
      BY Zenon DEF TypeOK
    <3>2. entry[k] < barriers[k] /\ entry'[k] = entry[k] /\ entry[k] \in Nat
      BY Zenon, <3>1 DEF Pipelined, TypeOK
    <3>3. k \in 0 .. NumConsumers
      BY DEF Levels
    <3> QED
      BY <1>c, <3>2, <3>3
  <2>4. \A k \in Levels : pc'[k] \in {"inspect", "complete"} => k = LastLevel /\ entry'[k] > 0
    <3> SUFFICES ASSUME NEW k \in Levels, pc'[k] \in {"inspect", "complete"}
                 PROVE  k = LastLevel /\ entry'[k] > 0
      BY Zenon
    <3>1. CASE k = l
      <4>1. pc'[l] = (IF l = LastLevel THEN "inspect" ELSE resume[l]) /\ resume[l] \in {"loop", "tryNext"}
        BY Zenon DEF TypeOK
      <4>2. entry[l] \in Nat /\ entry'[l] = entry[l] + 1
        BY Zenon DEF TypeOK
      <4>3. l = LastLevel
        BY Zenon, <3>1, <4>1
      <4> QED
        BY <3>1, <4>2, <4>3
    <3>2. CASE k # l
      BY Zenon, <3>2 DEF Pipelined, TypeOK
    <3> QED
      BY Zenon, <3>1, <3>2
  <2>5. barriers'[0] = barriers[0]
    BY <1>0, <1>c
  <2> QED
    BY Zenon, <2>1, <2>2, <2>3, <2>4, <2>5 DEF Pipelined
<1>3. SpareSlotKept'
  <2>1. barriers'[0] = barriers[0] /\ barriers[0] \in Nat
    BY <1>0, <1>c
  <2>2. barriers'[NumConsumers] \in Nat /\ barriers[NumConsumers] \in Nat /\ barriers[NumConsumers] <= barriers'[NumConsumers]
    BY <1>c
  <2>3. barriers[0] - barriers[NumConsumers] + 1 + (IF stage = "none" THEN 0 ELSE 1) <= Capacity
    BY DEF SpareSlotKept
  <2>4. CASE stage = "none"
    BY <2>1, <2>2, <2>3, <2>4 DEF SpareSlotKept
  <2>5. CASE stage # "none"
    BY <2>1, <2>2, <2>3, <2>5 DEF SpareSlotKept
  <2> QED
    BY <2>4, <2>5
<1>4. LiveSlotsIntact'
  <2>1. barriers'[NumConsumers] \in Nat /\ barriers[NumConsumers] \in Nat /\ barriers[NumConsumers] <= barriers'[NumConsumers]
    BY <1>c
  <2>2. \A p \in 0 .. allElements - 1 : barriers'[NumConsumers] <= p + 1 => barriers[NumConsumers] <= p + 1
    BY SMTT(30), <2>1 DEF TypeOK
  <2> QED
    BY Zenon, <2>2 DEF LiveSlotsIntact, ElementAt
<1>5. HistoryFollowsBarriers'
  <2>1. CASE l = LastLevel
    <3>1. pc'[LastLevel] = "inspect" /\ pc[LastLevel] = "advance"
      BY <1>a, <2>1 DEF TypeOK
    <3>2. barriers'[NumConsumers] = barriers[NumConsumers] + 1
      BY <1>a, <1>c, <2>1 DEF LastLevel
    <3>3. barriers[NumConsumers] \in Nat
      BY <1>c
    <3> QED
      BY <3>1, <3>2, <3>3 DEF HistoryFollowsBarriers, CompletedInOrder
  <2>2. CASE l # LastLevel
    <3>1. pc'[LastLevel] = pc[LastLevel]
      BY Zenon, <1>a, <2>2 DEF TypeOK
    <3>2. barriers'[NumConsumers] = barriers[NumConsumers]
      BY <1>0, <1>c, <2>2 DEF LastLevel
    <3> QED
      BY Zenon, <3>1, <3>2 DEF HistoryFollowsBarriers, CompletedInOrder
  <2> QED
    BY <2>1, <2>2
<1>6. TotalsGrow'
  BY Zenon DEF TotalsGrow
<1>7. MemoryAccounted'
  BY DEF MemoryAccounted
<1> QED
  BY Zenon, <1>1, <1>2, <1>3, <1>4, <1>5, <1>6, <1>7

\* The inspector sees the element of the position just advanced over.
LEMMA InspectStep ==
    ASSUME IInv, NEW l \in Levels, Inspect(l)
    PROVE  IInv'
<1> USE DEF IInv, Inspect, threadVars, producerVars, historyVars
<1>a. LastLevel \in Levels /\ NumConsumers \in 0 .. NumConsumers
  BY DEF Levels, LastLevel
<1>b. /\ l = LastLevel /\ entry[l] \in Nat \ {0} /\ entry[l] = barriers[NumConsumers]
      /\ entry[l] \in 1 .. allElements
  BY Zenon, JustReleased
<1>d. ElementAt(entry[l] - 1) \in Element /\ ElementAt(entry[l] - 1).id = entry[l]
  BY Zenon, JustReleased
<1>1. TypeOK'
  <2>1. inspected' \in Seq(Element)
    BY <1>d DEF TypeOK
  <2>2. pc' \in [Levels -> PCs]
    BY Zenon DEF TypeOK, PCs
  <2> QED
    BY Zenon, <2>1, <2>2 DEF TypeOK
<1>2. Pipelined'
  BY Zenon DEF Pipelined, TypeOK, Levels, LastLevel
<1>3. SpareSlotKept'
  BY DEF SpareSlotKept, TypeOK
<1>4. LiveSlotsIntact'
  BY Zenon DEF LiveSlotsIntact, ElementAt
<1>5. HistoryFollowsBarriers'
  <2>1. pc[LastLevel] = "inspect" /\ pc'[LastLevel] = "complete"
    BY <1>a, <1>b DEF TypeOK
  <2>2. Len(inspected) = entry[l] - 1 /\ Len(completed) = entry[l] - 1
    BY <1>b, <2>1 DEF HistoryFollowsBarriers
  <2>3. Len(inspected') = entry[l] /\ \A i \in 1 .. entry[l] : inspected'[i] = IF i = entry[l] THEN ElementAt(entry[l] - 1) ELSE inspected[i]
    BY SMTT(30), <1>b, <1>d, <2>2, SMTT(40) DEF TypeOK
  <2>4. \A i \in DOMAIN inspected' : inspected'[i].id = i
    BY <1>b, <1>d, <2>2, <2>3 DEF HistoryFollowsBarriers, CompletedInOrder, TypeOK
  <2> QED
    BY <1>b, <2>1, <2>2, <2>3, <2>4 DEF HistoryFollowsBarriers, CompletedInOrder
<1>6. TotalsGrow'
  BY Zenon DEF TotalsGrow
<1>7. MemoryAccounted'
  BY DEF MemoryAccounted
<1> QED
  BY Zenon, <1>1, <1>2, <1>3, <1>4, <1>5, <1>6, <1>7

\* The completion handler releases the memory of exactly that element.
LEMMA CompleteStep ==
    ASSUME IInv, NEW l \in Levels, MarkProcessingComplete(l)
    PROVE  IInv'
<1> USE DEF IInv, MarkProcessingComplete, threadVars, producerVars, historyVars
<1>a. LastLevel \in Levels /\ NumConsumers \in 0 .. NumConsumers
  BY DEF Levels, LastLevel
<1>b. /\ l = LastLevel /\ entry[l] \in Nat \ {0} /\ entry[l] = barriers[NumConsumers]
      /\ entry[l] \in 1 .. allElements
  BY Zenon, JustReleased
<1>d. ElementAt(entry[l] - 1) \in Element /\ ElementAt(entry[l] - 1).id = entry[l]
  BY Zenon, JustReleased
<1>e. /\ Len(completed) = entry[l] - 1
      /\ memorySize' \in Nat /\ memorySize' <= MaxMemory
      /\ memorySize' = total[allElements] - total[entry[l]] + (IF stage = "push" THEN pending ELSE 0)
  <2>1. Len(completed) = entry[l] - 1
    BY Zenon, <1>b DEF HistoryFollowsBarriers
  <2>2. ElementAt(entry[l] - 1).size = total[entry[l]] - total[entry[l] - 1]
    BY Zenon, JustReleased
  <2>3. entry[l] \in 0 .. allElements /\ entry[l] - 1 \in 0 .. allElements /\ allElements \in 0 .. MaxElements
    BY <1>b, TotalsTyped
  <2>a. entry[l] \in 0 .. MaxElements /\ entry[l] - 1 \in 0 .. MaxElements
    BY <1>b, <2>3
  <2>4. total[entry[l]] \in Nat /\ total[entry[l] - 1] \in Nat /\ total[allElements] \in Nat
    BY Zenon, <2>3, <2>a DEF TypeOK
  <2>5. total[entry[l] - 1] <= total[entry[l]] /\ total[entry[l]] <= total[allElements]
    BY <1>b, <2>3 DEF TotalsGrow
  <2>6. memorySize' = memorySize - (total[entry[l]] - total[entry[l] - 1])
    BY <2>2
  <2> DEFINE extra == IF stage = "push" THEN pending ELSE 0
  <2>7. extra \in Nat
    BY Zenon DEF TypeOK
  <2>8. memorySize = total[allElements] - total[entry[l] - 1] + extra /\ memorySize <= MaxMemory
    BY Zenon, <2>1 DEF MemoryAccounted
  <2>9. memorySize' = total[allElements] - total[entry[l]] + extra
    BY SMTT(30), <2>4, <2>6, <2>7, <2>8
  <2>10. memorySize' \in Nat /\ memorySize' <= MaxMemory
    BY SMTT(30), <2>4, <2>5, <2>7, <2>8, <2>9, SMTT(40)
  <2> QED
    BY Zenon, <2>1, <2>9, <2>10
<1>1. TypeOK'
  <2>1. completed' \in Seq(Element)
    BY <1>d DEF TypeOK
  <2>2. pc' \in [Levels -> PCs]
    BY Zenon DEF TypeOK, PCs
  <2>3. memorySize' \in Nat
    BY <1>e
  <2> QED
    BY Zenon, <2>1, <2>2, <2>3 DEF TypeOK
<1>2. Pipelined'
  BY Zenon DEF Pipelined, TypeOK, Levels, LastLevel
<1>3. SpareSlotKept'
  BY Zenon DEF SpareSlotKept, TypeOK
<1>4. LiveSlotsIntact'
  BY Zenon DEF LiveSlotsIntact, ElementAt
<1>5. HistoryFollowsBarriers'
  <2>1. pc[LastLevel] = "complete" /\ pc'[LastLevel] \notin {"inspect", "complete"}
    BY Zenon, <1>a, <1>b DEF TypeOK
  <2>2. Len(completed) = entry[l] - 1 /\ Len(inspected) = entry[l]
    BY <1>b, <2>1 DEF HistoryFollowsBarriers
  <2>3. Len(completed') = entry[l] /\ \A i \in 1 .. entry[l] : completed'[i] = IF i = entry[l] THEN ElementAt(entry[l] - 1) ELSE completed[i]
    BY SMTT(30), <1>b, <1>d, <2>2, SMTT(40) DEF TypeOK
  <2>4. \A i \in DOMAIN completed' : completed'[i].id = i
    <3>a. completed \in Seq(Element) /\ \A i \in DOMAIN completed : completed[i].id = i
      BY DEF HistoryFollowsBarriers, CompletedInOrder, TypeOK
    <3>1. \A i \in 1 .. entry[l] - 1 : completed[i].id = i
      <4> HIDE DEF IInv
      <4> QED
        BY <1>b, <2>2, <3>a
    <3>2. DOMAIN completed' = 1 .. entry[l]
      BY <1>b, <1>d, <2>3 DEF TypeOK
    <3> HIDE DEF IInv
    <3> QED
      BY <1>b, <1>d, <2>3, <3>1, <3>2
  <2> QED
    BY <1>b, <2>1, <2>2, <2>3, <2>4 DEF HistoryFollowsBarriers, CompletedInOrder
<1>6. TotalsGrow'
  BY Zenon DEF TotalsGrow
<1>7. MemoryAccounted'
  <2>1. Len(completed') = Len(completed) + 1
    BY <1>d DEF TypeOK
  <2>2. Len(completed') = entry[l]
    BY <1>b, <1>e, <2>1
  <2> QED
    BY Zenon, <1>e, <2>2 DEF MemoryAccounted
<1> QED
  BY <1>1, <1>2, <1>3, <1>4, <1>5, <1>6, <1>7

\* Shutdown touches only the flag.
LEMMA ShutdownStep ==
    ASSUME IInv, Shutdown
    PROVE  IInv'
<1> USE DEF IInv, Shutdown, threadVars, producerVars, historyVars
<1>1. TypeOK'
  BY Zenon DEF TypeOK
<1>2. Pipelined'
  BY Zenon DEF Pipelined, TypeOK, Levels, LastLevel
<1>3. SpareSlotKept'
  BY Zenon DEF SpareSlotKept, TypeOK
<1>4. LiveSlotsIntact'
  BY Zenon DEF LiveSlotsIntact, ElementAt
<1>5. HistoryFollowsBarriers'
  BY Zenon DEF HistoryFollowsBarriers, CompletedInOrder
<1>6. TotalsGrow'
  BY DEF TotalsGrow
<1>7. MemoryAccounted'
  BY DEF MemoryAccounted
<1> QED
  BY Zenon, <1>1, <1>2, <1>3, <1>4, <1>5, <1>6, <1>7

\* Every step preserves the inductive invariant.
LEMMA NextIInv == IInv /\ [Next]_vars => IInv'
<1> SUFFICES ASSUME IInv, [Next]_vars
             PROVE  IInv'
  OBVIOUS
<1>1. ASSUME NEW size \in Sizes, Reserve(size)
      PROVE  IInv'
  BY <1>1, ReserveStep
<1>2. CASE Push
  BY <1>2, PushStep
<1>3. CASE Publish
  BY Zenon, <1>3, PublishStep
<1>4. ASSUME NEW l \in Levels, Consumer(l)
      PROVE  IInv'
  BY Zenon, <1>4, LoopStep, TryNextStep, ConsumeStep, AdvanceStep, InspectStep, CompleteStep DEF Consumer
<1>5. CASE Shutdown
  BY <1>5, ShutdownStep
<1>6. CASE UNCHANGED vars
  <2> USE <1>6 DEF vars, IInv
  <2>1. TypeOK' /\ Pipelined' /\ SpareSlotKept'
    BY Zenon DEF TypeOK, Pipelined, SpareSlotKept
  <2>2. LiveSlotsIntact' /\ TotalsGrow' /\ MemoryAccounted'
    BY Zenon DEF LiveSlotsIntact, ElementAt, TotalsGrow, MemoryAccounted
  <2>3. HistoryFollowsBarriers'
    BY Zenon DEF HistoryFollowsBarriers, CompletedInOrder
  <2> QED
    BY Zenon, <2>1, <2>2, <2>3
<1>7. ASSUME NEW size \in Sizes, Reject(size)
      PROVE  IInv'
  BY <1>6, <1>7 DEF Reject
<1> QED
  BY Zenon, <1>1, <1>2, <1>3, <1>4, <1>5, <1>6, <1>7 DEF Next, Producer

\* The inductive invariant holds in every reachable state.
THEOREM Inductive == Spec => []IInv
  BY InitIInv, NextIInv, PTL DEF Spec

\* Type correctness; in particular m_memorySize never drops below zero, so the
\* size_t of the code never wraps.
THEOREM TypeCorrect == Spec => []TypeOK
<1>1. IInv => TypeOK
  BY DEF IInv
<1> QED
  BY <1>1, Inductive, PTL

\* Whatever the number of consumers and the capacity, processElement never
\* overwrites an element that a consumer, the inspector or the completion
\* handler is using.
THEOREM InUseIntact == Spec => []ElementInUseIntact
<1>1. ASSUME IInv
      PROVE  ElementInUseIntact
  <2> SUFFICES ASSUME NEW l \in Levels, InUse(l)
               PROVE  ElementAt(PositionInUse(l)).id = PositionInUse(l) + 1
    BY Zenon DEF ElementInUseIntact
  <2>1. /\ l \in 0 .. NumConsumers /\ l + 1 \in 0 .. NumConsumers /\ NumConsumers \in 0 .. NumConsumers
        /\ entry[l] \in Nat /\ barriers \in [0 .. NumConsumers -> Nat] /\ allElements \in Nat
    <3>1. entry \in [Levels -> Nat] /\ barriers \in [0 .. NumConsumers -> Nat] /\ allElements \in Nat
      BY Zenon, <1>1 DEF IInv, TypeOK
    <3>2. l \in 0 .. NumConsumers /\ l + 1 \in 0 .. NumConsumers /\ NumConsumers \in 0 .. NumConsumers
      BY DEF Levels
    <3> QED
      BY Zenon, <3>1, <3>2
  <2>2. Pipelined /\ LiveSlotsIntact
    BY <1>1 DEF IInv
  <2>3. /\ barriers[NumConsumers] <= entry[l] /\ entry[l] <= barriers[l] /\ barriers[l] <= allElements
        /\ barriers[l] \in Nat /\ barriers[NumConsumers] \in Nat
    <3>1. barriers[l + 1] = entry[l] /\ barriers[0] <= allElements
      BY <2>1, <2>2 DEF Pipelined
    <3>2. barriers[NumConsumers] <= barriers[l + 1] /\ barriers[l + 1] <= barriers[l] /\ barriers[l] <= barriers[0]
      BY <2>1, <2>2 DEF Pipelined
    <3> QED
      BY <2>1, <3>1, <3>2
  <2>4. CASE pc[l] \in {"run", "advance"}
    <3>1. entry[l] < barriers[l]
      BY Zenon, <2>2, <2>4 DEF Pipelined
    <3>2. entry[l] \in 0 .. allElements - 1 /\ barriers[NumConsumers] <= entry[l] + 1
      BY <2>1, <2>3, <3>1
    <3> QED
      BY Zenon, <2>2, <2>4, <3>2 DEF LiveSlotsIntact, PositionInUse
  <2>5. CASE pc[l] \in {"inspect", "complete"}
    <3>1. entry[l] > 0
      BY Zenon, <2>2, <2>5 DEF Pipelined
    <3>2. l = LastLevel /\ barriers[NumConsumers] = entry[l]
      BY SMTT(30), <2>1, <2>2, <2>5 DEF Pipelined, LastLevel
    <3>3. entry[l] - 1 \in 0 .. allElements - 1 /\ barriers[NumConsumers] <= (entry[l] - 1) + 1
      BY SMTT(30), <2>1, <2>3, <3>1, <3>2
    <3> QED
      BY Zenon, <2>2, <2>5, <3>3 DEF LiveSlotsIntact, PositionInUse
  <2> QED
    BY Zenon, <2>4, <2>5 DEF InUse
<1> QED
  BY <1>1, Inductive, PTL

\* The inspector and the completion handlers are called once for every element,
\* in the order of the pushes, for every instance.
THEOREM InOrder == Spec => []CompletedInOrder
<1>1. IInv => CompletedInOrder
  BY Zenon DEF IInv, HistoryFollowsBarriers
<1> QED
  BY <1>1, Inductive, PTL

\* m_memorySize is exactly the memory of the elements reserved or in flight and
\* stays within the configured maximum, for every instance.
THEOREM MemoryCorrect == Spec => []MemoryAccounted
<1>1. IInv => MemoryAccounted
  BY DEF IInv
<1> QED
  BY <1>1, Inductive, PTL

-----------------------------------------------------------------------------
(* Which consumers are called with an element. *)

\* Consumer l is done with the element at position p, whether it was called with it or passed over it.
Passed(l, p) == entry[l] > p \/ (entry[l] = p /\ pc[l] = "advance")

\* The calls when consumer l was the last one.
CallsUpTo(l, aborted) == {<<k, FALSE>> : k \in 0 .. l - 1} \union {<<l, aborted>>}

\* An element that is live was given to all the consumers that have passed it, or up to the one that aborted it.
CallsOf(p) ==
    IF ElementAt(p).skipped
    THEN \E l \in Levels : ran[p + 1] = CallsUpTo(l, TRUE)
    ELSE ran[p + 1] = {<<k, FALSE>> : k \in {j \in Levels : Passed(j, p)}}

\* No consumer is called with an element that was aborted, and calls are recorded for elements that were pushed.
CallsFollow ==
    /\ \A l \in Levels : pc[l] = "run" => ~ElementAt(entry[l]).skipped
    /\ \A i \in 1 .. MaxElements : i > allElements => ran[i] = {}
    /\ \A p \in 0 .. allElements - 1 : barriers[NumConsumers] <= p + 1 => CallsOf(p)
    /\ SkippedElementsBypassConsumers

\* The positions of the threads are ordered by level.
LEMMA EntriesOrdered ==
    ASSUME IInv
    PROVE  /\ entry \in [Levels -> Nat] /\ barriers[NumConsumers] \in Nat /\ allElements \in Nat
           /\ \A k \in Levels : barriers[NumConsumers] <= entry[k] /\ entry[k] <= allElements
           /\ \A k \in Levels : pc[k] \in {"run", "advance"} => entry[k] < allElements
           /\ \A j, k \in Levels : j < k => entry[k] <= entry[j]
           /\ \A j, k \in Levels : j < k /\ pc[k] \in {"run", "advance"} => entry[k] < entry[j]
<1>1. /\ entry \in [Levels -> Nat] /\ barriers \in [0 .. NumConsumers -> Nat] /\ allElements \in Nat
      /\ NumConsumers \in 0 .. NumConsumers
  BY DEF IInv, TypeOK
<1>2. \A k \in Levels : k \in 0 .. NumConsumers /\ k + 1 \in 0 .. NumConsumers /\ k \in Nat
  BY DEF Levels
<1>3. barriers[0] <= allElements /\ \A k \in Levels : barriers[k + 1] = entry[k]
  BY <1>1 DEF IInv, Pipelined
<1>4. \A i, j \in 0 .. NumConsumers : i <= j => barriers[j] <= barriers[i]
  BY DEF IInv, Pipelined
<1>5. \A k \in Levels : pc[k] \in {"run", "advance"} => entry[k] < barriers[k]
  BY DEF IInv, Pipelined
<1> HIDE DEF IInv
<1>6. \A k \in Levels : barriers[NumConsumers] <= entry[k] /\ entry[k] <= allElements /\ barriers[k] <= allElements
  BY <1>1, <1>2, <1>3, <1>4
<1>7. \A j, k \in Levels : j < k => barriers[k] <= entry[j] /\ entry[k] <= entry[j]
  BY SMTT(30), <1>1, <1>2, <1>3, <1>4
<1>8. \A k \in Levels : pc[k] \in {"run", "advance"} => entry[k] < allElements
  BY <1>1, <1>2, <1>5, <1>6
<1>9. \A j, k \in Levels : j < k /\ pc[k] \in {"run", "advance"} => entry[k] < entry[j]
  BY SMTT(30), <1>1, <1>2, <1>5, <1>7
<1> QED
  BY Zenon, <1>1, <1>6, <1>7, <1>8, <1>9

\* When a consumer is called, those before it are done with the element and those after it are not.
LEMMA PassedWhenRun ==
    ASSUME IInv, NEW l \in Levels, pc[l] = "run", NEW k \in Levels
    PROVE  Passed(k, entry[l]) <=> k < l
<1>1. entry[k] \in Nat /\ entry[l] \in Nat /\ k \in Int /\ l \in Int
  BY EntriesOrdered DEF Levels
<1>2. CASE k < l
  BY <1>1, <1>2, EntriesOrdered DEF Passed
<1>3. CASE k = l
  BY <1>1, <1>3 DEF Passed
<1>4. CASE l < k
  <2>1. entry[k] <= entry[l] /\ (pc[k] = "advance" => entry[k] < entry[l])
    BY Zenon, <1>4, EntriesOrdered
  <2> QED
    BY <1>1, <1>4, <2>1 DEF Passed
<1> QED
  BY <1>1, <1>2, <1>3, <1>4

\* Nothing has been called at first.
LEMMA InitCalls == Init => CallsFollow
  BY DEF Init, CallsFollow, SkippedElementsBypassConsumers

\* A step that calls no consumer and lets none pass changes nothing.
LEMMA QuietCalls ==
    ASSUME CallsFollow, slots' = slots, allElements' = allElements, barriers'[NumConsumers] = barriers[NumConsumers],
           entry' = entry, ran' = ran, completed' = completed,
           \A k \in Levels : pc'[k] = "advance" <=> pc[k] = "advance",
           \A k \in Levels : pc'[k] = "run" => pc[k] = "run" \/ ~ElementAt(entry[k]).skipped
    PROVE  CallsFollow'
<1>1. \A p : ElementAt(p)' = ElementAt(p)
  BY Zenon DEF ElementAt
<1>2. \A p : \A k \in Levels : Passed(k, p)' <=> Passed(k, p)
  BY DEF Passed
<1>3. ASSUME NEW p, CallsOf(p) PROVE CallsOf(p)'
  <2>1. {j \in Levels : Passed(j, p)'} = {j \in Levels : Passed(j, p)}
    BY Zenon, <1>2
  <2> QED
    BY Zenon, <1>1, <1>3, <2>1 DEF CallsOf
<1>4. (\A l \in Levels : pc[l] = "run" => ~ElementAt(entry[l]).skipped)'
  BY <1>1 DEF CallsFollow
<1>5. SkippedElementsBypassConsumers'
  BY Zenon DEF CallsFollow, SkippedElementsBypassConsumers
<1>6. \A i \in 1 .. MaxElements : i > allElements' => ran'[i] = {}
  BY Zenon DEF CallsFollow
<1>7. \A p \in 0 .. allElements' - 1 : barriers'[NumConsumers] <= p + 1 => CallsOf(p)'
  BY <1>3 DEF CallsFollow
<1> QED
  BY Zenon, <1>4, <1>5, <1>6, <1>7 DEF CallsFollow

\* A new element has been given to nobody, and takes the slot of none that is live.
LEMMA PushCalls ==
    ASSUME IInv, IInv', CallsFollow, Push
    PROVE  CallsFollow'
<1>1. /\ slots' = [slots EXCEPT ![SlotOf(allElements)] = [id |-> allElements + 1, size |-> pending, skipped |-> FALSE]]
      /\ allElements' = allElements + 1 /\ barriers' = barriers /\ entry' = entry /\ pc' = pc /\ ran' = ran
      /\ completed' = completed
  BY Zenon DEF Push, threadVars, historyVars
<1>2. allElements \in Nat /\ barriers[NumConsumers] \in Nat /\ slots \in [0 .. Capacity - 1 -> Element]
  BY Zenon, EntriesOrdered DEF IInv, TypeOK
<1>3. allElements' <= MaxElements
  <2>1. allElements' \in 0 .. MaxElements
    <3>1. (IInv => allElements \in 0 .. MaxElements)'
      BY TotalsTyped, PTL
    <3> QED
      BY <3>1
  <2> QED
    BY <2>1
<1>4. ASSUME NEW p \in 0 .. allElements - 1, barriers[NumConsumers] <= p + 1
      PROVE  ElementAt(p)' = ElementAt(p)
  <2>1. ElementAt(p)'.id = p + 1
    BY <1>1, <1>2, <1>4 DEF IInv, LiveSlotsIntact
  <2>2. p + 1 # allElements + 1 /\ p \in Nat
    BY <1>2
  <2>3. SlotOf(p) \in 0 .. Capacity - 1
    BY Zenon, <2>2, SlotInRange
  <2>4. SlotOf(p) # SlotOf(allElements)
    BY Zenon, <1>1, <1>2, <2>1, <2>2, <2>3 DEF ElementAt
  <2> QED
    BY <1>1, <1>2, <2>3, <2>4 DEF ElementAt
<1>5. (\A l \in Levels : pc[l] = "run" => ~ElementAt(entry[l]).skipped)'
  <2> SUFFICES ASSUME NEW l \in Levels, pc[l] = "run", NEW p, p = entry[l] PROVE ~ElementAt(p)'.skipped
    BY Zenon, <1>1 DEF ElementAt
  <2>1. p \in 0 .. allElements - 1 /\ barriers[NumConsumers] <= p + 1
    BY <1>2, EntriesOrdered
  <2>2. ~ElementAt(p).skipped
    BY Zenon DEF CallsFollow
  <2> QED
    BY Zenon, <1>4, <2>1, <2>2
<1>6. \A i \in 1 .. MaxElements : i > allElements' => ran'[i] = {}
  BY <1>1, <1>2 DEF CallsFollow
<1>7. ASSUME NEW p \in 0 .. allElements' - 1, barriers'[NumConsumers] <= p + 1 PROVE CallsOf(p)'
  <2>1. CASE p \in 0 .. allElements - 1
    <3>1. CallsOf(p) /\ ElementAt(p)' = ElementAt(p)
      BY Zenon, <1>1, <1>4, <1>7, <2>1 DEF CallsFollow
    <3>2. {j \in Levels : Passed(j, p)'} = {j \in Levels : Passed(j, p)}
      BY Zenon, <1>1 DEF Passed
    <3> QED
      BY Zenon, <1>1, <3>1, <3>2 DEF CallsOf
  <2>2. CASE p = allElements
    <3>1. ~ElementAt(p)'.skipped
      BY Zenon, <1>1, <1>2, <2>2, SlotInRange DEF ElementAt
    <3>2. \A j \in Levels : ~Passed(j, p)'
      <4> SUFFICES ASSUME NEW j \in Levels PROVE ~(entry[j] > allElements) /\ ~(entry[j] = allElements /\ pc[j] = "advance")
        BY Zenon, <1>1, <2>2 DEF Passed
      <4>1. entry[j] \in Nat /\ entry[j] <= allElements /\ (pc[j] = "advance" => entry[j] < allElements)
        BY Zenon, EntriesOrdered
      <4> QED
        BY <1>2, <4>1
    <3>3. {j \in Levels : Passed(j, p)'} = {}
      BY Zenon, <3>2
    <3>4. ran'[p + 1] = {}
      BY <1>1, <1>2, <1>3, <2>2 DEF CallsFollow
    <3> QED
      BY Zenon, <3>1, <3>3, <3>4 DEF CallsOf
  <2> QED
    BY <1>1, <1>2, <2>1, <2>2
<1>8. SkippedElementsBypassConsumers'
  BY Zenon, <1>1 DEF CallsFollow, SkippedElementsBypassConsumers
<1> QED
  BY Zenon, <1>5, <1>6, <1>7, <1>8 DEF CallsFollow

\* A consumer is called with what was not aborted; what was aborted is passed over without a call.
LEMMA TryNextCalls ==
    ASSUME IInv, CallsFollow, NEW l \in Levels, TryNext(l)
    PROVE  CallsFollow'
<1>1. /\ slots' = slots /\ allElements' = allElements /\ barriers' = barriers /\ entry' = entry /\ ran' = ran
      /\ completed' = completed
  BY Zenon DEF TryNext, historyVars
<1>2. pc \in [Levels -> PCs] /\ pc[l] = "tryNext"
  BY Zenon DEF IInv, TypeOK, TryNext
<1>3. CASE pc' = [pc EXCEPT ![l] = "loop"] \/ (pc' = [pc EXCEPT ![l] = "run"] /\ ~ElementAt(entry[l]).skipped)
  <2>1. \A k \in Levels : pc'[k] = "advance" <=> pc[k] = "advance"
    BY Zenon, <1>2, <1>3
  <2>2. \A k \in Levels : pc'[k] = "run" => pc[k] = "run" \/ ~ElementAt(entry[k]).skipped
    BY Zenon, <1>2, <1>3
  <2> QED
    BY Zenon, <1>1, <2>1, <2>2, QuietCalls
<1>4. CASE pc' = [pc EXCEPT ![l] = "advance"] /\ ElementAt(entry[l]).skipped
  <2>1. \A p : ElementAt(p)' = ElementAt(p)
    BY Zenon, <1>1 DEF ElementAt
  <2>2. (\A k \in Levels : pc[k] = "run" => ~ElementAt(entry[k]).skipped)'
    BY Zenon, <1>1, <1>2, <1>4, <2>1 DEF CallsFollow
  <2>3. ASSUME NEW p, CallsOf(p) PROVE CallsOf(p)'
    <3>1. CASE p = entry[l]
      BY Zenon, <1>1, <1>4, <2>1, <2>3, <3>1 DEF CallsOf
    <3>2. CASE p # entry[l]
      <4>1. \A k \in Levels : Passed(k, p)' <=> Passed(k, p)
        BY Zenon, <1>1, <1>2, <1>4, <3>2 DEF Passed
      <4>2. {j \in Levels : Passed(j, p)'} = {j \in Levels : Passed(j, p)}
        BY Zenon, <4>1
      <4> QED
        BY Zenon, <1>1, <2>1, <2>3, <4>2 DEF CallsOf
    <3> QED
      BY Zenon, <3>1, <3>2
  <2>4. SkippedElementsBypassConsumers'
    BY Zenon, <1>1 DEF CallsFollow, SkippedElementsBypassConsumers
  <2>5. \A i \in 1 .. MaxElements : i > allElements' => ran'[i] = {}
    BY Zenon, <1>1 DEF CallsFollow
  <2>6. \A p \in 0 .. allElements' - 1 : barriers'[NumConsumers] <= p + 1 => CallsOf(p)'
    BY Zenon, <1>1, <2>3 DEF CallsFollow
  <2> QED
    BY Zenon, <2>2, <2>4, <2>5, <2>6 DEF CallsFollow
<1> QED
  BY Zenon, <1>3, <1>4 DEF TryNext

\* The call is recorded for the element at the position of the thread, and an abort marks that element.
LEMMA ConsumeCalls ==
    ASSUME IInv, CallsFollow, NEW l \in Levels, NEW aborted \in BOOLEAN, Consume(l, aborted)
    PROVE  CallsFollow'
<1>0. PICK e : e = entry[l]
  BY Zenon
<1>1. /\ slots' = [slots EXCEPT ![SlotOf(e)].skipped = @ \/ aborted]
      /\ ran' = [ran EXCEPT ![ElementAt(e).id] = @ \union {<<l, aborted>>}]
      /\ pc' = [pc EXCEPT ![l] = "advance"]
      /\ allElements' = allElements /\ barriers' = barriers /\ entry' = entry /\ completed' = completed
      /\ pc[l] = "run"
  BY Zenon, <1>0 DEF Consume
<1>2. /\ allElements \in Nat /\ barriers[NumConsumers] \in Nat /\ slots \in [0 .. Capacity - 1 -> Element]
      /\ pc \in [Levels -> PCs] /\ DOMAIN ran = 1 .. MaxElements
  BY Zenon, EntriesOrdered DEF IInv, TypeOK
<1>3. e \in 0 .. allElements - 1 /\ e \in Nat /\ barriers[NumConsumers] <= e + 1 /\ barriers[NumConsumers] <= e
  BY <1>0, <1>1, <1>2, EntriesOrdered
<1>4. \A p \in 0 .. allElements - 1 : barriers[NumConsumers] <= p + 1 => ElementAt(p).id = p + 1
  BY DEF IInv, LiveSlotsIntact
<1>5. ElementAt(e).id = e + 1 /\ ~ElementAt(e).skipped
  BY Zenon, <1>0, <1>1, <1>3, <1>4 DEF CallsFollow
<1>6. allElements <= MaxElements /\ e + 1 \in 1 .. MaxElements
  <2>1. allElements \in 0 .. MaxElements
    BY TotalsTyped
  <2> QED
    BY <1>3, <2>1
<1>7. \A i \in 1 .. MaxElements : ran'[i] = IF i = e + 1 THEN ran[i] \union {<<l, aborted>>} ELSE ran[i]
  BY Zenon, <1>1, <1>2, <1>5
<1>8. SlotOf(e) \in 0 .. Capacity - 1
  BY Zenon, <1>3, SlotInRange
<1>9. ElementAt(e)'.skipped <=> aborted
  <2>1. slots[SlotOf(e)] \in Element /\ ~slots[SlotOf(e)].skipped
    BY Zenon, <1>2, <1>5, <1>8 DEF ElementAt
  <2>2. slots'[SlotOf(e)] = [slots[SlotOf(e)] EXCEPT !.skipped = slots[SlotOf(e)].skipped \/ aborted]
    BY Zenon, <1>1, <1>2, <1>8
  <2>3. slots'[SlotOf(e)].skipped <=> (slots[SlotOf(e)].skipped \/ aborted)
    BY Zenon, <2>1, <2>2 DEF Element
  <2> QED
    BY Zenon, <2>1, <2>3 DEF ElementAt
<1>10. ASSUME NEW p \in 0 .. allElements - 1, barriers[NumConsumers] <= p + 1, p # e
       PROVE  ElementAt(p)' = ElementAt(p) /\ ran'[p + 1] = ran[p + 1]
  <2>1. ElementAt(p).id # ElementAt(e).id
    BY <1>2, <1>3, <1>4, <1>10
  <2>2. SlotOf(p) # SlotOf(e)
    BY Zenon, <2>1 DEF ElementAt
  <2>3. p \in Nat /\ p + 1 \in 1 .. MaxElements /\ p + 1 # e + 1
    <3>1. allElements \in 0 .. MaxElements
      BY Zenon, TotalsTyped
    <3> QED
      BY <1>3, <1>10, <3>1
  <2>4. SlotOf(p) \in 0 .. Capacity - 1
    BY Zenon, <2>3, SlotInRange
  <2> QED
    BY Zenon, <1>1, <1>2, <1>7, <2>2, <2>3, <2>4 DEF ElementAt
<1>11. (\A k \in Levels : pc[k] = "run" => ~ElementAt(entry[k]).skipped)'
  <2> SUFFICES ASSUME NEW k \in Levels, pc'[k] = "run", NEW p, p = entry[k] PROVE ~ElementAt(p)'.skipped
    BY Zenon, <1>1 DEF ElementAt
  <2>1. k # l /\ pc[k] = "run"
    BY Zenon, <1>1, <1>2
  <2>2. p # e
    <3>1. entry[k] \in Nat /\ entry[l] \in Nat /\ k \in Int /\ l \in Int
      BY EntriesOrdered DEF Levels
    <3>2. k < l => entry[l] < entry[k]
      BY Zenon, <1>1, EntriesOrdered
    <3>3. l < k => entry[k] < entry[l]
      BY Zenon, <2>1, EntriesOrdered
    <3> QED
      BY <1>0, <2>1, <3>1, <3>2, <3>3
  <2>3. p \in 0 .. allElements - 1 /\ barriers[NumConsumers] <= p + 1
    BY <1>2, <2>1, EntriesOrdered
  <2>4. ~ElementAt(p).skipped
    BY Zenon, <2>1 DEF CallsFollow
  <2> QED
    BY Zenon, <1>10, <2>2, <2>3, <2>4
<1>12. \A i \in 1 .. MaxElements : i > allElements' => ran'[i] = {}
  <2> SUFFICES ASSUME NEW i \in 1 .. MaxElements, i > allElements PROVE ran'[i] = {}
    BY Zenon, <1>1
  <2>1. ran[i] = {}
    BY Zenon DEF CallsFollow
  <2>2. i # e + 1
    BY <1>2, <1>3
  <2> QED
    BY Zenon, <1>7, <2>1, <2>2
<1>13. ASSUME NEW p \in 0 .. allElements' - 1, barriers'[NumConsumers] <= p + 1 PROVE CallsOf(p)'
  <2>1. CASE p # e
    <3>1. CallsOf(p) /\ ElementAt(p)' = ElementAt(p) /\ ran'[p + 1] = ran[p + 1]
      BY Zenon, <1>1, <1>10, <1>13, <2>1 DEF CallsFollow
    <3>2. \A k \in Levels : Passed(k, p)' <=> Passed(k, p)
      BY Zenon, <1>0, <1>1, <1>2, <2>1 DEF Passed
    <3>3. {j \in Levels : Passed(j, p)'} = {j \in Levels : Passed(j, p)}
      BY <3>2
    <3> QED
      BY Zenon, <3>1, <3>3 DEF CallsOf
  <2>2. CASE p = e
    <3>1. \A k \in Levels : Passed(k, e) <=> k < l
      BY Zenon, <1>0, <1>1, PassedWhenRun
    <3>2. ran[e + 1] = {<<k, FALSE>> : k \in {j \in Levels : Passed(j, e)}}
      BY Zenon, <1>3, <1>5 DEF CallsFollow, CallsOf
    <3>3. {j \in Levels : Passed(j, e)} = 0 .. l - 1
      BY <3>1 DEF Levels
    <3>4. ran'[e + 1] = CallsUpTo(l, aborted)
      BY Zenon, <1>6, <1>7, <3>2, <3>3 DEF CallsUpTo
    <3>5. CASE aborted
      <4>1. aborted = TRUE
        BY Zenon, <3>5
      <4>2. ElementAt(e)'.skipped /\ ran'[e + 1] = CallsUpTo(l, TRUE)
        BY Zenon, <1>9, <3>4, <4>1
      <4>3. CallsOf(e)'
        BY Zenon, <4>2 DEF CallsOf
      <4> QED
        BY Zenon, <2>2, <4>3
    <3>6. CASE ~aborted
      <4>1. \A k \in Levels : Passed(k, e)' <=> (k < l \/ k = l)
        <5>1. \A k \in Levels : k # l => (Passed(k, e)' <=> Passed(k, e))
          <6>1. \A k \in Levels : k # l => pc'[k] = pc[k]
            BY Zenon, <1>1, <1>2
          <6> QED
            BY Zenon, <1>1, <6>1 DEF Passed
        <5>2. Passed(l, e)'
          BY Zenon, <1>0, <1>1, <1>2 DEF Passed
        <5> QED
          BY Zenon, <3>1, <5>1, <5>2
      <4>2. {j \in Levels : Passed(j, e)'} = (0 .. l - 1) \union {l}
        BY <4>1 DEF Levels
      <4>3. CallsUpTo(l, aborted) = {<<k, FALSE>> : k \in (0 .. l - 1) \union {l}}
        BY Zenon, <3>6 DEF CallsUpTo
      <4>4. ~ElementAt(e)'.skipped /\ ran'[e + 1] = {<<k, FALSE>> : k \in {j \in Levels : Passed(j, e)'}}
        BY Zenon, <1>9, <3>4, <3>6, <4>2, <4>3
      <4>5. CallsOf(e)'
        BY Zenon, <4>4 DEF CallsOf
      <4> QED
        BY <2>2, <4>5
    <3> QED
      BY Zenon, <3>5, <3>6
  <2> QED
    BY Zenon, <2>1, <2>2
<1>14. SkippedElementsBypassConsumers'
  <2> SUFFICES ASSUME NEW i \in DOMAIN completed
               PROVE  \E k \in Levels :
                        /\ ran'[i] = {<<j, FALSE>> : j \in 0 .. k - 1} \union {<<k, completed[i].skipped>>}
                        /\ ~completed[i].skipped => k = LastLevel
    BY Zenon, <1>1 DEF SkippedElementsBypassConsumers
  <2>1. i \in 1 .. Len(completed) /\ Len(completed) \in Nat /\ Len(completed) <= barriers[NumConsumers]
    <3>1. DOMAIN completed = 1 .. Len(completed)
      BY DEF IInv, TypeOK
    <3> QED
      BY Zenon, <3>1, LenIsNat, LevelBounds
  <2>2. i \in 1 .. MaxElements /\ i # e + 1
    BY <1>2, <1>3, <1>6, <2>1
  <2>3. ran'[i] = ran[i]
    BY Zenon, <1>7, <2>2
  <2> QED
    BY Zenon, <2>3 DEF CallsFollow, SkippedElementsBypassConsumers
<1> QED
  BY Zenon, <1>11, <1>12, <1>13, <1>14 DEF CallsFollow

\* A thread that moves on was done with the element before.
LEMMA AdvanceCalls ==
    ASSUME IInv, CallsFollow, NEW l \in Levels, Advance(l)
    PROVE  CallsFollow'
<1>1. /\ slots' = slots /\ allElements' = allElements /\ ran' = ran /\ completed' = completed
      /\ entry' = [entry EXCEPT ![l] = @ + 1] /\ barriers' = [barriers EXCEPT ![l + 1] = @ + 1]
      /\ pc' = [pc EXCEPT ![l] = IF l = LastLevel THEN "inspect" ELSE resume[l]] /\ pc[l] = "advance"
  BY Zenon DEF Advance, historyVars
<1>2. /\ pc \in [Levels -> PCs] /\ resume[l] \in {"loop", "tryNext"} /\ entry \in [Levels -> Nat]
      /\ barriers \in [0 .. NumConsumers -> Nat] /\ allElements \in Nat
  BY Zenon DEF IInv, TypeOK
<1>3. barriers[NumConsumers] <= barriers'[NumConsumers] /\ barriers'[NumConsumers] \in Nat /\ barriers[NumConsumers] \in Nat
  <2>1. NumConsumers \in 0 .. NumConsumers
    OBVIOUS
  <2> QED
    BY <1>1, <1>2, <2>1
<1>4. \A p : ElementAt(p)' = ElementAt(p)
  BY <1>1 DEF ElementAt
<1>5. ASSUME NEW p \in Nat, NEW k \in Levels PROVE Passed(k, p)' <=> Passed(k, p)
  <2>1. CASE k # l
    BY <1>1, <1>2, <2>1 DEF Passed
  <2>2. CASE k = l
    <3>1. entry'[k] = entry[k] + 1 /\ pc[k] = "advance" /\ pc'[k] # "advance" /\ entry[k] \in Nat
      BY Zenon, <1>1, <1>2, <2>2
    <3>2. Passed(k, p) <=> entry[k] >= p
      BY <3>1 DEF Passed
    <3>3. Passed(k, p)' <=> entry[k] + 1 > p
      BY Zenon, <3>1 DEF Passed
    <3> QED
      BY <3>1, <3>2, <3>3
  <2> QED
    BY <2>1, <2>2
<1>6. (\A k \in Levels : pc[k] = "run" => ~ElementAt(entry[k]).skipped)'
  <2> SUFFICES ASSUME NEW k \in Levels, pc'[k] = "run" PROVE ~(ElementAt(entry[k]).skipped)'
    BY Zenon
  <2>1. k # l /\ pc[k] = "run" /\ entry'[k] = entry[k]
    BY Zenon, <1>1, <1>2
  <2> QED
    BY Zenon, <1>4, <2>1 DEF CallsFollow
<1>7. ASSUME NEW p \in 0 .. allElements' - 1, barriers'[NumConsumers] <= p + 1 PROVE CallsOf(p)'
  <2>1. p \in 0 .. allElements - 1 /\ p \in Nat /\ barriers[NumConsumers] <= p + 1
    BY <1>1, <1>2, <1>3, <1>7
  <2>2. CallsOf(p)
    BY <2>1 DEF CallsFollow
  <2>3. {j \in Levels : Passed(j, p)'} = {j \in Levels : Passed(j, p)}
    BY <1>5, <2>1
  <2> QED
    BY Zenon, <1>1, <1>4, <2>2, <2>3 DEF CallsOf
<1>8. SkippedElementsBypassConsumers'
  BY Zenon, <1>1 DEF CallsFollow, SkippedElementsBypassConsumers
<1>9. \A i \in 1 .. MaxElements : i > allElements' => ran'[i] = {}
  BY Zenon, <1>1 DEF CallsFollow
<1> QED
  BY Zenon, <1>6, <1>7, <1>8, <1>9 DEF CallsFollow

\* What is completed was passed by all consumers.
LEMMA CompleteCalls ==
    ASSUME IInv, CallsFollow, NEW l \in Levels, MarkProcessingComplete(l)
    PROVE  CallsFollow'
<1> DEFINE p == entry[l] - 1
           element == ElementAt(p)
<1>1. /\ slots' = slots /\ allElements' = allElements /\ ran' = ran /\ barriers' = barriers /\ entry' = entry
      /\ completed' = Append(completed, element) /\ pc' = [pc EXCEPT ![l] = resume[l]] /\ pc[l] = "complete"
  BY Zenon DEF MarkProcessingComplete
<1>2. /\ pc \in [Levels -> PCs] /\ resume[l] \in {"loop", "tryNext"} /\ completed \in Seq(Element)
      /\ allElements \in Nat /\ barriers[NumConsumers] \in Nat
  BY Zenon, EntriesOrdered DEF IInv, TypeOK
<1>3. /\ l = LastLevel /\ entry[l] = barriers[NumConsumers] /\ entry[l] \in 1 .. allElements
      /\ element \in Element
  BY Zenon, <1>1, JustReleased
<1>4. Len(completed) = p /\ p \in 0 .. allElements - 1 /\ p \in Nat /\ barriers[NumConsumers] <= p + 1
  <2>1. Len(completed) = barriers[NumConsumers] - 1
    BY Zenon, <1>1, <1>3 DEF IInv, HistoryFollowsBarriers
  <2> QED
    BY <1>2, <1>3, <2>1
<1>5. CallsOf(p)
  BY Zenon, <1>4 DEF CallsFollow
<1>6. \A k \in Levels : Passed(k, p)
  <2> SUFFICES ASSUME NEW k \in Levels PROVE entry[k] > p
    BY DEF Passed
  <2>1. barriers[NumConsumers] <= entry[k] /\ entry[k] \in Nat
    BY Zenon, EntriesOrdered
  <2> QED
    BY <1>2, <1>3, <2>1
<1>7. \E k \in Levels :
        /\ ran[p + 1] = {<<j, FALSE>> : j \in 0 .. k - 1} \union {<<k, element.skipped>>}
        /\ ~element.skipped => k = LastLevel
  <2>1. CASE element.skipped
    <3>1. PICK k \in Levels : ran[p + 1] = CallsUpTo(k, TRUE)
      BY Zenon, <1>5, <2>1 DEF CallsOf
    <3>2. element.skipped = TRUE
      BY Zenon, <1>3, <2>1 DEF Element
    <3> QED
      BY Zenon, <2>1, <3>1, <3>2 DEF CallsUpTo
  <2>2. CASE ~element.skipped
    <3>1. ran[p + 1] = {<<k, FALSE>> : k \in {j \in Levels : Passed(j, p)}}
      BY Zenon, <1>5, <2>2 DEF CallsOf
    <3>2. {j \in Levels : Passed(j, p)} = (0 .. LastLevel - 1) \union {LastLevel}
      BY <1>6 DEF Levels, LastLevel
    <3>3. element.skipped = FALSE
      BY Zenon, <1>3, <2>2 DEF Element
    <3>4. ran[p + 1] = {<<j, FALSE>> : j \in 0 .. LastLevel - 1} \union {<<LastLevel, FALSE>>}
      BY Zenon, <3>1, <3>2
    <3> QED
      BY Zenon, <1>3, <3>3, <3>4
  <2> QED
    BY Zenon, <2>1, <2>2
<1> HIDE DEF element, p
<1>8. SkippedElementsBypassConsumers'
  <2>1. /\ DOMAIN completed' = 1 .. p + 1 /\ completed'[p + 1] = element
        /\ \A i \in 1 .. p : i \in DOMAIN completed /\ completed'[i] = completed[i]
    BY <1>1, <1>2, <1>3, <1>4
  <2> SUFFICES ASSUME NEW i \in 1 .. p + 1
               PROVE  \E k \in Levels :
                        /\ ran[i] = {<<j, FALSE>> : j \in 0 .. k - 1} \union {<<k, completed'[i].skipped>>}
                        /\ ~completed'[i].skipped => k = LastLevel
    BY Zenon, <1>1, <2>1 DEF SkippedElementsBypassConsumers
  <2>2. CASE i = p + 1
    BY Zenon, <1>7, <2>1, <2>2
  <2>3. CASE i \in 1 .. p
    BY Zenon, <2>1, <2>3 DEF CallsFollow, SkippedElementsBypassConsumers
  <2>4. i = p + 1 \/ i \in 1 .. p
    BY <1>4
  <2> QED
    BY Zenon, <2>2, <2>3, <2>4
<1>9. /\ \A k \in Levels : pc'[k] = "advance" <=> pc[k] = "advance"
      /\ \A k \in Levels : pc'[k] = "run" => pc[k] = "run"
  BY Zenon, <1>1, <1>2
<1>10. \A q : ElementAt(q)' = ElementAt(q)
  BY <1>1 DEF ElementAt
<1>11. (\A k \in Levels : pc[k] = "run" => ~ElementAt(entry[k]).skipped)'
  BY Zenon, <1>1, <1>9, <1>10 DEF CallsFollow
<1>12. \A q \in 0 .. allElements' - 1 : barriers'[NumConsumers] <= q + 1 => CallsOf(q)'
  <2> SUFFICES ASSUME NEW q, CallsOf(q) PROVE CallsOf(q)'
    BY Zenon, <1>1 DEF CallsFollow
  <2>1. {j \in Levels : Passed(j, q)'} = {j \in Levels : Passed(j, q)}
    BY Zenon, <1>1, <1>9 DEF Passed
  <2> QED
    BY Zenon, <1>1, <1>10, <2>1 DEF CallsOf
<1>13. \A i \in 1 .. MaxElements : i > allElements' => ran'[i] = {}
  BY <1>1 DEF CallsFollow
<1> QED
  BY Zenon, <1>8, <1>11, <1>12, <1>13 DEF CallsFollow

\* Every step keeps the record of the calls.
LEMMA NextCalls == IInv /\ IInv' /\ CallsFollow /\ [Next]_vars => CallsFollow'
<1> SUFFICES ASSUME IInv, IInv', CallsFollow, [Next]_vars PROVE CallsFollow'
  BY Zenon
<1>0. pc \in [Levels -> PCs] /\ barriers \in [0 .. NumConsumers -> Nat]
  BY Zenon DEF IInv, TypeOK
<1>1. ASSUME NEW size \in Sizes, Reserve(size) PROVE CallsFollow'
  BY Zenon, <1>1, QuietCalls DEF Reserve, threadVars, historyVars
<1>2. CASE Push
  BY <1>2, PushCalls
<1>3. CASE Publish
  <2>1. barriers'[NumConsumers] = barriers[NumConsumers]
    BY <1>0, <1>3 DEF Publish
  <2> QED
    BY Zenon, <1>3, <2>1, QuietCalls DEF Publish, threadVars, historyVars
<1>4. ASSUME NEW l \in Levels, Loop(l) PROVE CallsFollow'
  <2>1. /\ \A k \in Levels : pc'[k] = "advance" <=> pc[k] = "advance"
        /\ \A k \in Levels : pc'[k] = "run" => pc[k] = "run"
    BY Zenon, <1>0, <1>4 DEF Loop
  <2> QED
    BY Zenon, <1>4, <2>1, QuietCalls DEF Loop, historyVars
<1>5. ASSUME NEW l \in Levels, Inspect(l) PROVE CallsFollow'
  <2>1. /\ \A k \in Levels : pc'[k] = "advance" <=> pc[k] = "advance"
        /\ \A k \in Levels : pc'[k] = "run" => pc[k] = "run"
    BY Zenon, <1>0, <1>5 DEF Inspect
  <2> QED
    BY Zenon, <1>5, <2>1, QuietCalls DEF Inspect
<1>6. ASSUME NEW l \in Levels, Consumer(l) PROVE CallsFollow'
  BY Zenon, <1>4, <1>5, <1>6, TryNextCalls, ConsumeCalls, AdvanceCalls, CompleteCalls DEF Consumer
<1>7. CASE Shutdown
  BY ZenonT(60), <1>7, QuietCalls DEF Shutdown, threadVars, historyVars
<1>8. CASE UNCHANGED vars
  BY Zenon, <1>8, QuietCalls DEF vars
<1>9. ASSUME NEW size \in Sizes, Reject(size) PROVE CallsFollow'
  BY Zenon, <1>8, <1>9 DEF Reject
<1> QED
  BY Zenon, <1>1, <1>2, <1>3, <1>6, <1>7, <1>8, <1>9 DEF Next, Producer

\* However many consumers there are and whichever of them abort, an element is given to them in their order, up to the
\* one that aborts it, and completes as not aborted only when all of them were called with it.
THEOREM AbortedElementsBypass == Spec => []SkippedElementsBypassConsumers
<1>1. CallsFollow => SkippedElementsBypassConsumers
  BY DEF CallsFollow
<1> QED
  BY <1>1, InitCalls, NextCalls, Inductive, PTL DEF Spec
=============================================================================
