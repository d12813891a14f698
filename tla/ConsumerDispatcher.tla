------------------------- MODULE ConsumerDispatcher -------------------------
(***************************************************************************)
(* The consumer dispatcher (catapult/disruptor): producers push inputs     *)
(* into a circular buffer, and one thread per consumer passes over every   *)
(* element in order.  Consumer l may use the element at a position once    *)
(* consumer l - 1 has moved barrier l past it.  The last consumer's thread *)
(* also runs the inspector and the completion handler of the element, and  *)
(* does so after it has advanced the last barrier, that is, after the      *)
(* producers may already see the slot as free.                             *)
(***************************************************************************)
EXTENDS Integers, Sequences

CONSTANTS
    NumConsumers,   \* number of consumers, one thread (and one barrier) each
    Capacity,       \* options.DisruptorSlotCount
    MaxMemory,      \* options.DisruptorMaxMemorySize
    Sizes,          \* memory sizes of the inputs that are pushed
    MaxElements     \* bound: number of elements pushed in one behaviour

ASSUME NumConsumersAssumption == NumConsumers \in Nat \ {0}
ASSUME CapacityAssumption == Capacity \in Nat \ {0}
ASSUME MemoryAssumption == MaxMemory \in Nat \ {0} /\ Sizes \subseteq Nat \ {0}
ASSUME MaxElementsAssumption == MaxElements \in Nat

VARIABLES
    slots,          \* Disruptor::m_container, index -> element
    allElements,    \* Disruptor::m_allElementsCount, also the buffer's m_next
    barriers,       \* m_barriers, level -> position
    entry,          \* ConsumerEntry::m_position of each consumer thread
    pc,             \* where each consumer thread is
    resume,         \* where a consumer thread continues after advance
    keepRunning,    \* m_keepRunning
    stage,          \* what the producer that holds m_addSpinLock does next
    pending,        \* the size of the input it adds
    memorySize,     \* m_memorySize
    total,          \* history: total[i] is the size of elements 1 to i together
    ran,            \* history: the consumers called with an element, and if they aborted
    inspected,      \* history: what the inspector was called with
    completed       \* history: what the completion handlers were called with

vars == <<slots, allElements, barriers, entry, pc, resume, keepRunning, stage,
          pending, memorySize, total, ran, inspected, completed>>
threadVars == <<pc, resume>>
producerVars == <<stage, pending>>
historyVars == <<ran, inspected, completed>>

-----------------------------------------------------------------------------
Levels == 0 .. NumConsumers - 1
LastLevel == NumConsumers - 1

PCs == {"loop", "tryNext", "run", "advance", "inspect", "complete", "stopped"}

EmptySlot == [id |-> 0, size |-> 0, skipped |-> FALSE]

\* CircularBuffer::truncateIndex; positions only grow.
SlotOf(position) == position % Capacity

ElementAt(position) == slots[SlotOf(position)]

Init ==
    /\ slots = [i \in 0 .. Capacity - 1 |-> EmptySlot]
    /\ allElements = 0
    /\ barriers = [l \in 0 .. NumConsumers |-> 0]
    /\ entry = [l \in Levels |-> 0]
    /\ pc = [l \in Levels |-> "loop"]
    /\ resume = [l \in Levels |-> "loop"]
    /\ keepRunning = TRUE
    /\ stage = "none"
    /\ pending = 0
    /\ memorySize = 0
    /\ total = [i \in 0 .. MaxElements |-> 0]
    /\ ran = [i \in 1 .. MaxElements |-> {}]
    /\ inspected = <<>>
    /\ completed = <<>>

-----------------------------------------------------------------------------
(* Producers: processElement, serialised by m_addSpinLock. *)

\* Mutant: no slot is kept for the element that is being completed.
CanProcessNextElement_NoSpareSlot ==
    barriers[0] - barriers[NumConsumers] + 1 <= Capacity

\* canProcessNextElement: the second 1 keeps a slot for the element that the
\* last consumer has advanced over and is still inspecting.
CanProcessNextElement ==
    barriers[0] - barriers[NumConsumers] + 1 + 1 <= Capacity

\* Mutant: any free memory is enough.
HasMemoryFor_IgnoresSize(size) == MaxMemory > memorySize

HasMemoryFor(size) == MaxMemory - memorySize >= size

\* Mutant: the reservation is missing.
Reserve_NoAccounting(size) ==
    /\ stage = "none"
    /\ allElements < MaxElements
    /\ CanProcessNextElement
    /\ HasMemoryFor(size)
    /\ stage' = "push"
    /\ pending' = size
    /\ UNCHANGED <<slots, allElements, barriers, entry, threadVars, keepRunning, memorySize, total, historyVars>>

\* The checks, and the reservation that follows them, under the lock.  The
\* barriers and m_memorySize can change between the reads, but only in the
\* direction that frees space.
Reserve(size) ==
    /\ stage = "none"
    /\ allElements < MaxElements
    /\ CanProcessNextElement
    /\ HasMemoryFor(size)
    /\ memorySize' = memorySize + size
    /\ stage' = "push"
    /\ pending' = size
    /\ UNCHANGED <<slots, allElements, barriers, entry, threadVars, keepRunning, total, historyVars>>

\* The dispatcher is full: throw, or return 0; nothing is changed.
Reject(size) ==
    /\ stage = "none"
    /\ ~CanProcessNextElement \/ ~HasMemoryFor(size)
    /\ UNCHANGED vars

\* Disruptor::add moves the new element over whatever is in the next slot.
Push ==
    /\ stage = "push"
    /\ slots' = [slots EXCEPT ![SlotOf(allElements)] =
                    [id |-> allElements + 1, size |-> pending, skipped |-> FALSE]]
    /\ allElements' = allElements + 1
    /\ total' = [total EXCEPT ![allElements + 1] = total[allElements] + pending]
    /\ stage' = "publish"
    /\ UNCHANGED <<barriers, entry, threadVars, keepRunning, pending, memorySize, historyVars>>

\* m_barriers[0].advance() makes the element visible to the first consumer.
Publish ==
    /\ stage = "publish"
    /\ barriers' = [barriers EXCEPT ![0] = @ + 1]
    /\ stage' = "none"
    /\ UNCHANGED <<slots, allElements, entry, threadVars, keepRunning, pending, memorySize, total, historyVars>>

-----------------------------------------------------------------------------
(* Consumer threads. *)

\* Mutant: the flag is not looked at.
Loop_IgnoresShutdown(l) ==
    /\ pc[l] = "loop"
    /\ pc' = [pc EXCEPT ![l] = "tryNext"]
    /\ UNCHANGED <<slots, allElements, barriers, entry, resume, keepRunning, producerVars, memorySize, total, historyVars>>

\* The condition of the thread's outer loop.
Loop(l) ==
    /\ pc[l] = "loop"
    /\ pc' = [pc EXCEPT ![l] = IF keepRunning THEN "tryNext" ELSE "stopped"]
    /\ UNCHANGED <<slots, allElements, barriers, entry, resume, keepRunning, producerVars, memorySize, total, historyVars>>

\* Mutant: skipped elements are processed.
TryNext_IgnoresSkip(l) ==
    /\ pc[l] = "tryNext"
    /\ pc' = [pc EXCEPT ![l] = IF entry[l] = barriers[l] THEN "loop" ELSE "run"]
    /\ UNCHANGED <<slots, allElements, barriers, entry, resume, keepRunning, producerVars, memorySize, total, historyVars>>

\* Mutant: skipped elements are not passed over.
TryNext_WaitsOnSkipped(l) ==
    /\ pc[l] = "tryNext"
    /\ pc' = [pc EXCEPT ![l] = IF entry[l] = barriers[l] \/ ElementAt(entry[l]).skipped THEN "loop" ELSE "run"]
    /\ UNCHANGED <<slots, allElements, barriers, entry, resume, keepRunning, producerVars, memorySize, total, historyVars>>

\* One iteration of tryNext: nothing available (sleep, then check the outer
\* loop's condition), an element to process, or a skipped element to pass over.
TryNext(l) ==
    /\ pc[l] = "tryNext"
    /\ \/ /\ entry[l] = barriers[l]
          /\ pc' = [pc EXCEPT ![l] = "loop"]
          /\ resume' = resume
       \/ /\ entry[l] # barriers[l]
          /\ ~ElementAt(entry[l]).skipped
          /\ pc' = [pc EXCEPT ![l] = "run"]
          /\ resume' = resume
       \/ /\ entry[l] # barriers[l]
          /\ ElementAt(entry[l]).skipped
          /\ pc' = [pc EXCEPT ![l] = "advance"]
          /\ resume' = [resume EXCEPT ![l] = "tryNext"]
    /\ UNCHANGED <<slots, allElements, barriers, entry, keepRunning, producerVars, memorySize, total, historyVars>>

\* The consumer is called; when it aborts, the element is marked as skipped.
Consume(l, aborted) ==
    /\ pc[l] = "run"
    /\ slots' = [slots EXCEPT ![SlotOf(entry[l])].skipped = @ \/ aborted]
    /\ ran' = [ran EXCEPT ![ElementAt(entry[l]).id] = @ \union {<<l, aborted>>}]
    /\ pc' = [pc EXCEPT ![l] = "advance"]
    /\ resume' = [resume EXCEPT ![l] = "loop"]
    /\ UNCHANGED <<allElements, barriers, entry, keepRunning, producerVars, memorySize, total, inspected, completed>>

\* advance: the thread's own position and the barrier of the next level.
Advance(l) ==
    /\ pc[l] = "advance"
    /\ entry' = [entry EXCEPT ![l] = @ + 1]
    /\ barriers' = [barriers EXCEPT ![l + 1] = @ + 1]
    /\ pc' = [pc EXCEPT ![l] = IF l = LastLevel THEN "inspect" ELSE resume[l]]
    /\ UNCHANGED <<slots, allElements, resume, keepRunning, producerVars, memorySize, total, historyVars>>

\* advance, last consumer: the inspector is called with the element that was
\* just advanced over, on the last consumer's thread.
Inspect(l) ==
    /\ pc[l] = "inspect"
    /\ inspected' = Append(inspected, ElementAt(entry[l] - 1))
    /\ pc' = [pc EXCEPT ![l] = "complete"]
    /\ UNCHANGED <<slots, allElements, barriers, entry, resume, keepRunning, producerVars, memorySize, total, ran, completed>>

\* advance, last consumer: markProcessingComplete calls the wrapped handler,
\* which also releases the memory of the element.
MarkProcessingComplete(l) ==
    LET element == ElementAt(entry[l] - 1)
    IN  /\ pc[l] = "complete"
        /\ completed' = Append(completed, element)
        /\ memorySize' = memorySize - element.size
        /\ pc' = [pc EXCEPT ![l] = resume[l]]
        /\ UNCHANGED <<slots, allElements, barriers, entry, resume, keepRunning, producerVars, total, ran, inspected>>

\* shutdown: the threads leave their loops; processElement does not look at
\* the flag.
Shutdown ==
    /\ keepRunning
    /\ keepRunning' = FALSE
    /\ UNCHANGED <<slots, allElements, barriers, entry, threadVars, producerVars, memorySize, total, historyVars>>

-----------------------------------------------------------------------------
Producer ==
    \/ \E size \in Sizes : Reserve(size) \/ Reject(size)
    \/ Push
    \/ Publish

Consumer(l) ==
    \/ Loop(l)
    \/ TryNext(l)
    \/ \E aborted \in BOOLEAN : Consume(l, aborted)
    \/ Advance(l)
    \/ Inspect(l)
    \/ MarkProcessingComplete(l)

Next == Producer \/ (\E l \in Levels : Consumer(l)) \/ Shutdown

Spec == Init /\ [][Next]_vars

\* Every consumer thread is scheduled, and a producer that holds the spin lock
\* runs to the end of its critical section.  Nothing obliges a producer to push.
Fairness ==
    /\ \A l \in Levels : WF_vars(Consumer(l))
    /\ WF_vars(Push \/ Publish)

FairSpec == Spec /\ Fairness

-----------------------------------------------------------------------------
Element == [id : Nat, size : Nat, skipped : BOOLEAN]

\* Every variable has its type; in particular the size_t m_memorySize, which every completion lowers, never goes
\* below zero.
TypeOK ==
    /\ slots \in [0 .. Capacity - 1 -> Element]
    /\ allElements \in Nat
    /\ barriers \in [0 .. NumConsumers -> Nat]
    /\ entry \in [Levels -> Nat]
    /\ pc \in [Levels -> PCs]
    /\ resume \in [Levels -> {"loop", "tryNext"}]
    /\ keepRunning \in BOOLEAN
    /\ stage \in {"none", "push", "publish"}
    /\ pending \in Nat
    /\ memorySize \in Nat
    /\ total \in [0 .. MaxElements -> Nat]
    /\ ran \in [1 .. MaxElements -> SUBSET (Levels \X BOOLEAN)]
    /\ inspected \in Seq(Element)
    /\ completed \in Seq(Element)

\* The position a consumer thread is working on, while it works on one.
InUse(l) == pc[l] \in {"run", "advance", "inspect", "complete"}
PositionInUse(l) == IF pc[l] \in {"inspect", "complete"} THEN entry[l] - 1 ELSE entry[l]

\* A producer never moves a new element over one that a consumer thread, the
\* inspector or the completion handler is still using: the element at the
\* position in use is the one that was pushed to that position.
ElementInUseIntact ==
    \A l \in Levels : InUse(l) => ElementAt(PositionInUse(l)).id = PositionInUse(l) + 1

\* The inspector and the completion handlers see every element exactly once, in
\* the order the elements were pushed, whichever consumer aborted it.
CompletedInOrder ==
    /\ \A i \in DOMAIN inspected : inspected[i].id = i
    /\ \A i \in DOMAIN completed : completed[i].id = i
    /\ Len(completed) <= Len(inspected)

\* m_memorySize is the memory of the elements that are reserved or in flight,
\* and never exceeds the configured maximum (the unsigned subtraction in
\* processElement never wraps).
MemoryAccounted ==
    /\ memorySize = total[allElements] - total[Len(completed)]
                    + (IF stage = "push" THEN pending ELSE 0)
    /\ memorySize <= MaxMemory

\* Consumers are called with an element from the first level up to the one that
\* aborts it and no further; an element completes as not skipped only after
\* every consumer was called with it.
SkippedElementsBypassConsumers ==
    \A i \in DOMAIN completed :
        \E l \in Levels :
            /\ ran[i] = {<<k, FALSE>> : k \in 0 .. l - 1} \union {<<l, completed[i].skipped>>}
            /\ ~completed[i].skipped => l = LastLevel

\* Every accepted element is completed, unless the dispatcher is shut down.
EventuallyCompleted ==
    \A i \in 1 .. MaxElements : allElements >= i ~> (Len(completed) >= i \/ ~keepRunning)

\* shutdown's join returns: every consumer thread leaves its loop.
EventuallyStopped == ~keepRunning ~> \A l \in Levels : pc[l] = "stopped"
=============================================================================
