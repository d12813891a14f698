------------------------ MODULE SpinReaderWriterLock ------------------------
(***************************************************************************)
(* One BasicSpinReaderWriterLock and the threads that use it, in any order *)
(* the guards allow: a thread acquires a reader or a writer lock, promotes *)
(* its reader lock to a writer lock, and releases it.                      *)
(***************************************************************************)
EXTENDS LockWord, FiniteSets

CONSTANT Threads

VARIABLES
    word,       \* m_value
    guard       \* the lock guard each thread holds, or the acquisition it is spinning in

vars == <<word, guard>>

Holding(kinds) == {t \in Threads : guard[t] \in kinds}

Init ==
    /\ word = Unlocked
    /\ guard = [t \in Threads |-> "none"]

Change(t, from, to) ==
    /\ guard[t] = from
    /\ CanMove(word, from, to)
    /\ word' = Move(word, from, to)
    /\ guard' = [guard EXCEPT ![t] = to]

AcquireReader(t) == Change(t, "none", "reader")
ReleaseReader(t) == Change(t, "reader", "none")
MarkWriter(t) == Change(t, "none", "pending")
ActivateWriter(t) == Change(t, "pending", "writer")
ReleaseWriter(t) == Change(t, "writer", "none")
PromoteToWriter(t) == Change(t, "reader", "promoting")
ActivatePromoted(t) == Change(t, "promoting", "promoted")
ReleasePromoted(t) == Change(t, "promoted", "reader")

Next ==
    \E t \in Threads :
        \/ AcquireReader(t) \/ ReleaseReader(t)
        \/ MarkWriter(t) \/ ActivateWriter(t) \/ ReleaseWriter(t)
        \/ PromoteToWriter(t) \/ ActivatePromoted(t) \/ ReleasePromoted(t)

Spec == Init /\ [][Next]_vars

TypeOK ==
    /\ word \in LockWords
    /\ guard \in [Threads -> Guards]

\* The bit fields count the guards: readers, writers that wait or write, and the flag.
WordCountsGuards ==
    /\ word.readers = Cardinality(Holding({"reader"}))
    /\ word.writers = Cardinality(Holding({"pending", "writer", "promoting", "promoted"}))
    /\ word.active <=> Holding(Exclusive) # {}

\* A writer, acquired or promoted, excludes all other writers and all readers.
MutualExclusion ==
    \A t \in Holding(Exclusive) : Holding(Exclusive \union {"reader"}) = {t}
=============================================================================
