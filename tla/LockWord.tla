------------------------------ MODULE LockWord ------------------------------
(***************************************************************************)
(* The atomic word of a BasicSpinReaderWriterLock.  Its three bit fields   *)
(* are the fields of a record: the active readers, the writers (pending    *)
(* and active together) and the flag of the active writer.  A guard is     *)
(* what one thread holds of the lock; Moves lists the atomic operations by *)
(* which a guard changes, each of which is one compare and exchange or one *)
(* subtraction on the word.                                                *)
(***************************************************************************)
EXTENDS Naturals

CONSTANTS
    MaxReaders,     \* Reader_Mask: 65535
    MaxWriters      \* Writer_Count_Mask: 32767

ASSUME LimitsAssumption == MaxReaders \in Nat \ {0} /\ MaxWriters \in Nat \ {0}

LockWords == [readers : Nat, writers : Nat, active : BOOLEAN]

Unlocked == [readers |-> 0, writers |-> 0, active |-> FALSE]

Guards == {"none", "reader", "pending", "writer", "promoting", "promoted"}

Exclusive == {"writer", "promoted"}

AddReaders(word, n) == [word EXCEPT !.readers = @ + n]
DropReader(word) == [word EXCEPT !.readers = @ - 1]
AddWriter(word) == [word EXCEPT !.writers = @ + 1]
DropWriter(word) == [word EXCEPT !.writers = @ - 1, !.active = FALSE]

\* Mutant: a reader does not wait at all.
CanAcquireReaderAnyway(word) == word.readers # MaxReaders

\* acquireReader spins while a writer is pending or active and throws when the count is saturated.
CanAcquireReader(word) == word.writers = 0 /\ word.readers # MaxReaders

\* acquireWriter and promoteToWriter throw when the count is saturated.
CanMarkWriter(word) == word.writers # MaxWriters

\* AcquireWriter exchanges only a word that has neither readers nor an active writer.
CanActivateWriter(word) == word.readers = 0 /\ ~word.active

\* The operations of the lock: from which guard to which, whether the exchange succeeds, and the new word.
Moves == {<<"none", "reader">>, <<"reader", "none">>, <<"none", "pending">>, <<"pending", "writer">>,
          <<"writer", "none">>, <<"reader", "promoting">>, <<"promoting", "promoted">>, <<"promoted", "reader">>}

CanMove(word, from, to) ==
    /\ <<from, to>> \in Moves
    /\ <<from, to>> = <<"none", "reader">> => CanAcquireReader(word)
    /\ to \in {"pending", "promoting"} => CanMarkWriter(word)
    /\ to \in Exclusive => CanActivateWriter(word)

Move(word, from, to) ==
    CASE <<from, to>> = <<"none", "reader">> -> AddReaders(word, 1)
      [] <<from, to>> = <<"reader", "none">> -> DropReader(word)
      [] to = "pending" -> AddWriter(word)
      [] to = "promoting" -> AddWriter(DropReader(word))
      [] to \in Exclusive -> [word EXCEPT !.active = TRUE]
      [] <<from, to>> = <<"writer", "none">> -> DropWriter(word)
      [] <<from, to>> = <<"promoted", "reader">> -> AddReaders(DropWriter(word), 1)
=============================================================================
