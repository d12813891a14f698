---------------------------- MODULE AtomicLedger ----------------------------
(***************************************************************************)
(* What committing blocks promises: a chain replaces the end of the        *)
(* previous one in a single step and is never lost, and an observer sees   *)
(* every chain that was committed, in the order of the commits.            *)
(***************************************************************************)
EXTENDS Naturals, Sequences

CONSTANTS Blocks, MaxHeight, MaxRollback, InitialChain

VARIABLES
    ledger,         \* the committed chain
    history,        \* all the chains that were ever committed
    seen            \* how many of them the observer has seen

Init == ledger = InitialChain /\ history = <<InitialChain>> /\ seen = 1

Commit(common, blocks) ==
    /\ common + MaxRollback >= Len(ledger)
    /\ ledger' = SubSeq(ledger, 1, common) \o blocks
    /\ history' = Append(history, ledger')
    /\ UNCHANGED seen

Observe ==
    /\ seen < Len(history)
    /\ seen' = seen + 1
    /\ UNCHANGED <<ledger, history>>

Next ==
    \/ \E common \in 1 .. Len(ledger), n \in 1 .. MaxHeight : \E blocks \in [1 .. n -> Blocks] : Commit(common, blocks)
    \/ Observe

Spec == Init /\ [][Next]_<<ledger, history, seen>>
=============================================================================
