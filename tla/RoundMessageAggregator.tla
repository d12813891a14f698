----------------------- MODULE RoundMessageAggregator -----------------------
(***************************************************************************)
(* The message aggregator of one finalization round                        *)
(* (chain/RoundMessageAggregator.cpp): it takes at most one prevote and    *)
(* one precommit of every voter, in the order the network delivers them,   *)
(* and feeds them to the round context.                                    *)
(*                                                                         *)
(* Voters may already have finalized different blocks when they prevote,   *)
(* and may be on a fork of what they finalized, so prevotes start at any   *)
(* of Starts.  Voters precommit as canSendPrecommit lets them: a block for *)
(* which there is a quorum of prevotes, and none below one of Starts, as   *)
(* the target descends from the estimate of the previous round, which is   *)
(* not below what a voter has finalized.                                   *)
(***************************************************************************)
EXTENDS RoundContext

CONSTANTS
    Starts,             \* the blocks that prevotes may start at
    EpochMinHeight,     \* the last height of the previous epoch
    EpochMaxHeight      \* the last height of this epoch

ASSUME StartsAssumption ==
    Starts \subseteq Blocks

ASSUME HeightAssumption ==
    /\ EpochMinHeight \in Nat
    /\ EpochMaxHeight \in Nat

VARIABLES
    context,    \* m_roundContext
    messages    \* m_messages, the accepted messages

roundVars == <<context, messages>>

RoundMessages == [voter : Voters, stage : Stages, first : Blocks, last : Blocks]

\* What voters send: a branch from one of Starts, or a block that is below none of them.
Targets == {b \in Blocks : \A s \in Starts : b \notin Ancestors[s] \ {s}}

Votes ==
    {m \in RoundMessages :
        IF m.stage = "Prevote"
            THEN m.first \in Starts /\ m.first \in Ancestors[m.last]
            ELSE m.first = m.last /\ m.last \in Targets}

\* Every precommit names a block that a quorum of prevotes names, counting the prevotes that are still to come.
ArePrevoted(ms) ==
    \A m \in ms :
        LET others == {o \in ms : o.stage = "Prevote" /\ m.last \notin Hashes(o.first, o.last)}
        IN  m.stage = "Precommit" => TotalWeight - WeightOf(others) >= CalculateWeightedThreshold

\* The checks of add before the one for a message of the same voter and stage.
IsWellFormed(m) ==
    LET count == Cardinality(Hashes(m.first, m.last))
    IN  /\ count \in 1 .. MaxHashesPerPoint
        /\ Height(m.last) >= EpochMinHeight
        /\ m.stage = "Prevote" => /\ Height(m.first) >= EpochMinHeight
                                  /\ Height(m.last) <= EpochMaxHeight
        /\ m.stage = "Precommit" => count = 1

\* A second message of a voter for the stage is redundant or conflicting.
IsFirstOfVoter(ms, m) == \A o \in ms : <<o.voter, o.stage>> /= <<m.voter, m.stage>>

Accept(c, m) ==
    IF m.stage = "Prevote"
        THEN AcceptPrevote(c, m.first, m.last, Weight[m.voter])
        ELSE AcceptPrecommit(c, m.last, Weight[m.voter])

RoundInit ==
    /\ context = NewRoundContext
    /\ messages = {}

Add(m) ==
    IF IsWellFormed(m) /\ IsFirstOfVoter(messages, m)
        THEN /\ messages' = messages \cup {m}
             /\ context' = Accept(context, m)
        ELSE UNCHANGED roundVars

RoundNext == \E m \in Votes : ArePrevoted(messages \cup {m}) /\ Add(m)

RoundSpec == RoundInit /\ [][RoundNext]_roundVars

(***************************************************************************)
(* Properties                                                              *)
(***************************************************************************)

\* The context has the shape of the C++ class: weights never exceed the total weight.
RoundTypeOK ==
    /\ context \in RoundContexts
    /\ messages \subseteq RoundMessages

Prevotes == {m \in messages : m.stage = "Prevote"}

KnownPrecommits == {m \in messages : m.stage = "Precommit" /\ m.last \in context.nodes}

\* Whatever the order of the messages, a candidate carries exactly the weight of the prevotes that name it and, if it is
\* below none of Starts, of the precommits for it or a descendant: precommits that came before the first prevote for
\* their block (m_pendingPrecommitWeights) are counted once, and branches with different starts add up.
WeightsMatchMessages ==
    /\ \A b \in context.nodes :
        context.prevote[b] = WeightOf({m \in Prevotes : b \in Hashes(m.first, m.last)})
    /\ \A b \in context.nodes \cap Targets :
        context.precommit[b] = WeightOf({m \in KnownPrecommits : b \in Ancestors[m.last]})
    /\ context.cumulativePrecommitWeight = WeightOf(KnownPrecommits)

\* What tryFindBestPrecommit has returned is never withdrawn: later messages can only move it to a descendant.
BestPrecommitExtends ==
    [][LET old == TryFindBestPrecommit(context)
           new == TryFindBestPrecommit(context')
       IN  old /= None => new /= None /\ old \in Ancestors[new]]_roundVars

\* The tree knows how its blocks descend from one another: no block was first named by a prevote that starts at it while
\* other prevotes start below it.
IsWhole(c) == \A a, b \in c.nodes : a \in Ancestors[b] => IsDescendant(c, a, b)

\* Once isCompletable has let the voters leave the round, it stays so, and the estimate they carry into the next round
\* bounds what this round can still finalize: no later message moves the estimate up or to another fork, and no best
\* precommit appears that the estimate does not descend from.  In a tree that is not whole isCompletable and the
\* estimate miss descendants of the best prevote, and the round may be left too early.
CompletedRoundIsBounded ==
    [][LET old == TryFindEstimate(context)
           new == TryFindEstimate(context')
           final == TryFindBestPrecommit(context')
       IN  IsCompletable(context) /\ IsWhole(context) =>
             /\ IsCompletable(context')
             /\ new /= None => old /= None /\ new \in Ancestors[old]
             /\ final /= None => old /= None /\ final \in Ancestors[old]]_roundVars
=============================================================================
