---------------------------- MODULE Finalization ----------------------------
(***************************************************************************)
(* The finalization extension on all voting nodes, within one epoch: the   *)
(* orchestrator, the stage advancer, the message factory, the multi round  *)
(* aggregator and the finalizer that the finalization task polls           *)
(* (FinalizationOrchestratorService.cpp), the voting status file, the      *)
(* proof storage, and nodes that stop and boot again.                      *)
(*                                                                         *)
(* Messages are delivered late, in any order or never.  What the           *)
(* aggregator of a node holds is chosen anew in every step among the       *)
(* messages sent; of a round that the node has left since it booted it is  *)
(* always enough to make the round completable.                            *)
(*                                                                         *)
(* Only Crashing nodes stop.  A node stops between two polls, or in a poll *)
(* before the voting status is saved, and boots at once: a node that is    *)
(* down is one that does nothing.  EnableRevoteOnBoot is off.              *)
(***************************************************************************)
EXTENDS RoundContext

CONSTANTS
    Heads,                  \* the last blocks of the chains that nodes may be on
    VotingSetEndHeight,     \* the last height of the epoch
    PrevoteBlocksMultiple,  \* prevotes end at multiples of this height
    MaxPoint,               \* bound: the last point of the epoch
    Crashing,               \* the nodes that may stop
    MaxCrashes,             \* bound: how often nodes stop
    MaxLostSaves            \* bound: how often nodes stop before they have saved what they sent

ASSUME ConfigurationAssumption ==
    /\ Heads \subseteq Blocks
    /\ VotingSetEndHeight \in Nat \ {0}
    /\ PrevoteBlocksMultiple \in Nat \ {0}
    /\ Crashing \subseteq Voters

ASSUME BoundAssumption ==
    /\ MaxPoint \in Nat \ {0}
    /\ MaxCrashes \in Nat
    /\ MaxLostSaves \in Nat

VARIABLES
    votes,          \* every message ever sent
    firstPoint,     \* the round each node was in when it booted
    previous,       \* the proof each node booted with: MinFinalizationRound and PreviousFinalizedHeightHashPair
    status,         \* the voting status of each node, in its orchestrator and, between polls, in its file
    proof,          \* the statistics of each node's proof storage: the last proof
    crashes,
    lostSaves

vars == <<votes, firstPoint, previous, status, proof, crashes, lostSaves>>

Points == 1 .. MaxPoint

Messages == [voter : Voters, point : Points, stage : Stages, first : Blocks, last : Blocks]

VotingStatuses == [point : Points, hasSentPrevote : BOOLEAN, hasSentPrecommit : BOOLEAN]

Proofs == [point : Points \cup {0}, block : Blocks]

StartOfRound(point) == [point |-> point, hasSentPrevote |-> FALSE, hasSentPrecommit |-> FALSE]

(***************************************************************************)
(* The multi round aggregator, given the messages it holds.                *)
(***************************************************************************)
\* The context of a round that got these messages in an order in which the hash tree links these blocks to their parents.
RoundContextOf(prevotes, precommits, linked) ==
    LET nodes == UNION {Hashes(m.first, m.last) : m \in prevotes}
        known == {m \in precommits : m.last \in nodes}
        tree == [nodes |-> nodes, linked |-> linked]
    IN  [nodes |-> nodes,
         linked |-> linked,
         prevote |-> [b \in nodes |-> WeightOf({m \in prevotes : b \in Hashes(m.first, m.last)})],
         precommit |-> [b \in nodes |-> WeightOf({m \in known : IsDescendant(tree, b, m.last)})],
         cumulativePrecommitWeight |-> WeightOf(known)]

\* A block that some prevotes start at and others go through is linked or not, depending on which came first
\* (FinalizationHashTree::addBranch).
LinkedSets(prevotes) ==
    LET inner == UNION {Hashes(m.first, m.last) \ {m.first} : m \in prevotes}
    IN  {inner \ roots : roots \in SUBSET (inner \cap {m.first : m \in prevotes})}

\* What the aggregator may hold of the messages sent: at most one of every voter for a round and stage.
Held(ms) ==
    LET Others(m) == {o \in ms \ {m} : <<m.voter, m.point, m.stage>> = <<o.voter, o.point, o.stage>>}
        conflicting == UNION {{{m, o} : o \in Others(m)} : m \in ms}
    IN  {held \in SUBSET ms : \A pair \in conflicting : ~(pair \subseteq held)}

VotesOf(point, stage) == {m \in votes : m.point = point /\ m.stage = stage}

QuorumVoters == {voters \in SUBSET Voters : WeightOfVoters(voters) >= CalculateWeightedThreshold}

\* What it may hold of a stage of a round when that is a quorum.  A round has a best prevote only with a quorum of
\* prevotes, and a best precommit only with a quorum of both.
Quorums(point, stage) ==
    LET ms == VotesOf(point, stage)
    IN  IF {m.voter : m \in ms} \in QuorumVoters
            THEN {held \in Held(ms) : {m.voter : m \in held} \in QuorumVoters}
            ELSE {}

\* The contexts of a round that can have a best prevote: with any other a node neither precommits nor leaves the round.
ContextsWith(point, precommitSets) ==
    UNION {{RoundContextOf(prevotes, precommits, linked) : precommits \in precommitSets, linked \in LinkedSets(prevotes)} :
        prevotes \in Quorums(point, "Prevote")}

Contexts(point) == ContextsWith(point, Held(VotesOf(point, "Precommit")))

\* Mutant: the node leaves the round as soon as the precommits it does not hold are no quorum.
CompletableContextsEarly(point) ==
    LET held == {precommits \in Held(VotesOf(point, "Precommit")) :
                    Voters \ {m.voter : m \in precommits} \notin QuorumVoters}
    IN  ContextsWith(point, held)

\* Those with which the node may leave the round: the precommits it does not hold are no quorum.
CompletableContexts(point) ==
    LET held == {precommits \in Held(VotesOf(point, "Precommit")) :
                    Voters \ {m.voter : m \in precommits} \notin QuorumVoters}
    IN  {c \in ContextsWith(point, held) : IsCompletable(c)}

BestPrecommits(point) ==
    {TryFindBestPrecommit(c) : c \in ContextsWith(point, Quorums(point, "Precommit"))} \ {None}

\* What findEstimate may return for the rounds before the current one: the estimate of the last round that has one.  The
\* node has found the rounds since it booted completable; a completable round remains so when its tree is whole
\* (RoundMessageAggregator, CompletedRoundIsBounded), and with the voters and blocks of the configurations in every tree.
\* Of earlier rounds it may hold anything, but nothing before MinFinalizationRound.
Estimates(n) ==
    LET ofRound(point) ==
            CASE point < previous[n].point -> {None}
              [] point >= firstPoint[n] -> {TryFindEstimate(c) : c \in CompletableContexts(point)}
              [] OTHER -> {TryFindEstimate(c) : c \in Contexts(point)} \cup {None}
        upTo[point \in 0 .. MaxPoint] ==
            IF point = 0
                THEN {previous[n].block}
                ELSE LET estimates == ofRound(point)
                     IN  (estimates \ {None}) \cup (IF None \in estimates THEN upTo[point - 1] ELSE {})
    IN  upTo[status[n].point - 1]

\* Mutant: the best prevote is precommitted whatever the earlier rounds can still finalize.
PrecommitTargetsUnchecked(n) == {TryFindBestPrevote(c) : c \in ContextsWith(status[n].point, {{}})} \ {None}

\* canSendPrecommit: the blocks that the node may precommit
PrecommitTargets(n) ==
    LET contexts == ContextsWith(status[n].point, {{}})
        estimates == Estimates(n)
    IN  {target \in Blocks :
            \E c \in contexts : /\ target = TryFindBestPrevote(c)
                                /\ \E estimate \in estimates : IsDescendant(c, estimate, target)}

(***************************************************************************)
(* The message factory.  A prevote names the local chain, which ends at    *)
(* `head', from the height of the last proof up to the last allowed        *)
(* multiple of PrevoteBlocksMultiple.                                      *)
(***************************************************************************)
BlockAt(head, height) == CHOOSE b \in Ancestors[head] : Height(b) = height

ClampDown(value) == (value \div PrevoteBlocksMultiple) * PrevoteBlocksMultiple

ClampUp(value) == ClampDown(value + PrevoteBlocksMultiple - 1)

CreatePrevote(n, point, head) ==
    LET start == Height(proof[n].block)
        chainHeight == Height(head)
        limit == IF chainHeight >= PrevoteBlocksMultiple THEN chainHeight - PrevoteBlocksMultiple ELSE chainHeight
        clamped == ClampDown(Min({limit, VotingSetEndHeight}))
        wanted == IF clamped > start THEN clamped - start + 1 ELSE 1
        count == IF wanted > MaxHashesPerPoint THEN wanted - ClampUp(wanted - MaxHashesPerPoint) ELSE wanted
        Message(first, last) ==
            [voter |-> n, point |-> point, stage |-> "Prevote", first |-> first, last |-> last]
    IN  IF start > chainHeight
            THEN Message(proof[n].block, proof[n].block)
            ELSE Message(BlockAt(head, start), BlockAt(head, start + count - 1))

CreatePrecommit(n, point, target) ==
    [voter |-> n, point |-> point, stage |-> "Precommit", first |-> target, last |-> target]

(***************************************************************************)
(* One poll of the finalization task is SendPrevote, SendPrecommit and     *)
(* StartNextRound, each at most once and in this order, then it saves the  *)
(* voting status and calls the finalizer.  They are actions of their own,  *)
(* as messages come in between; the finalizer of a poll that has not got   *)
(* enough of them changes nothing.  The steps of the stage advancer that   *)
(* wait for time are always possible: enough time may have passed.         *)
(***************************************************************************)

\* The process stops and boots: the orchestrator takes the status from the file, the aggregator is empty.
Boot(n) ==
    /\ n \in Crashing
    /\ crashes < MaxCrashes
    /\ crashes' = crashes + 1
    /\ firstPoint' = [firstPoint EXCEPT ![n] = status[n].point]
    /\ previous' = [previous EXCEPT ![n] = proof[n]]
    /\ UNCHANGED status

\* The poll has changed the status to st and saves it.
Save(n, st) ==
    /\ status' = [status EXCEPT ![n] = st]
    /\ UNCHANGED <<firstPoint, previous, crashes, lostSaves>>

\* Or the process stops before.  A poll that is stopped after it sent both messages is two lost saves here: booting
\* between them makes no difference to what is sent.
LoseSave(n) ==
    /\ lostSaves < MaxLostSaves
    /\ lostSaves' = lostSaves + 1
    /\ Boot(n)

SendPrevote(n, head) ==
    /\ ~status[n].hasSentPrevote
    /\ votes' = votes \cup {CreatePrevote(n, status[n].point, head)}
    /\ Save(n, [status[n] EXCEPT !.hasSentPrevote = TRUE]) \/ LoseSave(n)
    /\ UNCHANGED proof

SendPrecommit(n, target) ==
    /\ ~status[n].hasSentPrecommit
    /\ votes' = votes \cup {CreatePrecommit(n, status[n].point, target)}
    /\ Save(n, [status[n] EXCEPT !.hasSentPrecommit = TRUE]) \/ LoseSave(n)
    /\ UNCHANGED proof

StartNextRound(n) ==
    /\ status[n].point < MaxPoint
    /\ status[n].hasSentPrecommit
    /\ CompletableContexts(status[n].point) /= {}
    /\ status' = [status EXCEPT ![n] = StartOfRound(status[n].point + 1)]
    /\ UNCHANGED <<votes, firstPoint, previous, proof, crashes, lostSaves>>

\* The finalizer saves a proof of the best precommit of the last round that has one, unless its height is that of the last
\* proof.  The round is not older than the last proof's, where the aggregator begins after a boot and of which it holds a
\* best precommit otherwise.  The height may be lower, when the node has booted since: saveProof throws, which ends the process.
Finalize(n, point, best) ==
    /\ point \in proof[n].point .. status[n].point
    /\ \/ /\ Height(best) > Height(proof[n].block)
          /\ proof' = [proof EXCEPT ![n] = [point |-> point, block |-> best]]
          /\ UNCHANGED <<votes, firstPoint, previous, status, crashes, lostSaves>>
       \/ /\ Height(best) < Height(proof[n].block)
          /\ Boot(n)
          /\ UNCHANGED <<votes, proof, lostSaves>>

Restart(n) ==
    /\ Boot(n)
    /\ UNCHANGED <<votes, proof, lostSaves>>

Init ==
    /\ votes = {}
    /\ firstPoint = [n \in Voters |-> 1]
    /\ status = [n \in Voters |-> StartOfRound(1)]
    /\ proof = [n \in Voters |-> [point |-> 0, block |-> Root]]
    /\ previous = proof
    /\ crashes = 0
    /\ lostSaves = 0

Next ==
    \/ \E n \in Voters, head \in Heads : SendPrevote(n, head)
    \/ \E n \in Voters : ~status[n].hasSentPrecommit /\ \E target \in PrecommitTargets(n) : SendPrecommit(n, target)
    \/ \E n \in Voters : StartNextRound(n)
    \/ \E point \in Points :
        \E best \in BestPrecommits(point), n \in Voters : Finalize(n, point, best)
    \/ \E n \in Crashing : Restart(n)

Spec == Init /\ [][Next]_vars

(***************************************************************************)
(* Properties                                                              *)
(***************************************************************************)
\* Every vote, voting status and proof is of a block and a round of the epoch, also after booting.
TypeOK ==
    /\ votes \subseteq Messages
    /\ firstPoint \in [Voters -> Points]
    /\ previous \in [Voters -> Proofs]
    /\ status \in [Voters -> VotingStatuses]
    /\ proof \in [Voters -> Proofs]
    /\ crashes \in 0 .. MaxCrashes
    /\ lostSaves \in 0 .. MaxLostSaves

\* No two nodes ever finalize blocks of different forks, whatever reaches them when: the estimate that canSendPrecommit
\* takes from the earlier rounds keeps later rounds above everything that they can still finalize.  Checked with one
\* voter that restarts; it may lose saves within one round, and then has less than a third of the weight.
Agreement ==
    \A n, o \in Voters :
        \/ proof[n].block \in Ancestors[proof[o].block]
        \/ proof[o].block \in Ancestors[proof[n].block]

\* A voter that has been up since a round before does not precommit against it: all that the round can finalize, with the
\* messages sent so far and those sent after the precommit, is below the block that the voter precommits in a later round,
\* though it decided (canSendPrecommit) with the messages it held then.
PrecommitsCoverEarlierRounds ==
    \A point \in Points :
        LET best == BestPrecommits(point)
        IN  \A m \in votes :
                m.stage = "Precommit" /\ point \in firstPoint[m.voter] .. m.point - 1 => best \subseteq Ancestors[m.last]
=============================================================================
