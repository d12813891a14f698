---------------------------- MODULE RoundContext ----------------------------
(***************************************************************************)
(* The vote arithmetic of one finalization round: the hash tree            *)
(* (chain/FinalizationHashTree.cpp), the weights of the candidate blocks   *)
(* and the predicates on them (chain/RoundContext.cpp).                    *)
(*                                                                         *)
(* A block stands for its (height, hash) pair.  Blocks are numbers whose   *)
(* order is the order of the pairs, so a parent is smaller than its        *)
(* children and a block of lower height is smaller than one of higher.     *)
(* A prevote names the blocks of one branch, from `first' up to `last'; a  *)
(* precommit names one block (first = last).                               *)
(***************************************************************************)
EXTENDS Naturals, FiniteSetsExt

CONSTANTS
    Blocks,     \* the blocks that exist, on all forks
    Ancestors,  \* the blocks from the first block of the chain up to each block, inclusive
    Voters,     \* the accounts with a voting key in the epoch
    Weight,     \* the balance of each voter
    Threshold,  \* the configured quorum is Threshold / Size
    Size,
    UintModulus,        \* 2^64 in the code
    MaxHashesPerPoint   \* the most hashes of a message

None == 0

ASSUME BlocksAssumption ==
    /\ Blocks \subseteq Nat \ {None}
    /\ Ancestors \in [Blocks -> SUBSET Blocks]
    /\ \A b \in Blocks : /\ b \in Ancestors[b]
                         /\ \A a \in Ancestors[b] : Ancestors[a] = {x \in Ancestors[b] : x <= a}
    /\ \E root \in Blocks : \A b \in Blocks : root \in Ancestors[b]

ASSUME WeightAssumption ==
    /\ IsFiniteSet(Voters)
    /\ Weight \in [Voters -> Nat \ {0}]
    /\ Threshold \in Nat \ {0}
    /\ Size \in Nat \ {0}
    /\ Threshold <= Size
    /\ UintModulus \in Nat \ {0}

ASSUME MessageAssumption ==
    MaxHashesPerPoint \in Nat \ {0}

Stages == {"Prevote", "Precommit"}

(***************************************************************************)
(* The real block tree, which no node sees whole.                          *)
(***************************************************************************)
Height(b) == Cardinality(Ancestors[b])

Root == CHOOSE b \in Blocks : Ancestors[b] = {b}

\* The blocks a message with first and last hash names.
Hashes(first, last) == {b \in Ancestors[last] : first \in Ancestors[b]}

\* The sum of what f gives the members of a set.
SumOver(f, set) == MapThenSumSet(LAMBDA x : f[x], set)

\* The weights of all sets of voters, a constant that TLC evaluates once.
WeightTable == {[voters |-> vs, weight |-> SumOver(Weight, vs)] : vs \in SUBSET Voters}

WeightOfVoters(voters) == (CHOOSE entry \in WeightTable : entry.voters = voters).weight

TotalWeight == WeightOfVoters(Voters)

\* The weight of messages, at most one of every voter.
WeightOf(ms) == WeightOfVoters({m.voter : m \in ms})

\* Mutant: the weight that may be missing is taken for the quorum.
CalculateWeightedMinority == (TotalWeight * (Size - Threshold)) \div Size

\* The product wraps: with the configured 6700 / 10000 it needs voters with less than 2^64 / 6700, 31% of all the currency.
CalculateWeightedThreshold == ((TotalWeight * Threshold) % UintModulus) \div Size

(***************************************************************************)
(* The context.  nodes and linked are the hash tree, whose nodes are also  *)
(* the candidates: linked are the nodes inserted with their parent, the    *)
(* others have none.  pending holds precommits for blocks not in the tree. *)
(***************************************************************************)
Weights == [Blocks -> 0 .. TotalWeight]

RoundContexts ==
    [nodes : SUBSET Blocks,
     linked : SUBSET Blocks,
     prevote : Weights,
     precommit : Weights,
     pending : Weights,
     cumulativePrecommitWeight : 0 .. TotalWeight]

NewRoundContext ==
    [nodes |-> {},
     linked |-> {},
     prevote |-> [b \in Blocks |-> 0],
     precommit |-> [b \in Blocks |-> 0],
     pending |-> [b \in Blocks |-> 0],
     cumulativePrecommitWeight |-> 0]

\* The walk from childKey along the parents (findAncestors) reaches parentKey if every node on the way is linked.
IsDescendant(c, parentKey, childKey) ==
    /\ childKey \in c.nodes
    /\ parentKey \in Ancestors[childKey]
    /\ Hashes(parentKey, childKey) \ {parentKey} \subseteq c.linked

\* A node that is already in the tree is left as it was inserted.
AddBranch(c, first, last) ==
    [c EXCEPT !.nodes = @ \cup Hashes(first, last),
              !.linked = @ \cup (Hashes(first, last) \ (c.nodes \cup {first}))]

\* The last candidate, in the order of (height, hash), that matches; None if there is none.
LastMatch(matches) == IF matches = {} THEN None ELSE Max(matches)

CanReachPrecommitThreshold(c, precommit) ==
    precommit + (TotalWeight - c.cumulativePrecommitWeight) >= CalculateWeightedThreshold

TryFindBestPrevote(c) ==
    LastMatch({b \in c.nodes : c.prevote[b] >= CalculateWeightedThreshold})

\* Mutant: a block that can still get a quorum of precommits is taken for one that has it.
TryFindBestPrecommitReachable(c) ==
    LastMatch({b \in c.nodes : /\ c.prevote[b] >= CalculateWeightedThreshold
                               /\ CanReachPrecommitThreshold(c, c.precommit[b])})

TryFindBestPrecommit(c) ==
    LastMatch({b \in c.nodes : /\ c.prevote[b] >= CalculateWeightedThreshold
                               /\ c.precommit[b] >= CalculateWeightedThreshold})

TryFindEstimate(c) ==
    LET best == TryFindBestPrevote(c)
    IN  IF best = None
            THEN None
            ELSE LastMatch({b \in c.nodes : /\ IsDescendant(c, b, best)
                                            /\ CanReachPrecommitThreshold(c, c.precommit[b])})

\* Mutant: the descendants of the best prevote are not looked at.
IsCompletableShallow(c) ==
    LET best == TryFindBestPrevote(c)
        estimate == TryFindEstimate(c)
    IN  /\ best /= None
        /\ estimate \notin {None, best} \/ ~CanReachPrecommitThreshold(c, 0)

IsCompletable(c) ==
    LET best == TryFindBestPrevote(c)
        estimate == TryFindEstimate(c)
    IN  /\ best /= None
        /\ \/ estimate \notin {None, best}
           \/ /\ ~CanReachPrecommitThreshold(c, 0)
              /\ \A b \in c.nodes \ {best} :
                    IsDescendant(c, best, b) => ~CanReachPrecommitThreshold(c, c.precommit[b])

(***************************************************************************)
(* acceptPrevote adds the branch, then gives every block of it the weight  *)
(* and moves the precommits that were waiting for it to its ancestors.     *)
(***************************************************************************)
\* Mutant: the waiting precommits count only for the block they name.
AcceptPrevoteShallow(c, first, last, weight) ==
    LET tree == AddBranch(c, first, last)
        branch == Hashes(first, last)
    IN  [tree EXCEPT
            !.prevote = [b \in Blocks |-> IF b \in branch THEN @[b] + weight ELSE @[b]],
            !.precommit = [b \in Blocks |-> IF b \in branch THEN @[b] + c.pending[b] ELSE @[b]],
            !.pending = [b \in Blocks |-> IF b \in branch THEN 0 ELSE @[b]],
            !.cumulativePrecommitWeight = @ + SumOver(c.pending, branch)]

AcceptPrevote(c, first, last, weight) ==
    LET tree == AddBranch(c, first, last)
        branch == Hashes(first, last)
        Resolved(b) == {key \in branch : IsDescendant(tree, b, key)}
    IN  [tree EXCEPT
            !.prevote = [b \in Blocks |-> IF b \in branch THEN @[b] + weight ELSE @[b]],
            !.precommit = [b \in Blocks |-> @[b] + SumOver(c.pending, Resolved(b))],
            !.pending = [b \in Blocks |-> IF b \in branch THEN 0 ELSE @[b]],
            !.cumulativePrecommitWeight = @ + SumOver(c.pending, branch)]

AcceptPrecommit(c, key, weight) ==
    IF key \notin c.nodes
        THEN [c EXCEPT !.pending[key] = @ + weight]
        ELSE [c EXCEPT
                !.precommit = [b \in Blocks |-> IF IsDescendant(c, b, key) THEN @[b] + weight ELSE @[b]],
                !.cumulativePrecommitWeight = @ + weight]
=============================================================================
