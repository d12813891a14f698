--------------------------- MODULE RoundTheorems ---------------------------
(***************************************************************************)
(* What the message aggregator of a finalization round promises, for all   *)
(* voters and weights, all block trees and starts, and all orders of the   *)
(* messages: the weights are those of the messages it holds; a quorum that *)
(* is more than half of the weight never withdraws what it has finalized;  *)
(* and in a tree that is whole a round that may be left stays so, and the  *)
(* estimate it is left with bounds what it can still finalize.  And what   *)
(* the nodes promise each other: within a round they finalize one chain,   *)
(* when quorums overlap in more weight than the voters that may lose what  *)
(* they saved of their votes have.                                         *)
(*                                                                         *)
(* RoundInv says what the tree, the candidates and the pending precommits  *)
(* of a round hold for its messages; VotesInv and ProofsInv what the       *)
(* voting status of a node and its proofs say of the votes.  A sum over a  *)
(* set is counted in units, as the cardinality of a finite set, which the  *)
(* theorems on sets can split.                                             *)
(***************************************************************************)
EXTENDS RoundMessageAggregator, Finalization, FiniteSetTheorems, WellFoundedInduction, TLAPS

-----------------------------------------------------------------------------
(* Sums                                                                    *)

\* A set of subsets of a finite set has a minimal member.
LEMMA MinimalSubset ==
    ASSUME NEW S, IsFiniteSet(S), NEW B \in SUBSET (SUBSET S), B # {}
    PROVE  \E T \in B : \A U \in B : U \subseteq T => U = T
<1> DEFINE Less == StrictSubsetOrdering(S)
<1>1. \A T, U \in SUBSET S : U \subseteq T /\ U # T => <<U, T>> \in Less
  BY DEF StrictSubsetOrdering
<1>2. IsWellFoundedOn(Less, SUBSET S)
  BY Zenon, FS_StrictSubsetOrderingWellFounded, FS_FiniteSubsetsOfFinite
<1> HIDE DEF Less
<1>3. PICK T \in B : \A U \in B : <<U, T>> \notin Less
  BY Zenon, <1>2, WFMin
<1> QED
  BY Zenon, <1>1, <1>3

\* A unit for each of what f gives the members of a set.
Units(f, S) == {p \in S \X Nat : p[2] \in 1 .. f[p[1]]}

\* The units of one member.
LEMMA UnitsOfOne ==
    ASSUME NEW D, NEW f \in [D -> Nat], NEW x \in D
    PROVE  IsFiniteSet({x} \X (1 .. f[x])) /\ Cardinality({x} \X (1 .. f[x])) = f[x]
<1>1. f[x] \in Nat
  BY Zenon
<1>2. PICK n \in Nat : n = f[x]
  BY Zenon, <1>1
<1>3. IsFiniteSet(1 .. n) /\ Cardinality(1 .. n) = n
  BY SMTT(30), FS_Interval
<1>4. IsFiniteSet({x}) /\ Cardinality({x}) = 1
  BY Zenon, FS_Singleton
<1>5. IsFiniteSet({x} \X (1 .. n)) /\ Cardinality({x} \X (1 .. n)) = Cardinality({x}) * Cardinality(1 .. n)
  BY Zenon, <1>3, <1>4, FS_Product
<1>6. Cardinality({x} \X (1 .. n)) = n
  BY <1>3, <1>4, <1>5
<1> QED
  BY Zenon, <1>2, <1>5, <1>6

\* The units of a set, one member taken out.
LEMMA UnitsSplit ==
    ASSUME NEW D, NEW f \in [D -> Nat], NEW S \in SUBSET D, NEW x \in S
    PROVE  /\ Units(f, S) = Units(f, S \ {x}) \cup ({x} \X (1 .. f[x]))
           /\ Units(f, S \ {x}) \cap ({x} \X (1 .. f[x])) = {}
<1>1. f[x] \in Nat
  OBVIOUS
<1>2. Units(f, S) \subseteq Units(f, S \ {x}) \cup ({x} \X (1 .. f[x]))
  BY DEF Units
<1>3. Units(f, S \ {x}) \cup ({x} \X (1 .. f[x])) \subseteq Units(f, S)
  BY DEF Units
<1>4. Units(f, S \ {x}) \cap ({x} \X (1 .. f[x])) = {}
  BY DEF Units
<1> QED
  BY Zenon, <1>2, <1>3, <1>4

\* The units of a finite set are finitely many.
LEMMA UnitsFinite ==
    ASSUME NEW D, NEW f \in [D -> Nat], NEW S \in SUBSET D, IsFiniteSet(S)
    PROVE  IsFiniteSet(Units(f, S))
<1> DEFINE B == {T \in SUBSET S : ~IsFiniteSet(Units(f, T))}
<1> SUFFICES ASSUME B # {} PROVE FALSE
  BY Zenon
<1>1. PICK T \in B : \A U \in B : U \subseteq T => U = T
  <2>1. B \in SUBSET (SUBSET S)
    BY Zenon
  <2> HIDE DEF B
  <2> QED
    BY <2>1, MinimalSubset
<1>2. T # {}
  <2>1. Units(f, {}) = {}
    BY Zenon DEF Units
  <2> QED
    BY Zenon, <1>1, <2>1, FS_EmptySet
<1>3. PICK x : x \in T
  BY Zenon, <1>2
<1>4. T \ {x} \notin B
  BY Zenon, <1>1, <1>3
<1>5. IsFiniteSet(Units(f, T \ {x}))
  BY Zenon, <1>4
<1>a. x \in D /\ T \in SUBSET D
  BY Zenon, <1>1, <1>3
<1>6. Units(f, T) = Units(f, T \ {x}) \cup ({x} \X (1 .. f[x]))
  BY SMTT(30), <1>a, <1>3, UnitsSplit
<1>7. IsFiniteSet({x} \X (1 .. f[x]))
  BY Zenon, <1>a, UnitsOfOne
<1>8. IsFiniteSet(Units(f, T))
  <2>1. PICK V, W : V = Units(f, T \ {x}) /\ W = {x} \X (1 .. f[x])
    BY Zenon
  <2>2. IsFiniteSet(V) /\ IsFiniteSet(W) /\ Units(f, T) = V \cup W
    BY Zenon, <2>1, <1>5, <1>6, <1>7
  <2> QED
    BY Zenon, <2>2, FS_Union
<1> QED
  BY Zenon, <1>1, <1>8

\* The number of units, one member taken out.
LEMMA CountSplit ==
    ASSUME NEW D, NEW f \in [D -> Nat], NEW S \in SUBSET D, IsFiniteSet(S), NEW x \in S
    PROVE  /\ Cardinality(Units(f, S)) \in Nat /\ Cardinality(Units(f, S \ {x})) \in Nat
           /\ Cardinality(Units(f, S)) = f[x] + Cardinality(Units(f, S \ {x}))
<1>1. IsFiniteSet(S \ {x}) /\ S \ {x} \in SUBSET D
  BY Zenon, FS_Subset
<1>2. IsFiniteSet(Units(f, S)) /\ IsFiniteSet(Units(f, S \ {x}))
  BY Zenon, <1>1, UnitsFinite
<1>3. IsFiniteSet({x} \X (1 .. f[x])) /\ Cardinality({x} \X (1 .. f[x])) = f[x]
  BY Zenon, UnitsOfOne
<1>4. /\ Units(f, S) = Units(f, S \ {x}) \cup ({x} \X (1 .. f[x]))
      /\ Units(f, S \ {x}) \cap ({x} \X (1 .. f[x])) = {}
  BY Zenon, UnitsSplit
<1>5. PICK A, B, n : A = Units(f, S \ {x}) /\ B = {x} \X (1 .. f[x]) /\ n = f[x]
  BY Zenon
<1>6. /\ IsFiniteSet(A) /\ IsFiniteSet(B) /\ A \cap B = {} /\ Units(f, S) = A \cup B /\ Cardinality(B) = n
      /\ n \in Nat
  BY Zenon, <1>2, <1>3, <1>4, <1>5
<1>7. Cardinality(A \cup B) = Cardinality(A) + Cardinality(B) - Cardinality(A \cap B)
  BY Zenon, <1>6, FS_Union
<1>8. Cardinality(A) \in Nat /\ Cardinality({}) = 0
  BY Zenon, <1>6, FS_CardinalityType, FS_EmptySet
<1>9. Cardinality(A \cup B) = n + Cardinality(A)
  <2>1. PICK k, j : k \in Nat /\ k = Cardinality(A) /\ j = Cardinality(A \cup B)
    BY Zenon, <1>8
  <2>2. k \in Nat /\ j = k + n - 0
    BY Zenon, <1>6, <1>7, <1>8, <2>1
  <2>3. j = n + k
    BY <1>6, <2>2
  <2> QED
    BY Zenon, <2>1, <2>3
<1> QED
  BY <1>5, <1>6, <1>8, <1>9

\* The equation of the recursive function in SumOver.
IsSum(sum, f, S) ==
    sum = [s \in SUBSET S |-> IF s = {} THEN 0 ELSE f[CHOOSE x \in s : TRUE] + sum[s \ {CHOOSE x \in s : TRUE}]]

\* A sum is the number of units.
LEMMA SumIsCount ==
    ASSUME NEW D, NEW f \in [D -> Nat], NEW S \in SUBSET D, IsFiniteSet(S)
    PROVE  SumOver(f, S) = Cardinality(Units(f, S))
<1>1. \A T \in SUBSET S : IsFiniteSet(T)
  BY Zenon, FS_Subset
<1>2. ASSUME NEW T \in SUBSET S, T # {}
      PROVE  Cardinality(Units(f, T)) = f[CHOOSE x \in T : TRUE] + Cardinality(Units(f, T \ {CHOOSE x \in T : TRUE}))
  <2>1. PICK x : x = CHOOSE y \in T : TRUE
    BY Zenon
  <2>2. x \in T
    BY Zenon, <1>2, <2>1
  <2>3. Cardinality(Units(f, T)) = f[x] + Cardinality(Units(f, T \ {x}))
    <3>1. T \in SUBSET D /\ IsFiniteSet(T)
      BY Zenon, <1>1
    <3> QED
      BY <3>1, <2>2, CountSplit
  <2> QED
    BY Zenon, <2>1, <2>3
<1>3. Cardinality(Units(f, {})) = 0
  <2>1. Units(f, {}) = {}
    BY Zenon DEF Units
  <2> QED
    BY Zenon, <2>1, FS_EmptySet
<1>4. PICK g : g = [s \in SUBSET S |-> Cardinality(Units(f, s))]
  BY Zenon
<1>5. IsSum(g, f, S)
  <2>1. \A s \in SUBSET S : g[s] = IF s = {} THEN 0 ELSE f[CHOOSE x \in s : TRUE] + g[s \ {CHOOSE x \in s : TRUE}]
    BY Zenon, <1>2, <1>3, <1>4
  <2>2. g = [s \in SUBSET S |-> g[s]]
    BY Zenon, <1>4
  <2> QED
    BY Zenon, <2>1, <2>2 DEF IsSum
<1>6. PICK h : h = CHOOSE sum : IsSum(sum, f, S)
  BY Zenon
<1>7. IsSum(h, f, S)
  BY Zenon, <1>5, <1>6
<1>8. SumOver(f, S) = h[S]
  BY Zenon, <1>6 DEF SumOver, MapThenSumSet, MapThenFoldSet, IsSum
<1>9. ASSUME NEW T \in SUBSET S, T # {}
      PROVE  h[T] = f[CHOOSE x \in T : TRUE] + h[T \ {CHOOSE x \in T : TRUE}]
  BY Zenon, <1>7, <1>9 DEF IsSum
<1>10. h[{}] = 0
  BY Zenon, <1>7 DEF IsSum
<1> DEFINE B == {T \in SUBSET S : h[T] # Cardinality(Units(f, T))}
<1>11. B = {}
  <2> SUFFICES ASSUME B # {} PROVE FALSE
    BY Zenon
  <2>1. PICK T \in B : \A U \in B : U \subseteq T => U = T
    <3>1. B \in SUBSET (SUBSET S)
      BY Zenon
    <3> HIDE DEF B
    <3> QED
      BY <3>1, MinimalSubset
  <2>2. T # {} /\ T \in SUBSET S
    BY Zenon, <1>3, <1>10, <2>1
  <2>3. PICK x : x = CHOOSE y \in T : TRUE
    BY Zenon
  <2>4. x \in T
    BY Zenon, <2>2, <2>3
  <2>5. T \ {x} \notin B
    BY Zenon, <2>1, <2>4
  <2>6. h[T \ {x}] = Cardinality(Units(f, T \ {x}))
    BY Zenon, <2>2, <2>5
  <2>7. h[T] = f[x] + h[T \ {x}]
    BY Zenon, <1>9, <2>2, <2>3
  <2>8. Cardinality(Units(f, T)) = f[x] + Cardinality(Units(f, T \ {x}))
    BY Zenon, <1>2, <2>2, <2>3
  <2> QED
    BY ZenonT(60), <2>1, <2>6, <2>7, <2>8
<1> QED
  BY Zenon, <1>8, <1>11

\* Sums are numbers, nothing has the sum zero, and members can be taken out.
LEMMA SumIs ==
    ASSUME NEW D, NEW f \in [D -> Nat], NEW S \in SUBSET D, IsFiniteSet(S)
    PROVE  /\ SumOver(f, S) \in Nat
           /\ SumOver(f, {}) = 0
           /\ \A x \in S : SumOver(f, S) = f[x] + SumOver(f, S \ {x}) /\ SumOver(f, S \ {x}) \in Nat
<1>1. SumOver(f, S) = Cardinality(Units(f, S)) /\ IsFiniteSet(Units(f, S))
  BY Zenon, SumIsCount, UnitsFinite
<1>2. SumOver(f, S) \in Nat
  BY Zenon, <1>1, FS_CardinalityType
<1>3. SumOver(f, {}) = 0
  <2>1. IsFiniteSet({}) /\ {} \in SUBSET D /\ Cardinality({}) = 0
    BY Zenon, FS_EmptySet
  <2>2. SumOver(f, {}) = Cardinality(Units(f, {}))
    BY Zenon, <2>1, SumIsCount
  <2>3. Units(f, {}) = {}
    BY Zenon DEF Units
  <2> QED
    BY Zenon, <2>1, <2>2, <2>3
<1>4. ASSUME NEW x \in S
      PROVE  SumOver(f, S) = f[x] + SumOver(f, S \ {x}) /\ SumOver(f, S \ {x}) \in Nat
  <2>1. IsFiniteSet(S \ {x}) /\ S \ {x} \in SUBSET D
    BY Zenon, FS_Subset
  <2>2. SumOver(f, S \ {x}) = Cardinality(Units(f, S \ {x}))
    BY Zenon, <2>1, SumIsCount
  <2>3. Cardinality(Units(f, S)) = f[x] + Cardinality(Units(f, S \ {x})) /\ Cardinality(Units(f, S \ {x})) \in Nat
    BY CountSplit
  <2> QED
    BY Zenon, <1>1, <2>2, <2>3
<1> QED
  BY Zenon, <1>2, <1>3, <1>4

\* The sum over two sets that have no common member.
LEMMA SumOfUnion ==
    ASSUME NEW D, NEW f \in [D -> Nat], NEW S \in SUBSET D, NEW T \in SUBSET D, IsFiniteSet(S), IsFiniteSet(T), S \cap T = {}
    PROVE  SumOver(f, S \cup T) = SumOver(f, S) + SumOver(f, T)
<1>1. IsFiniteSet(S \cup T) /\ S \cup T \in SUBSET D
  BY Zenon, FS_Union
<1>2. PICK A, B : A = Units(f, S) /\ B = Units(f, T)
  BY Zenon
<1>3. Units(f, S \cup T) = A \cup B /\ A \cap B = {}
  BY Zenon, <1>2 DEF Units
<1>4. SumOver(f, S \cup T) = Cardinality(A \cup B) /\ SumOver(f, S) = Cardinality(A) /\ SumOver(f, T) = Cardinality(B)
  BY <1>1, <1>2, <1>3, SumIsCount
<1>5. IsFiniteSet(A) /\ IsFiniteSet(B)
  BY Zenon, <1>2, UnitsFinite
<1>6. Cardinality(A \cup B) = Cardinality(A) + Cardinality(B) - Cardinality(A \cap B)
  BY Zenon, <1>5, FS_Union
<1>7. Cardinality(A) \in Nat /\ Cardinality(B) \in Nat /\ Cardinality({}) = 0
  BY Zenon, <1>5, FS_CardinalityType, FS_EmptySet
<1>8. PICK a, b, c : a \in Nat /\ b \in Nat /\ a = Cardinality(A) /\ b = Cardinality(B) /\ c = Cardinality(A \cup B)
  BY Zenon, <1>7
<1>9. a \in Nat /\ b \in Nat /\ c = a + b - 0
  BY Zenon, <1>3, <1>6, <1>7, <1>8
<1>10. c = a + b
  BY <1>9
<1> QED
  BY Zenon, <1>4, <1>8, <1>10

\* The table has the weight of every set of voters.
LEMMA WeightIsSum ==
    ASSUME NEW S \in SUBSET Voters
    PROVE  WeightOfVoters(S) = SumOver(Weight, S)
<1>1. PICK e : e = CHOOSE entry \in WeightTable : entry.voters = S
  BY Zenon
<1>2. [voters |-> S, weight |-> SumOver(Weight, S)] \in WeightTable
  BY Zenon DEF WeightTable
<1>3. e \in WeightTable /\ e.voters = S
  BY <1>1, <1>2
<1>4. PICK vs \in SUBSET Voters : e = [voters |-> vs, weight |-> SumOver(Weight, vs)]
  BY Zenon, <1>3 DEF WeightTable
<1>5. vs = S /\ e.weight = SumOver(Weight, vs)
  BY Zenon, <1>3, <1>4
<1> QED
  BY Zenon, <1>1, <1>5 DEF WeightOfVoters

\* What is used of weights: they are numbers, they add up, and a set has no more than one that contains it.
LEMMA WeightIs ==
    /\ \A S \in SUBSET Voters : WeightOfVoters(S) \in Nat
    /\ WeightOfVoters({}) = 0
    /\ \A S, T \in SUBSET Voters : S \cap T = {} => WeightOfVoters(S \cup T) = WeightOfVoters(S) + WeightOfVoters(T)
    /\ \A S \in SUBSET Voters, v \in Voters : v \notin S => WeightOfVoters(S \cup {v}) = WeightOfVoters(S) + Weight[v]
    /\ \A S, T \in SUBSET Voters : S \subseteq T => WeightOfVoters(S) <= WeightOfVoters(T)
<1>1. Weight \in [Voters -> Nat] /\ IsFiniteSet(Voters)
  BY Zenon, WeightAssumption
<1>2. \A S \in SUBSET Voters : IsFiniteSet(S) /\ WeightOfVoters(S) = SumOver(Weight, S)
  BY Zenon, <1>1, FS_Subset, WeightIsSum
<1>3. \A S \in SUBSET Voters : WeightOfVoters(S) \in Nat
  BY <1>1, <1>2, SumIs
<1>4. WeightOfVoters({}) = 0
  <2>1. {} \in SUBSET Voters
    BY Zenon
  <2> QED
    BY Zenon, <1>1, <1>2, <2>1, SumIs
<1>5. ASSUME NEW S \in SUBSET Voters, NEW T \in SUBSET Voters, S \cap T = {}
      PROVE  WeightOfVoters(S \cup T) = WeightOfVoters(S) + WeightOfVoters(T)
  <2>1. S \cup T \in SUBSET Voters
    BY Zenon
  <2>2. SumOver(Weight, S \cup T) = SumOver(Weight, S) + SumOver(Weight, T)
    BY <1>1, <1>2, <1>5, SumOfUnion
  <2> QED
    BY Zenon, <1>2, <2>1, <2>2
<1>6. ASSUME NEW S \in SUBSET Voters, NEW v \in Voters, v \notin S
      PROVE  WeightOfVoters(S \cup {v}) = WeightOfVoters(S) + Weight[v]
  <2>1. S \cup {v} \in SUBSET Voters /\ (S \cup {v}) \ {v} = S
    BY Zenon, <1>6
  <2>2. SumOver(Weight, S \cup {v}) = Weight[v] + SumOver(Weight, S)
    BY <1>1, <1>2, <2>1, SumIs
  <2>3. SumOver(Weight, S) \in Nat /\ Weight[v] \in Nat
    BY Zenon, <1>1, <1>2, <1>3
  <2> QED
    BY <1>2, <2>1, <2>2, <2>3
<1>7. ASSUME NEW S \in SUBSET Voters, NEW T \in SUBSET Voters, S \subseteq T
      PROVE  WeightOfVoters(S) <= WeightOfVoters(T)
  <2>1. T \ S \in SUBSET Voters /\ S \cap (T \ S) = {} /\ S \cup (T \ S) = T
    BY Zenon, <1>7
  <2>2. WeightOfVoters(T) = WeightOfVoters(S) + WeightOfVoters(T \ S)
    BY Zenon, <1>5, <2>1
  <2>3. WeightOfVoters(S) \in Nat /\ WeightOfVoters(T \ S) \in Nat
    BY Zenon, <1>3, <2>1
  <2> QED
    BY <2>2, <2>3
<1> QED
  BY Zenon, <1>3, <1>4, <1>5, <1>6, <1>7

\* The sum of the weights of sets that have no common member is the weight of all of them.
LEMMA SumOfWeights ==
    ASSUME NEW f \in [Blocks -> Nat], NEW P \in [Blocks -> SUBSET Voters], NEW R \in SUBSET Blocks, IsFiniteSet(R),
           \A k \in R : f[k] = WeightOfVoters(P[k]),
           \A j, k \in R : j # k => P[j] \cap P[k] = {}
    PROVE  SumOver(f, R) = WeightOfVoters(UNION {P[k] : k \in R})
<1> DEFINE B == {T \in SUBSET R : SumOver(f, T) # WeightOfVoters(UNION {P[k] : k \in T})}
<1> SUFFICES ASSUME B # {} PROVE FALSE
  BY Zenon
<1>1. PICK T \in B : \A U \in B : U \subseteq T => U = T
  <2>1. B \in SUBSET (SUBSET R)
    BY Zenon
  <2> HIDE DEF B
  <2> QED
    BY <2>1, MinimalSubset
<1>2. T \in SUBSET R /\ SumOver(f, T) # WeightOfVoters(UNION {P[k] : k \in T})
  BY Zenon, <1>1
<1>3. IsFiniteSet(T) /\ T \in SUBSET Blocks
  BY Zenon, <1>2, FS_Subset
<1>4. T # {}
  <2>1. SumOver(f, {}) = 0
    BY Zenon, <1>3, SumIs
  <2>2. UNION {P[k] : k \in {}} = {}
    BY Zenon
  <2> QED
    BY Zenon, <1>2, <2>1, <2>2, WeightIs
<1>5. PICK x : x \in T
  BY Zenon, <1>4
<1>6. T \ {x} \notin B
  BY <1>1, <1>5
<1>7. SumOver(f, T \ {x}) = WeightOfVoters(UNION {P[k] : k \in T \ {x}})
  BY Zenon, <1>2, <1>6
<1> HIDE DEF B
<1>8. SumOver(f, T) = f[x] + SumOver(f, T \ {x}) /\ SumOver(f, T \ {x}) \in Nat
  BY Zenon, <1>3, <1>5, SumIs
<1>9. PICK V : V = UNION {P[k] : k \in T \ {x}}
  BY Zenon
<1>10. x \in R /\ P[x] \in SUBSET Voters /\ V \in SUBSET Voters /\ P[x] \cap V = {} /\ UNION {P[k] : k \in T} = P[x] \cup V
  <2>1. x \in R /\ x \in Blocks /\ P[x] \in SUBSET Voters
    BY Zenon, <1>2, <1>5
  <2>2. V \in SUBSET Voters
    BY <1>3, <1>9
  <2>3. P[x] \cap V = {}
    BY <1>2, <1>9, <2>1
  <2>4. UNION {P[k] : k \in T} = P[x] \cup V
    BY Zenon, <1>5, <1>9
  <2> QED
    BY Zenon, <2>1, <2>2, <2>3, <2>4
<1>11. WeightOfVoters(P[x] \cup V) = WeightOfVoters(P[x]) + WeightOfVoters(V)
  BY Zenon, <1>10, WeightIs
<1>12. f[x] = WeightOfVoters(P[x])
  BY Zenon, <1>10
<1> QED
  BY Zenon, <1>2, <1>7, <1>8, <1>9, <1>10, <1>11, <1>12

-----------------------------------------------------------------------------
(* The block tree                                                          *)

\* The ancestors of a block are a chain in the order of the blocks.
LEMMA AncestorsAre ==
    /\ Blocks \subseteq Nat
    /\ \A b \in Blocks : Ancestors[b] \subseteq Blocks /\ b \in Ancestors[b]
    /\ \A b \in Blocks : \A a \in Ancestors[b] : a <= b /\ Ancestors[a] \subseteq Ancestors[b]
    /\ \A b \in Blocks : \A a, x \in Ancestors[b] : a <= x => a \in Ancestors[x]
    /\ \A b \in Blocks : \A a, x \in Ancestors[b] : a \in Ancestors[x] \/ x \in Ancestors[a]
<1>1. /\ Blocks \subseteq Nat
      /\ \A b \in Blocks : Ancestors[b] \subseteq Blocks /\ b \in Ancestors[b]
      /\ \A b \in Blocks : \A a \in Ancestors[b] : Ancestors[a] = {x \in Ancestors[b] : x <= a}
  BY Zenon, BlocksAssumption
<1>2. \A b \in Blocks : \A a \in Ancestors[b] : a <= b /\ Ancestors[a] \subseteq Ancestors[b]
  <2> SUFFICES ASSUME NEW b \in Blocks, NEW a \in Ancestors[b]
               PROVE  a <= b /\ Ancestors[a] \subseteq Ancestors[b]
    BY Zenon
  <2>1. Ancestors[b] = {x \in Ancestors[b] : x <= b} /\ Ancestors[a] = {x \in Ancestors[b] : x <= a}
    BY Zenon, <1>1
  <2> QED
    BY Zenon, <2>1
<1>3. \A b \in Blocks : \A a, x \in Ancestors[b] : a <= x => a \in Ancestors[x]
  <2> SUFFICES ASSUME NEW b \in Blocks, NEW a \in Ancestors[b], NEW x \in Ancestors[b], a <= x
               PROVE  a \in Ancestors[x]
    BY Zenon
  <2>1. Ancestors[x] = {y \in Ancestors[b] : y <= x}
    BY Zenon, <1>1
  <2> QED
    BY Zenon, <2>1
<1>4. \A b \in Blocks : \A a, x \in Ancestors[b] : a \in Ancestors[x] \/ x \in Ancestors[a]
  <2> SUFFICES ASSUME NEW b \in Blocks, NEW a \in Ancestors[b], NEW x \in Ancestors[b]
               PROVE  a \in Ancestors[x] \/ x \in Ancestors[a]
    BY Zenon
  <2>1. a \in Nat /\ x \in Nat
    BY Zenon, <1>1
  <2>2. a <= x \/ x <= a
    BY <2>1
  <2> QED
    BY Zenon, <1>3, <2>2
<1> QED
  BY Zenon, <1>1, <1>2, <1>3, <1>4

\* A message names finitely many blocks.
LEMMA HashesAre ==
    ASSUME NEW first, NEW last \in Blocks
    PROVE  Hashes(first, last) \subseteq Blocks /\ IsFiniteSet(Hashes(first, last))
<1>1. Hashes(first, last) \subseteq Blocks
  BY Zenon, AncestorsAre DEF Hashes
<1>2. PICK H : H = Hashes(first, last)
  BY Zenon
<1>3. H \in SUBSET Nat /\ last \in Nat /\ \A s \in H : s <= last
  BY Zenon, AncestorsAre, <1>1, <1>2 DEF Hashes
<1>4. IsFiniteSet(H)
  BY Zenon, <1>3, FS_BoundedSetOfNaturals
<1> QED
  BY Zenon, <1>1, <1>2, <1>4

\* In a tree that was built from branches with their first blocks in Starts, a target is an ancestor as in the real tree:
\* findAncestors reaches it, for no node above it has lost its parent.
LEMMA DescendsFromTarget ==
    ASSUME NEW c, NEW b \in Targets, NEW first \in Starts, NEW last \in Blocks, NEW key \in Hashes(first, last),
           Hashes(first, last) \subseteq c.nodes, c.nodes \ c.linked \subseteq Starts
    PROVE  /\ IsDescendant(c, b, key) <=> b \in Ancestors[key]
           /\ b \in Ancestors[key] => b \in c.nodes
<1>1. key \in Blocks /\ first \in Blocks /\ b \in Blocks /\ key \in Ancestors[last] /\ first \in Ancestors[key] /\ key \in c.nodes
  BY Zenon, AncestorsAre, StartsAssumption DEF Hashes, Targets
<1>2. ASSUME b \in Ancestors[key]
      PROVE  Hashes(b, key) \subseteq c.nodes /\ b \in c.nodes /\ Hashes(b, key) \ {b} \subseteq c.linked
  <2>1. first \in Ancestors[b] \/ b \in Ancestors[first]
    BY Zenon, <1>1, <1>2, AncestorsAre
  <2>2. b \in Ancestors[first] => b = first
    BY Zenon, <1>1 DEF Targets
  <2>3. first \in Ancestors[b]
    BY Zenon, <1>1, <2>1, <2>2, AncestorsAre
  <2>4. ASSUME NEW x \in Hashes(b, key) PROVE x \in Hashes(first, last)
    <3>1. x \in Ancestors[key] /\ b \in Ancestors[x] /\ x \in Blocks
      BY Zenon, <1>1, AncestorsAre DEF Hashes
    <3>2. x \in Ancestors[last] /\ first \in Ancestors[x]
      BY Zenon, <1>1, <2>3, <3>1, AncestorsAre
    <3> QED
      BY Zenon, <3>2 DEF Hashes
  <2>5. b \in Hashes(b, key)
    BY Zenon, <1>1, <1>2, AncestorsAre DEF Hashes
  <2>6. ASSUME NEW x \in Hashes(b, key), x # b PROVE x \in c.linked
    <3>1. x \in c.nodes
      BY Zenon, <2>4
    <3>2. x \notin Starts
      BY Zenon, <2>6 DEF Targets, Hashes
    <3> QED
      BY Zenon, <3>1, <3>2
  <2> QED
    BY Zenon, <2>4, <2>5, <2>6
<1> QED
  BY Zenon, <1>1, <1>2 DEF IsDescendant

-----------------------------------------------------------------------------
(* The invariant                                                           *)

ContextRecords ==
    [nodes : SUBSET Blocks, linked : SUBSET Blocks, prevote : [Blocks -> Nat], precommit : [Blocks -> Nat],
     pending : [Blocks -> Nat], cumulativePrecommitWeight : Nat]

\* The precommits for a set of blocks.
Committing(R) == {m \in messages : m.stage = "Precommit" /\ m.last \in R}

\* The prevotes for a block.
Prevoting(b) == {m \in messages : m.stage = "Prevote" /\ b \in Hashes(m.first, m.last)}

\* The blocks of a set that a block is an ancestor of.
Above(b, R) == {k \in R : b \in Ancestors[k]}

\* At most one message of a voter and stage is kept.
MessagesInv ==
    /\ messages \subseteq Votes
    /\ \A m, o \in messages : m.voter = o.voter /\ m.stage = o.stage => m = o

\* The tree has the blocks that prevotes name, and only the first of a branch may be without its parent.
TreeInv ==
    /\ \A b \in context.nodes : \E m \in messages : m.stage = "Prevote" /\ b \in Hashes(m.first, m.last)
    /\ \A m \in messages : m.stage = "Prevote" => Hashes(m.first, m.last) \subseteq context.nodes
    /\ context.nodes \ context.linked \subseteq Starts
    /\ IsFiniteSet(context.nodes)

\* The weights are those of the messages; a precommit waits until a prevote names its block.
WeightsInv ==
    /\ \A b \in Blocks : context.prevote[b] = WeightOf(Prevoting(b))
    /\ \A b \in Blocks : context.pending[b] = IF b \in context.nodes THEN 0 ELSE WeightOf(Committing({b}))
    /\ \A b \in Targets : context.precommit[b] = WeightOf(Committing(Above(b, context.nodes)))
    /\ context.cumulativePrecommitWeight = WeightOf(Committing(context.nodes))

RoundInv == context \in ContextRecords /\ MessagesInv /\ TreeInv /\ WeightsInv

\* What no message takes away.
Grows ==
    /\ context.nodes \subseteq context'.nodes
    /\ \A b \in Blocks : context.prevote[b] <= context'.prevote[b] /\ context.precommit[b] <= context'.precommit[b]

\* The weight of messages of different voters.
LEMMA WeightOfIs ==
    /\ \A ms \in SUBSET RoundMessages : WeightOf(ms) \in Nat
    /\ WeightOf({}) = 0
    /\ \A ms, ns \in SUBSET RoundMessages :
        (\A m \in ms, n \in ns : m.voter # n.voter) => WeightOf(ms \cup ns) = WeightOf(ms) + WeightOf(ns)
    /\ \A m \in RoundMessages : WeightOf({m}) = Weight[m.voter] /\ Weight[m.voter] \in Nat
<1>1. \A ms \in SUBSET RoundMessages : {m.voter : m \in ms} \in SUBSET Voters
  BY Zenon DEF RoundMessages
<1>2. \A ms \in SUBSET RoundMessages : WeightOf(ms) \in Nat
  BY Zenon, <1>1, WeightIs DEF WeightOf
<1>3. WeightOf({}) = 0
  <2>1. {m.voter : m \in {}} = {}
    BY Zenon
  <2> QED
    BY Zenon, <2>1, WeightIs DEF WeightOf
<1>4. ASSUME NEW ms \in SUBSET RoundMessages, NEW ns \in SUBSET RoundMessages, \A m \in ms, n \in ns : m.voter # n.voter
      PROVE  WeightOf(ms \cup ns) = WeightOf(ms) + WeightOf(ns)
  <2>1. PICK S, T : S = {m.voter : m \in ms} /\ T = {m.voter : m \in ns}
    BY Zenon
  <2>2. S \in SUBSET Voters /\ T \in SUBSET Voters
    BY Zenon, <1>1, <2>1
  <2>3. S \cap T = {}
    BY Zenon, <1>4, <2>1
  <2>4. {m.voter : m \in ms \cup ns} = S \cup T
    BY Zenon, <2>1
  <2> QED
    BY Zenon, <2>1, <2>2, <2>3, <2>4, WeightIs DEF WeightOf
<1>5. ASSUME NEW m \in RoundMessages PROVE WeightOf({m}) = Weight[m.voter] /\ Weight[m.voter] \in Nat
  <2>1. {o.voter : o \in {m}} = {m.voter}
    BY Zenon
  <2>2. m.voter \in Voters /\ {} \in SUBSET Voters /\ {} \cup {m.voter} = {m.voter}
    BY Zenon DEF RoundMessages
  <2>3. WeightOfVoters({m.voter}) = WeightOfVoters({}) + Weight[m.voter]
    BY Zenon, <2>2, WeightIs
  <2>4. Weight[m.voter] \in Nat
    BY Zenon, <2>2, WeightAssumption
  <2>5. WeightOfVoters({m.voter}) = 0 + Weight[m.voter]
    BY Zenon, <2>3, WeightIs
  <2> QED
    BY <2>1, <2>4, <2>5 DEF WeightOf
<1> QED
  BY Zenon, <1>2, <1>3, <1>4, <1>5

\* The precommits for blocks of two sets that have no common block.
LEMMA CommittingBoth ==
    ASSUME MessagesInv, NEW R, NEW Q, R \cap Q = {}
    PROVE  /\ WeightOf(Committing(R \cup Q)) = WeightOf(Committing(R)) + WeightOf(Committing(Q))
           /\ WeightOf(Committing(R)) \in Nat /\ WeightOf(Committing(Q)) \in Nat
<1>1. PICK ms, ns : ms = Committing(R) /\ ns = Committing(Q)
  BY Zenon
<1>2. ms \in SUBSET RoundMessages /\ ns \in SUBSET RoundMessages
  BY Zenon, <1>1 DEF Committing, MessagesInv, Votes
<1>3. \A m \in ms, n \in ns : m.voter # n.voter
  BY <1>1 DEF Committing, MessagesInv
<1>4. Committing(R \cup Q) = ms \cup ns
  BY <1>1 DEF Committing
<1> QED
  BY Zenon, <1>1, <1>2, <1>3, <1>4, WeightOfIs

\* What waits for the blocks of a set is the weight of the precommits for those of them that no prevote has named.
LEMMA PendingSum ==
    ASSUME RoundInv, NEW R \in SUBSET Blocks, IsFiniteSet(R)
    PROVE  SumOver(context.pending, R) = WeightOf(Committing(R \ context.nodes))
<1>1. PICK P : P = [k \in Blocks |-> IF k \in context.nodes THEN {} ELSE {m.voter : m \in Committing({k})}]
  BY Zenon
<1>2. \A k \in Blocks : {m.voter : m \in Committing({k})} \in SUBSET Voters
  BY Zenon DEF Committing, RoundInv, MessagesInv, Votes, RoundMessages
<1>3. P \in [Blocks -> SUBSET Voters]
  BY Zenon, <1>1, <1>2
<1>4. \A k \in R : context.pending[k] = WeightOfVoters(P[k])
  <2>1. \A k \in Blocks : context.pending[k] = IF k \in context.nodes THEN 0 ELSE WeightOfVoters({m.voter : m \in Committing({k})})
    BY Zenon DEF RoundInv, WeightsInv, WeightOf
  <2>2. WeightOfVoters({}) = 0
    BY Zenon, WeightIs
  <2> QED
    BY Zenon, <1>1, <2>1, <2>2
<1>5. \A j, k \in R : j # k => P[j] \cap P[k] = {}
  BY <1>1 DEF Committing, RoundInv, MessagesInv
<1>6. UNION {P[k] : k \in R} = {m.voter : m \in Committing(R \ context.nodes)}
  BY <1>1 DEF Committing
<1>7. context.pending \in [Blocks -> Nat]
  BY Zenon DEF RoundInv, ContextRecords
<1>8. SumOver(context.pending, R) = WeightOfVoters(UNION {P[k] : k \in R})
  BY Zenon, <1>3, <1>4, <1>5, <1>7, SumOfWeights
<1> QED
  BY Zenon, <1>6, <1>8 DEF WeightOf

\* The invariant holds for a new aggregator, which has no messages.
LEMMA InitIsRound == RoundInit => RoundInv
<1> SUFFICES ASSUME RoundInit PROVE RoundInv
  BY Zenon
<1>1. /\ context.nodes = {} /\ context.linked = {} /\ messages = {}
      /\ context.prevote = [b \in Blocks |-> 0] /\ context.precommit = [b \in Blocks |-> 0]
      /\ context.pending = [b \in Blocks |-> 0] /\ context.cumulativePrecommitWeight = 0
  BY Zenon DEF RoundInit, NewRoundContext
<1>2. context \in ContextRecords
  BY Zenon DEF RoundInit, NewRoundContext, ContextRecords
<1>3. MessagesInv
  BY Zenon, <1>1 DEF MessagesInv
<1>4. TreeInv
  BY Zenon, <1>1, FS_EmptySet DEF TreeInv
<1>5. WeightsInv
  <2>1. \A R : Committing(R) = {}
    BY Zenon, <1>1 DEF Committing
  <2>2. \A b : Prevoting(b) = {}
    BY Zenon, <1>1 DEF Prevoting
  <2>3. Targets \subseteq Blocks
    BY Zenon DEF Targets
  <2> QED
    BY Zenon, <1>1, <2>1, <2>2, <2>3, WeightOfIs DEF WeightsInv
<1> QED
  BY Zenon, <1>2, <1>3, <1>4, <1>5 DEF RoundInv

\* What acceptPrevote does: the branch is in the tree, its blocks have the weight, and what waited for them is counted.
PrevoteEffect(m, branch, resolved) ==
    /\ branch = Hashes(m.first, m.last) /\ branch \subseteq Blocks /\ IsFiniteSet(branch)
    /\ \A b \in Blocks : /\ resolved[b] = {key \in branch : IsDescendant(context', b, key)}
                         /\ resolved[b] \in SUBSET Blocks /\ resolved[b] \subseteq branch /\ IsFiniteSet(resolved[b])
                         /\ SumOver(context.pending, resolved[b]) \in Nat
    /\ SumOver(context.pending, branch) \in Nat
    /\ context'.nodes = context.nodes \cup branch
    /\ context'.linked = context.linked \cup (branch \ (context.nodes \cup {m.first}))
    /\ context'.prevote = [b \in Blocks |-> IF b \in branch THEN context.prevote[b] + Weight[m.voter] ELSE context.prevote[b]]
    /\ context'.precommit = [b \in Blocks |-> context.precommit[b] + SumOver(context.pending, resolved[b])]
    /\ context'.pending = [b \in Blocks |-> IF b \in branch THEN 0 ELSE context.pending[b]]
    /\ context'.cumulativePrecommitWeight = context.cumulativePrecommitWeight + SumOver(context.pending, branch)
    /\ context' \in ContextRecords

\* A prevote names a branch from one of Starts to a descendant of it.
LEMMA PrevoteIs ==
    ASSUME NEW m \in Votes, m.stage = "Prevote"
    PROVE  /\ m \in RoundMessages /\ m.voter \in Voters /\ m.first \in Starts /\ m.first \in Blocks /\ m.last \in Blocks
           /\ m.first \in Ancestors[m.last] /\ Weight[m.voter] \in Nat
  BY Zenon, WeightOfIs, StartsAssumption DEF Votes, RoundMessages

\* A prevote that add accepts has this effect.
LEMMA PrevoteGives ==
    ASSUME RoundInv, NEW m \in Votes, m.stage = "Prevote",
           context' = AcceptPrevote(context, m.first, m.last, Weight[m.voter])
    PROVE  \E branch, resolved : PrevoteEffect(m, branch, resolved)
<1>1. m.first \in Blocks /\ m.last \in Blocks /\ Weight[m.voter] \in Nat
  BY Zenon, PrevoteIs
<1>2. PICK branch : branch = Hashes(m.first, m.last)
  BY Zenon
<1>3. branch \subseteq Blocks /\ IsFiniteSet(branch)
  BY Zenon, <1>1, <1>2, HashesAre
<1>4. PICK tree : tree = AddBranch(context, m.first, m.last)
  BY Zenon
<1>5. /\ tree.nodes = context.nodes \cup branch
      /\ tree.linked = context.linked \cup (branch \ (context.nodes \cup {m.first}))
      /\ tree \in ContextRecords
      /\ tree.prevote = context.prevote /\ tree.precommit = context.precommit /\ tree.pending = context.pending
      /\ tree.cumulativePrecommitWeight = context.cumulativePrecommitWeight
  BY Zenon, <1>2, <1>3, <1>4 DEF AddBranch, RoundInv, ContextRecords
<1>7. PICK resolved : resolved = [b \in Blocks |-> {key \in branch : IsDescendant(tree, b, key)}]
  BY Zenon
<1>8. \A b \in Blocks : /\ resolved[b] \in SUBSET Blocks /\ resolved[b] \subseteq branch /\ IsFiniteSet(resolved[b])
                        /\ SumOver(context.pending, resolved[b]) \in Nat
  <2> SUFFICES ASSUME NEW b \in Blocks
               PROVE  /\ resolved[b] \in SUBSET Blocks /\ resolved[b] \subseteq branch /\ IsFiniteSet(resolved[b])
                      /\ SumOver(context.pending, resolved[b]) \in Nat
    BY Zenon
  <2>1. resolved[b] \subseteq branch /\ resolved[b] \in SUBSET Blocks
    BY Zenon, <1>3, <1>7
  <2>2. IsFiniteSet(resolved[b])
    BY Zenon, <1>3, <2>1, FS_Subset
  <2>3. context.pending \in [Blocks -> Nat]
    BY Zenon DEF RoundInv, ContextRecords
  <2>4. SumOver(context.pending, resolved[b]) \in Nat
    BY Zenon, <2>1, <2>2, <2>3, SumIs
  <2> QED
    BY Zenon, <2>1, <2>2, <2>4
<1>9. SumOver(context.pending, branch) \in Nat
  <2>1. context.pending \in [Blocks -> Nat]
    BY Zenon DEF RoundInv, ContextRecords
  <2> QED
    BY Zenon, <1>3, <2>1, SumIs
<1>10. /\ context'.nodes = tree.nodes /\ context'.linked = tree.linked
       /\ context'.prevote = [b \in Blocks |-> IF b \in branch THEN context.prevote[b] + Weight[m.voter] ELSE context.prevote[b]]
       /\ context'.precommit = [b \in Blocks |-> context.precommit[b] + SumOver(context.pending, resolved[b])]
       /\ context'.pending = [b \in Blocks |-> IF b \in branch THEN 0 ELSE context.pending[b]]
       /\ context'.cumulativePrecommitWeight = context.cumulativePrecommitWeight + SumOver(context.pending, branch)
       /\ context' \in ContextRecords
  <2>1. context' = [tree EXCEPT
            !.prevote = [b \in Blocks |-> IF b \in branch THEN @[b] + Weight[m.voter] ELSE @[b]],
            !.precommit = [b \in Blocks |-> @[b] + SumOver(context.pending, {key \in branch : IsDescendant(tree, b, key)})],
            !.pending = [b \in Blocks |-> IF b \in branch THEN 0 ELSE @[b]],
            !.cumulativePrecommitWeight = @ + SumOver(context.pending, branch)]
    BY Zenon, <1>2, <1>4 DEF AcceptPrevote
  <2>2. PICK pv, pc, pd, cm :
            /\ pv = [b \in Blocks |-> IF b \in branch THEN context.prevote[b] + Weight[m.voter] ELSE context.prevote[b]]
            /\ pc = [b \in Blocks |-> context.precommit[b] + SumOver(context.pending, resolved[b])]
            /\ pd = [b \in Blocks |-> IF b \in branch THEN 0 ELSE context.pending[b]]
            /\ cm = context.cumulativePrecommitWeight + SumOver(context.pending, branch)
    BY Zenon
  <2>3. pc = [b \in Blocks |-> context.precommit[b] + SumOver(context.pending, {key \in branch : IsDescendant(tree, b, key)})]
    BY Zenon, <1>7, <2>2
  <2>4. context' = [tree EXCEPT !.prevote = pv, !.precommit = pc, !.pending = pd, !.cumulativePrecommitWeight = cm]
    BY ZenonT(60), <1>5, <2>1, <2>2, <2>3
  <2>5. context.prevote \in [Blocks -> Nat] /\ context.precommit \in [Blocks -> Nat] /\ context.pending \in [Blocks -> Nat]
            /\ context.cumulativePrecommitWeight \in Nat
    BY DEF RoundInv, ContextRecords
  <2>6. pv \in [Blocks -> Nat] /\ pd \in [Blocks -> Nat] /\ cm \in Nat
    BY <1>1, <1>9, <2>2, <2>5
  <2>7. pc \in [Blocks -> Nat]
    BY <1>8, <2>2, <2>5
  <2>8. /\ context'.nodes = tree.nodes /\ context'.linked = tree.linked /\ context'.prevote = pv /\ context'.precommit = pc
        /\ context'.pending = pd /\ context'.cumulativePrecommitWeight = cm /\ context' \in ContextRecords
    BY Zenon, <1>5, <2>4, <2>6, <2>7 DEF ContextRecords
  <2> QED
    BY Zenon, <2>2, <2>8
<1>11. \A b \in Blocks : resolved[b] = {key \in branch : IsDescendant(context', b, key)}
  BY Zenon, <1>7, <1>10 DEF IsDescendant
<1>12. PrevoteEffect(m, branch, resolved)
  BY Zenon, <1>2, <1>3, <1>5, <1>8, <1>9, <1>10, <1>11 DEF PrevoteEffect
<1> QED
  BY Zenon, <1>12

\* A prevote keeps the invariant.
LEMMA PrevoteKeeps ==
    ASSUME RoundInv, NEW m \in Votes, m.stage = "Prevote", IsFirstOfVoter(messages, m),
           messages' = messages \cup {m}, context' = AcceptPrevote(context, m.first, m.last, Weight[m.voter])
    PROVE  RoundInv' /\ Grows
<1>1. /\ m \in RoundMessages /\ m.voter \in Voters /\ m.first \in Starts /\ m.first \in Blocks /\ m.last \in Blocks
      /\ m.first \in Ancestors[m.last] /\ Weight[m.voter] \in Nat
  BY Zenon, PrevoteIs
<1>2. PICK branch, resolved : PrevoteEffect(m, branch, resolved)
  BY Zenon, PrevoteGives
<1>3. branch = Hashes(m.first, m.last) /\ branch \subseteq Blocks /\ IsFiniteSet(branch)
  BY Zenon, <1>2 DEF PrevoteEffect
<1>4. PICK tree : tree = context'
  BY Zenon
<1>5. /\ tree.nodes = context.nodes \cup branch
      /\ tree.linked = context.linked \cup (branch \ (context.nodes \cup {m.first}))
  BY Zenon, <1>2, <1>4 DEF PrevoteEffect
<1>6. tree.nodes \ tree.linked \subseteq Starts
  BY Zenon, <1>1, <1>5 DEF RoundInv, TreeInv
<1>7. \A b \in Blocks : resolved[b] = {key \in branch : IsDescendant(tree, b, key)}
  BY Zenon, <1>2, <1>4 DEF PrevoteEffect
<1>8. \A b \in Blocks : /\ resolved[b] \in SUBSET Blocks /\ resolved[b] \subseteq branch /\ IsFiniteSet(resolved[b])
                        /\ SumOver(context.pending, resolved[b]) \in Nat
  BY Zenon, <1>2 DEF PrevoteEffect
<1>10. /\ context'.nodes = tree.nodes /\ context'.linked = tree.linked
       /\ context'.prevote = [b \in Blocks |-> IF b \in branch THEN context.prevote[b] + Weight[m.voter] ELSE context.prevote[b]]
       /\ context'.precommit = [b \in Blocks |-> context.precommit[b] + SumOver(context.pending, resolved[b])]
       /\ context'.pending = [b \in Blocks |-> IF b \in branch THEN 0 ELSE context.pending[b]]
       /\ context'.cumulativePrecommitWeight = context.cumulativePrecommitWeight + SumOver(context.pending, branch)
       /\ context' \in ContextRecords
  BY Zenon, <1>2, <1>4 DEF PrevoteEffect
<1>11. MessagesInv'
  BY ZenonT(60) DEF RoundInv, MessagesInv, IsFirstOfVoter
<1>12. TreeInv'
  <2>1. \A b \in context'.nodes : \E o \in messages' : o.stage = "Prevote" /\ b \in Hashes(o.first, o.last)
    BY Zenon, <1>3, <1>5, <1>10 DEF RoundInv, TreeInv
  <2>2. \A o \in messages' : o.stage = "Prevote" => Hashes(o.first, o.last) \subseteq context'.nodes
    BY Zenon, <1>3, <1>5, <1>10 DEF RoundInv, TreeInv
  <2>3. context'.nodes \ context'.linked \subseteq Starts
    BY Zenon, <1>6, <1>10
  <2>4. IsFiniteSet(context'.nodes)
    <3>1. IsFiniteSet(context.nodes) /\ context'.nodes = context.nodes \cup branch
      BY Zenon, <1>5, <1>10 DEF RoundInv, TreeInv
    <3> QED
      BY ZenonT(60), <1>3, <3>1, FS_Union
  <2> QED
    BY Zenon, <2>1, <2>2, <2>3, <2>4 DEF TreeInv
<1>13. \A R : Committing(R)' = Committing(R)
  BY Zenon DEF Committing
<1>14. \A b \in Blocks : context'.prevote[b] = WeightOf(Prevoting(b)')
  <2> SUFFICES ASSUME NEW b \in Blocks PROVE context'.prevote[b] = WeightOf(Prevoting(b)')
    BY Zenon
  <2>1. PICK ms : ms = Prevoting(b)
    BY Zenon
  <2>2. ms \in SUBSET RoundMessages /\ \A o \in ms : o.voter # m.voter
    BY <2>1 DEF Prevoting, RoundInv, MessagesInv, Votes, IsFirstOfVoter
  <2>3. context.prevote[b] = WeightOf(ms)
    BY Zenon, <2>1 DEF RoundInv, WeightsInv
  <2>4. CASE b \in branch
    <3>1. Prevoting(b)' = ms \cup {m}
      BY <1>3, <2>1, <2>4 DEF Prevoting
    <3>2. {m} \in SUBSET RoundMessages /\ \A o \in ms, n \in {m} : o.voter # n.voter
      BY Zenon, <1>1, <2>2
    <3>3. WeightOf(ms \cup {m}) = WeightOf(ms) + WeightOf({m})
      BY Zenon, <2>2, <3>2, WeightOfIs
    <3>4. WeightOf({m}) = Weight[m.voter]
      BY Zenon, <1>1, WeightOfIs
    <3>5. context'.prevote[b] = context.prevote[b] + Weight[m.voter]
      BY Zenon, <1>10, <2>4
    <3> QED
      BY Zenon, <2>3, <3>1, <3>3, <3>4, <3>5
  <2>5. CASE b \notin branch
    <3>1. Prevoting(b)' = ms
      BY Zenon, <1>3, <2>1, <2>5 DEF Prevoting
    <3>2. context'.prevote[b] = context.prevote[b]
      BY Zenon, <1>10, <2>5
    <3> QED
      BY Zenon, <2>3, <3>1, <3>2
  <2> QED
    BY Zenon, <2>4, <2>5
<1>15. \A b \in Blocks : context'.pending[b] = IF b \in context'.nodes THEN 0 ELSE WeightOf(Committing({b}))
  BY <1>5, <1>10 DEF RoundInv, WeightsInv
<1>16. ASSUME NEW R, R \subseteq branch, IsFiniteSet(R)
       PROVE  SumOver(context.pending, R) = WeightOf(Committing(R \ context.nodes))
  BY Zenon, <1>3, <1>16, PendingSum
<1>17. context'.cumulativePrecommitWeight = WeightOf(Committing(context'.nodes))
  <2>1. SumOver(context.pending, branch) = WeightOf(Committing(branch \ context.nodes))
    BY Zenon, <1>3, <1>16
  <2>2. context'.nodes = context.nodes \cup (branch \ context.nodes) /\ context.nodes \cap (branch \ context.nodes) = {}
    BY Zenon, <1>5, <1>10
  <2>3. WeightOf(Committing(context.nodes \cup (branch \ context.nodes)))
            = WeightOf(Committing(context.nodes)) + WeightOf(Committing(branch \ context.nodes))
    BY Zenon, <2>2, CommittingBoth DEF RoundInv
  <2>4. context.cumulativePrecommitWeight = WeightOf(Committing(context.nodes))
    BY Zenon DEF RoundInv, WeightsInv
  <2> QED
    BY Zenon, <1>10, <2>1, <2>2, <2>3, <2>4
<1>18. \A b \in Targets : context'.precommit[b] = WeightOf(Committing(Above(b, context'.nodes)))
  <2> SUFFICES ASSUME NEW b \in Targets PROVE context'.precommit[b] = WeightOf(Committing(Above(b, context'.nodes)))
    BY Zenon
  <2>1. b \in Blocks
    BY Zenon DEF Targets
  <2>2. ASSUME NEW key \in branch PROVE IsDescendant(tree, b, key) <=> b \in Ancestors[key]
    <3>1. branch \subseteq tree.nodes
      BY Zenon, <1>5
    <3> QED
      BY Zenon, <1>1, <1>3, <1>6, <3>1, DescendsFromTarget
  <2>3. resolved[b] = Above(b, branch)
    BY Zenon, <1>7, <2>1, <2>2 DEF Above
  <2>4. SumOver(context.pending, resolved[b]) = WeightOf(Committing(Above(b, branch) \ context.nodes))
    BY Zenon, <1>8, <1>16, <2>1, <2>3
  <2>5. PICK Q, N : Q = Above(b, branch) \ context.nodes /\ N = Above(b, context.nodes)
    BY Zenon
  <2>6. N \cap Q = {} /\ Above(b, context'.nodes) = N \cup Q
    BY Zenon, <1>5, <1>10, <2>5 DEF Above
  <2>7. WeightOf(Committing(N \cup Q)) = WeightOf(Committing(N)) + WeightOf(Committing(Q))
    BY Zenon, <2>6, CommittingBoth DEF RoundInv
  <2>8. context.precommit[b] = WeightOf(Committing(N))
    BY Zenon, <2>5 DEF RoundInv, WeightsInv
  <2>9. context'.precommit[b] = context.precommit[b] + SumOver(context.pending, resolved[b])
    BY Zenon, <1>10, <2>1
  <2> QED
    BY Zenon, <2>4, <2>5, <2>6, <2>7, <2>8, <2>9
<1>19. WeightsInv'
  BY Zenon, <1>13, <1>14, <1>15, <1>17, <1>18 DEF WeightsInv, WeightOf, Above, Targets
<1>20. Grows
  <2>1. /\ context.prevote \in [Blocks -> Nat] /\ context.precommit \in [Blocks -> Nat]
        /\ context.nodes \subseteq context'.nodes
    BY Zenon, <1>5, <1>10 DEF RoundInv, ContextRecords
  <2>2. ASSUME NEW b \in Blocks PROVE context.prevote[b] <= context'.prevote[b]
    BY SMTT(30), <1>1, <1>10, <2>1
  <2>3. ASSUME NEW b \in Blocks PROVE context.precommit[b] <= context'.precommit[b]
    BY <1>8, <1>10, <2>1
  <2> QED
    BY Zenon, <2>1, <2>2, <2>3 DEF Grows
<1> QED
  BY Zenon, <1>10, <1>11, <1>12, <1>19, <1>20 DEF RoundInv, ContextRecords

\* A precommit that add accepts: it waits if no prevote has named its block, else counts for the block and its ancestors.
LEMMA PrecommitKeeps ==
    ASSUME RoundInv, NEW m \in Votes, m.stage = "Precommit", IsFirstOfVoter(messages, m),
           messages' = messages \cup {m}, context' = AcceptPrecommit(context, m.last, Weight[m.voter])
    PROVE  RoundInv' /\ Grows
<1>1. m \in RoundMessages /\ m.voter \in Voters /\ m.last \in Blocks /\ Weight[m.voter] \in Nat
  BY Zenon, WeightOfIs DEF Votes, RoundMessages
<1>0. PICK N : N = context.nodes
  BY Zenon
<1>9. /\ \A b \in Blocks : context.prevote[b] = WeightOf(Prevoting(b))
      /\ \A b \in Blocks : context.pending[b] = IF b \in N THEN 0 ELSE WeightOf(Committing({b}))
      /\ \A b \in Targets : context.precommit[b] = WeightOf(Committing(Above(b, N)))
      /\ context.cumulativePrecommitWeight = WeightOf(Committing(N))
  BY Zenon, <1>0 DEF RoundInv, WeightsInv
<1>2. MessagesInv'
  BY ZenonT(60) DEF RoundInv, MessagesInv, IsFirstOfVoter
<1>3. \A b : Prevoting(b)' = Prevoting(b)
  BY Zenon DEF Prevoting
<1>4. ASSUME NEW R, m.last \notin R PROVE Committing(R)' = Committing(R)
  BY Zenon, <1>4 DEF Committing
<1>5. ASSUME NEW R, m.last \in R PROVE WeightOf(Committing(R)') = WeightOf(Committing(R)) + Weight[m.voter]
  <2>1. PICK ms : ms = Committing(R)
    BY Zenon
  <2>2. ms \in SUBSET RoundMessages /\ \A o \in ms : o.voter # m.voter
    BY Zenon, <2>1 DEF Committing, RoundInv, MessagesInv, Votes, IsFirstOfVoter
  <2>3. Committing(R)' = ms \cup {m}
    BY Zenon, <1>5, <2>1 DEF Committing
  <2>4. {m} \in SUBSET RoundMessages /\ \A o \in ms, n \in {m} : o.voter # n.voter
    BY Zenon, <1>1, <2>2
  <2>5. WeightOf(ms \cup {m}) = WeightOf(ms) + WeightOf({m})
    BY Zenon, <2>2, <2>4, WeightOfIs
  <2>6. WeightOf({m}) = Weight[m.voter]
    BY Zenon, <1>1, WeightOfIs
  <2> QED
    BY Zenon, <2>1, <2>3, <2>5, <2>6
<1>6. CASE m.last \notin context.nodes
  <2>1. /\ context'.nodes = N /\ context'.linked = context.linked /\ context'.prevote = context.prevote
        /\ context'.precommit = context.precommit
        /\ context'.cumulativePrecommitWeight = context.cumulativePrecommitWeight
        /\ context'.pending = [context.pending EXCEPT ![m.last] = @ + Weight[m.voter]]
        /\ context.pending \in [Blocks -> Nat]
    BY Zenon, <1>0, <1>6 DEF AcceptPrecommit, RoundInv, ContextRecords
  <2>2. context' \in ContextRecords
    <3>1. PICK pd : pd = [context.pending EXCEPT ![m.last] = @ + Weight[m.voter]]
      BY Zenon
    <3>2. pd \in [Blocks -> Nat]
      BY <1>1, <2>1, <3>1
    <3>3. context' = [context EXCEPT !.pending = pd]
      BY Zenon, <1>6, <3>1 DEF AcceptPrecommit
    <3> QED
      BY Zenon, <3>2, <3>3 DEF RoundInv, ContextRecords
  <2>3. TreeInv'
    BY Zenon, <1>0, <2>1 DEF RoundInv, TreeInv
  <2>4. \A b \in Blocks : context'.pending[b] = IF b \in N THEN 0 ELSE WeightOf(Committing({b})')
    <3> SUFFICES ASSUME NEW b \in Blocks
                 PROVE  context'.pending[b] = IF b \in N THEN 0 ELSE WeightOf(Committing({b})')
      BY Zenon
    <3>1. context.pending[b] = IF b \in N THEN 0 ELSE WeightOf(Committing({b}))
      BY Zenon, <1>9
    <3>2. CASE b = m.last
      <4>1. WeightOf(Committing({b})') = WeightOf(Committing({b})) + Weight[m.voter]
        BY Zenon, <1>5, <3>2
      <4>2. context'.pending[b] = context.pending[b] + Weight[m.voter]
        BY Zenon, <2>1, <3>2
      <4> QED
        BY Zenon, <1>0, <1>6, <3>1, <3>2, <4>1, <4>2
    <3>3. CASE b # m.last
      <4>1. Committing({b})' = Committing({b})
        BY Zenon, <1>4, <3>3
      <4>2. context'.pending[b] = context.pending[b]
        BY Zenon, <2>1, <3>3
      <4> QED
        BY Zenon, <3>1, <4>1, <4>2
    <3> QED
      BY Zenon, <3>2, <3>3
  <2>5. \A R : R \subseteq N => Committing(R)' = Committing(R)
    BY Zenon, <1>0, <1>4, <1>6
  <2>6. context'.cumulativePrecommitWeight = WeightOf(Committing(N)')
    BY Zenon, <1>9, <2>1, <2>5
  <2>7. \A b \in Targets : context'.precommit[b] = WeightOf(Committing(Above(b, N))')
    <3>1. \A b : Above(b, N) \subseteq N
      BY Zenon DEF Above
    <3>2. ASSUME NEW b \in Targets PROVE context'.precommit[b] = WeightOf(Committing(Above(b, N))')
      <4>1. context.precommit[b] = WeightOf(Committing(Above(b, N)))
        BY Zenon, <1>9
      <4>2. Committing(Above(b, N))' = Committing(Above(b, N))
        BY Zenon, <2>5, <3>1
      <4> QED
        BY Zenon, <2>1, <4>1, <4>2
    <3> QED
      BY Zenon, <3>2
  <2>8. \A b \in Blocks : context'.prevote[b] = WeightOf(Prevoting(b)')
    BY Zenon, <1>3, <1>9, <2>1
  <2>9. WeightsInv'
    <3>1. /\ Committing(context.nodes)' = Committing(N)'
          /\ \A b \in Blocks : Committing(Above(b, context.nodes))' = Committing(Above(b, N))'
      BY Zenon, <2>1 DEF Committing, Above
    <3>2. Targets \subseteq Blocks
      BY Zenon DEF Targets
    <3> QED
      BY Zenon, <2>1, <2>4, <2>6, <2>7, <2>8, <3>1, <3>2 DEF WeightsInv, WeightOf
  <2>10. Grows
    <3>1. context.prevote \in [Blocks -> Nat] /\ context.precommit \in [Blocks -> Nat]
      BY Zenon DEF RoundInv, ContextRecords
    <3> QED
      BY <1>0, <2>1, <3>1 DEF Grows
  <2> QED
    BY Zenon, <1>2, <2>2, <2>3, <2>9, <2>10 DEF RoundInv, ContextRecords
<1>7. CASE m.last \in context.nodes
  <2>1. PICK pc : pc = [b \in Blocks |-> IF IsDescendant(context, b, m.last)
                                         THEN context.precommit[b] + Weight[m.voter] ELSE context.precommit[b]]
    BY Zenon
  <2>2. context' = [context EXCEPT !.precommit = pc, !.cumulativePrecommitWeight = @ + Weight[m.voter]]
    BY Zenon, <1>7, <2>1 DEF AcceptPrecommit
  <2>3. context.precommit \in [Blocks -> Nat] /\ context.cumulativePrecommitWeight \in Nat
    BY Zenon DEF RoundInv, ContextRecords
  <2>4. pc \in [Blocks -> Nat] /\ context.cumulativePrecommitWeight + Weight[m.voter] \in Nat
    BY <1>1, <2>1, <2>3
  <2>5. /\ context'.nodes = N /\ context'.linked = context.linked /\ context'.prevote = context.prevote
        /\ context'.precommit = pc /\ context'.pending = context.pending
        /\ context'.cumulativePrecommitWeight = context.cumulativePrecommitWeight + Weight[m.voter]
        /\ context' \in ContextRecords
    BY Zenon, <1>0, <2>2, <2>4 DEF RoundInv, ContextRecords
  <2>6. TreeInv'
    BY Zenon, <1>0, <2>5 DEF RoundInv, TreeInv
  <2>7. \A b \in Blocks : context'.pending[b] = IF b \in N THEN 0 ELSE WeightOf(Committing({b})')
    <3>1. \A b : b \notin N => Committing({b})' = Committing({b})
      BY Zenon, <1>0, <1>4, <1>7
    <3> QED
      BY Zenon, <1>9, <2>5, <3>1
  <2>8. context'.cumulativePrecommitWeight = WeightOf(Committing(N)')
    <3>1. WeightOf(Committing(N)') = WeightOf(Committing(N)) + Weight[m.voter]
      BY Zenon, <1>0, <1>5, <1>7
    <3> QED
      BY Zenon, <1>9, <2>5, <3>1
  <2>9. \A b \in Targets : context'.precommit[b] = WeightOf(Committing(Above(b, N))')
    <3> SUFFICES ASSUME NEW b \in Targets PROVE context'.precommit[b] = WeightOf(Committing(Above(b, N))')
      BY Zenon
    <3>1. b \in Blocks
      BY Zenon DEF Targets
    <3>2. PICK o \in messages : o.stage = "Prevote" /\ m.last \in Hashes(o.first, o.last)
      BY Zenon, <1>7 DEF RoundInv, TreeInv
    <3>3. o.first \in Starts /\ o.last \in Blocks
      BY Zenon, <3>2 DEF RoundInv, MessagesInv, Votes, RoundMessages
    <3>4. Hashes(o.first, o.last) \subseteq context.nodes /\ context.nodes \ context.linked \subseteq Starts
      BY Zenon, <3>2 DEF RoundInv, TreeInv
    <3>5. IsDescendant(context, b, m.last) <=> b \in Ancestors[m.last]
      BY Zenon, <3>2, <3>3, <3>4, DescendsFromTarget
    <3>6. context.precommit[b] = WeightOf(Committing(Above(b, N)))
      BY Zenon, <1>9
    <3>7. CASE b \in Ancestors[m.last]
      <4>1. m.last \in Above(b, N)
        BY Zenon, <1>0, <1>7, <3>7 DEF Above
      <4>2. WeightOf(Committing(Above(b, N))') = WeightOf(Committing(Above(b, N))) + Weight[m.voter]
        BY Zenon, <1>5, <4>1
      <4>3. context'.precommit[b] = context.precommit[b] + Weight[m.voter]
        BY Zenon, <2>1, <2>5, <3>1, <3>5, <3>7
      <4> QED
        BY Zenon, <3>6, <4>2, <4>3
    <3>8. CASE b \notin Ancestors[m.last]
      <4>1. m.last \notin Above(b, N)
        BY Zenon, <3>8 DEF Above
      <4>2. Committing(Above(b, N))' = Committing(Above(b, N))
        BY Zenon, <1>4, <4>1
      <4>3. context'.precommit[b] = context.precommit[b]
        BY ZenonT(60), <2>1, <2>5, <3>1, <3>5, <3>8
      <4> QED
        BY Zenon, <3>6, <4>2, <4>3
    <3> QED
      BY Zenon, <3>7, <3>8
  <2>10. \A b \in Blocks : context'.prevote[b] = WeightOf(Prevoting(b)')
    BY Zenon, <1>3, <1>9, <2>5
  <2>11. WeightsInv'
    <3>1. /\ Committing(context.nodes)' = Committing(N)'
          /\ \A b \in Blocks : Committing(Above(b, context.nodes))' = Committing(Above(b, N))'
      BY Zenon, <2>5 DEF Committing, Above
    <3>2. Targets \subseteq Blocks
      BY Zenon DEF Targets
    <3> QED
      BY Zenon, <2>5, <2>7, <2>8, <2>9, <2>10, <3>1, <3>2 DEF WeightsInv, WeightOf
  <2>12. Grows
    <3>1. context.prevote \in [Blocks -> Nat]
      BY Zenon DEF RoundInv, ContextRecords
    <3> QED
      BY <1>0, <1>1, <2>1, <2>3, <2>5, <3>1 DEF Grows
  <2> QED
    BY Zenon, <1>2, <2>5, <2>6, <2>11, <2>12 DEF RoundInv, ContextRecords
<1> QED
  BY Zenon, <1>6, <1>7

\* A message that add takes or refuses keeps the invariant, and takes no weight away.
LEMMA StepKeeps == RoundInv /\ [RoundNext]_roundVars => RoundInv' /\ Grows
<1> SUFFICES ASSUME RoundInv, [RoundNext]_roundVars PROVE RoundInv' /\ Grows
  BY Zenon
<1>1. CASE UNCHANGED roundVars
  <2>1. context' = context /\ messages' = messages
    BY Zenon, <1>1 DEF roundVars
  <2>2. MessagesInv' /\ TreeInv'
    BY Zenon, <2>1 DEF RoundInv, MessagesInv, TreeInv
  <2>3. /\ \A b \in Blocks : Prevoting(b)' = Prevoting(b)
        /\ \A b \in Blocks : Committing({b})' = Committing({b})
        /\ \A b \in Blocks : Committing(Above(b, context.nodes))' = Committing(Above(b, context.nodes))
        /\ Committing(context.nodes)' = Committing(context.nodes)
    BY Zenon, <2>1 DEF Committing, Prevoting, Above
  <2>4. WeightsInv'
    BY Zenon, <2>1, <2>3 DEF RoundInv, WeightsInv, WeightOf, Targets
  <2>5. Grows
    <3>1. context.prevote \in [Blocks -> Nat] /\ context.precommit \in [Blocks -> Nat]
      BY Zenon DEF RoundInv, ContextRecords
    <3> QED
      BY <2>1, <3>1 DEF Grows
  <2> QED
    BY Zenon, <2>1, <2>2, <2>4, <2>5 DEF RoundInv, ContextRecords
<1>2. CASE RoundNext
  <2>1. PICK m \in Votes : Add(m)
    BY Zenon, <1>2 DEF RoundNext
  <2>2. CASE IsWellFormed(m) /\ IsFirstOfVoter(messages, m)
    <3>1. messages' = messages \cup {m} /\ context' = Accept(context, m)
      BY Zenon, <2>1, <2>2 DEF Add
    <3>2. CASE m.stage = "Prevote"
      <4>1. context' = AcceptPrevote(context, m.first, m.last, Weight[m.voter])
        BY Zenon, <3>1, <3>2 DEF Accept
      <4> QED
        BY Zenon, <2>2, <3>1, <3>2, <4>1, PrevoteKeeps
    <3>3. CASE m.stage # "Prevote"
      <4>1. context' = AcceptPrecommit(context, m.last, Weight[m.voter])
        BY Zenon, <3>1, <3>3 DEF Accept
      <4>2. m.stage = "Precommit"
        BY Zenon, <3>3 DEF Votes, RoundMessages, Stages
      <4> QED
        BY Zenon, <2>2, <3>1, <4>1, <4>2, PrecommitKeeps
    <3> QED
      BY Zenon, <3>2, <3>3
  <2>3. CASE ~(IsWellFormed(m) /\ IsFirstOfVoter(messages, m))
    <3>1. UNCHANGED roundVars
      BY Zenon, <2>1, <2>3 DEF Add
    <3> QED
      BY Zenon, <1>1, <3>1
  <2> QED
    BY Zenon, <2>2, <2>3
<1> QED
  BY Zenon, <1>1, <1>2

\* What the tree, the candidates and the waiting precommits hold for the messages that add has taken, always.
THEOREM RoundInvariant == RoundSpec => []RoundInv
<1>1. RoundInit => RoundInv
  BY Zenon, InitIsRound
<1>2. RoundInv /\ [RoundNext]_roundVars => RoundInv'
  BY Zenon, StepKeeps
<1> QED
  BY <1>1, <1>2, PTL DEF RoundSpec

\* The weights match in every state that satisfies the invariant.
LEMMA InvariantMatches == RoundInv => WeightsMatchMessages
<1> SUFFICES ASSUME RoundInv PROVE WeightsMatchMessages
  BY Zenon
<1>1. context.nodes \subseteq Blocks
  BY Zenon DEF RoundInv, ContextRecords
<1>2. \A b \in Blocks : {m \in Prevotes : b \in Hashes(m.first, m.last)} = Prevoting(b)
  BY Zenon DEF Prevotes, Prevoting
<1>3. KnownPrecommits = Committing(context.nodes)
  BY Zenon DEF KnownPrecommits, Committing
<1>4. \A b \in Blocks : {m \in KnownPrecommits : b \in Ancestors[m.last]} = Committing(Above(b, context.nodes))
  BY Zenon DEF KnownPrecommits, Committing, Above
<1> QED
  BY Zenon, <1>1, <1>2, <1>3, <1>4 DEF WeightsMatchMessages, RoundInv, WeightsInv

\* WeightsMatchMessages: for any blocks, voters and weights, and in whatever order add takes the messages, a candidate
\* carries exactly the weight of the prevotes that name it and, if it is below none of Starts, of the precommits for it
\* or a descendant; a precommit that came before the first prevote for its block is counted once.
THEOREM WeightsStayMatched == RoundSpec => []WeightsMatchMessages
  BY RoundInvariant, InvariantMatches, PTL

-----------------------------------------------------------------------------
(* What is found stays found                                               *)

\* A finite set with a total order has a greatest member.
LEMMA FiniteGreatest ==
    ASSUME NEW S, IsFiniteSet(S), S # {}, NEW R,
           \A x, y \in S : <<x, y>> \in R \/ <<y, x>> \in R,
           \A x, y, z \in S : <<x, y>> \in R /\ <<y, z>> \in R => <<x, z>> \in R
    PROVE  \E x \in S : \A y \in S : <<y, x>> \in R
<1> DEFINE B == {T \in SUBSET S : T # {} /\ ~\E x \in T : \A y \in T : <<y, x>> \in R}
<1> SUFFICES ASSUME B # {} PROVE FALSE
  BY Zenon
<1>1. PICK T \in B : \A U \in B : U \subseteq T => U = T
  <2>1. B \in SUBSET (SUBSET S)
    BY Zenon
  <2> HIDE DEF B
  <2> QED
    BY <2>1, MinimalSubset
<1>2. T \in SUBSET S /\ T # {} /\ ~\E x \in T : \A y \in T : <<y, x>> \in R
  BY Zenon, <1>1
<1>3. PICK x : x \in T
  BY Zenon, <1>2
<1>4. T \ {x} \notin B
  <2>1. T \ {x} \subseteq T /\ T \ {x} # T
    BY Zenon, <1>3
  <2> HIDE DEF B
  <2> QED
    BY Zenon, <1>1, <2>1
<1>5. T \ {x} = {} \/ \E z \in T \ {x} : \A y \in T \ {x} : <<y, z>> \in R
  BY Zenon, <1>2, <1>4
<1>6. CASE T \ {x} = {}
  <2>1. \A y \in T : <<y, x>> \in R
    BY <1>2, <1>3, <1>6
  <2> QED
    BY Zenon, <1>2, <1>3, <2>1
<1>7. CASE \E z \in T \ {x} : \A y \in T \ {x} : <<y, z>> \in R
  <2>1. PICK z \in T \ {x} : \A y \in T \ {x} : <<y, z>> \in R
    BY Zenon, <1>7
  <2>2. x \in S /\ z \in S /\ T \subseteq S
    BY Zenon, <1>2, <1>3, <2>1
  <2>3. CASE <<x, z>> \in R
    <3>1. \A y \in T : <<y, z>> \in R
      BY Zenon, <2>1, <2>3
    <3> QED
      BY Zenon, <1>2, <2>1, <3>1
  <2>4. CASE <<z, x>> \in R
    <3>1. ASSUME NEW y \in T PROVE <<y, x>> \in R
      <4>1. CASE y = x
        BY Zenon, <2>2, <4>1
      <4>2. CASE y # x
        BY Zenon, <2>1, <2>2, <2>4, <4>2
      <4> QED
        BY Zenon, <4>1, <4>2
    <3> QED
      BY Zenon, <1>2, <1>3, <3>1
  <2> QED
    BY Zenon, <2>2, <2>3, <2>4
<1> QED
  BY Zenon, <1>5, <1>6, <1>7

\* A finite set of numbers has a greatest one.
LEMMA FiniteMax ==
    ASSUME NEW S \in SUBSET Nat, IsFiniteSet(S), S # {}
    PROVE  Max(S) \in S /\ \A y \in S : y <= Max(S)
<1>1. PICK R : R = {p \in Nat \X Nat : p[1] <= p[2]}
  BY Zenon
<1>2. \A x, y \in Nat : <<x, y>> \in R <=> x <= y
  BY Zenon, <1>1
<1>3. /\ \A x, y \in S : <<x, y>> \in R \/ <<y, x>> \in R
      /\ \A x, y, z \in S : <<x, y>> \in R /\ <<y, z>> \in R => <<x, z>> \in R
  BY <1>2
<1>4. \E x \in S : \A y \in S : <<y, x>> \in R
  BY Zenon, <1>3, FiniteGreatest
<1>5. \E x \in S : \A y \in S : x >= y
  BY Zenon, <1>2, <1>4
<1>6. PICK g : g = CHOOSE x \in S : \A y \in S : x >= y
  BY Zenon
<1>7. g \in S /\ \A y \in S : g >= y
  BY Zenon, <1>5, <1>6
<1> QED
  BY Zenon, <1>6, <1>7 DEF Max

\* The quorum is a number.
LEMMA ThresholdIs == CalculateWeightedThreshold \in Nat /\ TotalWeight \in Nat
<1>1. TotalWeight \in Nat
  BY Zenon, WeightIs DEF TotalWeight
<1>2. PICK p : p = TotalWeight * Threshold
  BY Zenon
<1>3. p \in Nat
  BY <1>1, <1>2, WeightAssumption
<1>4. PICK r : r = p % UintModulus
  BY Zenon
<1>5. r \in Nat
  BY <1>3, <1>4, WeightAssumption
<1>6. r \div Size \in Nat
  BY <1>5, WeightAssumption
<1> QED
  BY Zenon, <1>1, <1>2, <1>4, <1>6 DEF CalculateWeightedThreshold

\* If two quorums overlap, blocks that both have a quorum of prevotes share a prevote, so they are on one chain.
LEMMA PrevotedOnOneChain ==
    ASSUME 2 * CalculateWeightedThreshold > TotalWeight, RoundInv, NEW a \in Blocks, NEW b \in Blocks,
           context.prevote[a] >= CalculateWeightedThreshold, context.prevote[b] >= CalculateWeightedThreshold
    PROVE  a \in Ancestors[b] \/ b \in Ancestors[a]
<1>1. PICK P, Q : P = Prevoting(a) /\ Q = Prevoting(b)
  BY Zenon
<1>2. P \in SUBSET RoundMessages /\ Q \in SUBSET RoundMessages
  BY Zenon, <1>1 DEF Prevoting, RoundInv, MessagesInv, Votes
<1>3. context.prevote[a] = WeightOf(P) /\ context.prevote[b] = WeightOf(Q)
  BY Zenon, <1>1 DEF RoundInv, WeightsInv
<1>4. WeightOf(P) \in Nat /\ WeightOf(Q) \in Nat
  BY Zenon, <1>2, WeightOfIs
<1>5. WeightOf(P \cup Q) <= TotalWeight
  <2>1. {m.voter : m \in P \cup Q} \in SUBSET Voters
    BY Zenon, <1>2 DEF RoundMessages
  <2>2. Voters \in SUBSET Voters
    BY Zenon
  <2> QED
    BY Zenon, <2>1, <2>2, WeightIs DEF WeightOf, TotalWeight
<1>6. ~\A m \in P, n \in Q : m.voter # n.voter
  <2> SUFFICES ASSUME \A m \in P, n \in Q : m.voter # n.voter PROVE FALSE
    BY Zenon
  <2>1. WeightOf(P \cup Q) = WeightOf(P) + WeightOf(Q)
    BY Zenon, <1>2, WeightOfIs
  <2> QED
    BY <1>3, <1>4, <1>5, <2>1, ThresholdIs
<1>7. PICK m \in P, n \in Q : m.voter = n.voter
  BY Zenon, <1>6
<1>8. m = n /\ m \in Votes /\ a \in Hashes(m.first, m.last) /\ b \in Hashes(m.first, m.last)
  BY Zenon, <1>1, <1>7 DEF Prevoting, RoundInv, MessagesInv
<1>9. m.last \in Blocks /\ a \in Ancestors[m.last] /\ b \in Ancestors[m.last]
  BY Zenon, <1>2, <1>7, <1>8 DEF Hashes, RoundMessages
<1> QED
  BY Zenon, <1>9, AncestorsAre

\* The candidates that tryFindBestPrecommit takes the last of.
Finalizable == {b \in context.nodes : /\ context.prevote[b] >= CalculateWeightedThreshold
                                      /\ context.precommit[b] >= CalculateWeightedThreshold}

\* The last match is a match, and no match is above it.
IsBest ==
    /\ Finalizable \subseteq Blocks
    /\ Finalizable = {} => TryFindBestPrecommit(context) = None
    /\ Finalizable # {} => /\ TryFindBestPrecommit(context) \in Finalizable
                           /\ \A b \in Finalizable : b <= TryFindBestPrecommit(context)

OnOneChain == \A a, b \in Finalizable : a \in Ancestors[b] \/ b \in Ancestors[a]

\* tryFindBestPrecommit returns the last of the blocks with a quorum of both kinds, which are on one chain.
LEMMA BestPrecommitIs == RoundInv => IsBest
<1> SUFFICES ASSUME RoundInv PROVE IsBest
  BY Zenon
<1>1. PICK F : F = Finalizable
  BY Zenon
<1>2. TryFindBestPrecommit(context) = LastMatch(F)
  BY Zenon, <1>1 DEF TryFindBestPrecommit, Finalizable
<1>3. F \subseteq context.nodes /\ context.nodes \subseteq Blocks /\ IsFiniteSet(context.nodes)
  BY Zenon, <1>1 DEF Finalizable, RoundInv, TreeInv, ContextRecords
<1>4. IsFiniteSet(F)
  BY Zenon, <1>3, FS_Subset
<1>5. F \in SUBSET Nat
  BY Zenon, <1>3, AncestorsAre
<1>6. F # {} => Max(F) \in F /\ \A b \in F : b <= Max(F)
  BY Zenon, <1>4, <1>5, FiniteMax
<1> QED
  BY Zenon, <1>1, <1>2, <1>3, <1>6 DEF LastMatch, IsBest

\* BestPrecommitExtends, whenever the quorum is more than half of the weight: what tryFindBestPrecommit has returned is
\* never withdrawn, and no message moves it to a block that is not a descendant.
THEOREM BestPrecommitStays ==
    ASSUME 2 * CalculateWeightedThreshold > TotalWeight
    PROVE  RoundSpec => BestPrecommitExtends
<1>3. RoundInv => IsBest /\ OnOneChain
  <2>1. RoundInv => IsBest
    BY Zenon, BestPrecommitIs
  <2>2. RoundInv /\ IsBest => OnOneChain
    BY Zenon, PrevotedOnOneChain DEF Finalizable, OnOneChain, IsBest
  <2> QED
    BY Zenon, <2>1, <2>2
<1>4. RoundInv' => IsBest' /\ OnOneChain'
  BY <1>3, PTL
<1>1. ASSUME RoundInv, [RoundNext]_roundVars, TryFindBestPrecommit(context) # None
      PROVE  /\ TryFindBestPrecommit(context') # None
             /\ TryFindBestPrecommit(context) \in Ancestors[TryFindBestPrecommit(context')]
  <2>1. RoundInv' /\ Grows
    BY Zenon, <1>1, StepKeeps
  <2>2. PICK old, new : old = TryFindBestPrecommit(context) /\ new = TryFindBestPrecommit(context')
    BY Zenon
  <2>3. old \in Finalizable /\ Finalizable \subseteq Blocks
    BY Zenon, <1>1, <1>3, <2>2 DEF IsBest
  <2>4. old \in Finalizable'
    <3>1. old \in context.nodes /\ old \in Blocks
      BY Zenon, <2>3 DEF Finalizable
    <3>2. context.prevote[old] >= CalculateWeightedThreshold /\ context.precommit[old] >= CalculateWeightedThreshold
      BY Zenon, <2>3 DEF Finalizable
    <3>3. /\ context.prevote[old] \in Nat /\ context.precommit[old] \in Nat
          /\ context'.prevote[old] \in Nat /\ context'.precommit[old] \in Nat
      BY Zenon, <1>1, <2>1, <3>1 DEF RoundInv, ContextRecords
    <3>4. context.prevote[old] <= context'.prevote[old] /\ context.precommit[old] <= context'.precommit[old]
      BY Zenon, <2>1, <3>1 DEF Grows
    <3>5. context'.prevote[old] >= CalculateWeightedThreshold /\ context'.precommit[old] >= CalculateWeightedThreshold
      BY <3>2, <3>3, <3>4, ThresholdIs
    <3>6. old \in context'.nodes
      BY Zenon, <2>1, <3>1 DEF Grows
    <3> QED
      BY Zenon, <3>5, <3>6 DEF Finalizable, CalculateWeightedThreshold, TotalWeight, WeightOfVoters, WeightTable
  <2>5. new \in Finalizable' /\ old <= new /\ new \in Blocks
    <3>1. /\ Finalizable' \subseteq Blocks
          /\ Finalizable' # {} => /\ TryFindBestPrecommit(context') \in Finalizable'
                                  /\ \A b \in Finalizable' : b <= TryFindBestPrecommit(context')
      BY Zenon, <1>4, <2>1 DEF IsBest
    <3> QED
      BY Zenon, <2>2, <2>4, <3>1
  <2>6. old \in Ancestors[new] \/ new \in Ancestors[old]
    BY Zenon, <1>4, <2>1, <2>4, <2>5 DEF OnOneChain
  <2>7. old \in Ancestors[new]
    BY Zenon, <2>3, <2>5, <2>6, AncestorsAre
  <2>8. new # None
    BY Zenon, <2>5, BlocksAssumption
  <2> QED
    BY Zenon, <2>2, <2>7, <2>8
<1>2. RoundInv /\ [RoundNext]_roundVars
        => [LET old == TryFindBestPrecommit(context)
                new == TryFindBestPrecommit(context')
            IN  old /= None => new /= None /\ old \in Ancestors[new]]_roundVars
  BY Zenon, <1>1
<1> QED
  BY <1>2, RoundInvariant, PTL DEF RoundSpec, BestPrecommitExtends

-----------------------------------------------------------------------------
(* A round that may be left                                                *)

\* A set of numbers has a least one.
LEMMA LeastBlock ==
    ASSUME NEW S \in SUBSET Nat, S # {}
    PROVE  \E x \in S : \A y \in S : x <= y
<1> DEFINE Less == OpToRel(<, Nat)
<1>1. \A m, n \in Nat : m < n => <<m, n>> \in Less
  BY Zenon DEF OpToRel
<1>2. IsWellFoundedOn(Less, Nat)
  BY Zenon, NatLessThanWellFounded
<1> HIDE DEF Less
<1>3. PICK x \in S : \A y \in S : <<y, x>> \notin Less
  BY Zenon, <1>2, WFMin
<1>4. \A y \in S : ~(y < x)
  BY Zenon, <1>1, <1>3
<1> QED
  BY <1>4

\* A sum over more is more.
LEMMA SumGrows ==
    ASSUME NEW f \in [Blocks -> Nat], NEW T \in SUBSET Blocks, NEW S \in SUBSET T, IsFiniteSet(T)
    PROVE  SumOver(f, S) \in Nat /\ SumOver(f, T) \in Nat /\ SumOver(f, S) <= SumOver(f, T)
<1>1. IsFiniteSet(S) /\ IsFiniteSet(T \ S) /\ S \in SUBSET Blocks /\ T \ S \in SUBSET Blocks
  BY Zenon, FS_Subset
<1>2. PICK U : U = T \ S
  BY Zenon
<1>3. IsFiniteSet(U) /\ U \in SUBSET Blocks /\ S \cap U = {} /\ T = S \cup U
  BY Zenon, <1>1, <1>2
<1>4. SumOver(f, S \cup U) = SumOver(f, S) + SumOver(f, U)
  BY <1>1, <1>3, SumOfUnion
<1>5. SumOver(f, S) \in Nat /\ SumOver(f, U) \in Nat
  BY Zenon, <1>1, <1>3, SumIs
<1> QED
  BY <1>3, <1>4, <1>5

\* A linked node has a branch below it in the tree.
Links(nodes, linked) ==
    /\ nodes \subseteq Blocks /\ linked \subseteq nodes
    /\ \A x \in linked : \E s \in Ancestors[x] : s # x /\ Hashes(s, x) \subseteq nodes

\* A path of nodes that are linked, or not in the tree, is in the tree.
LEMMA PathInTree ==
    ASSUME NEW nodes, NEW linked, Links(nodes, linked), NEW b \in nodes, NEW a \in Ancestors[b],
           \A z \in Hashes(a, b) : z # a /\ z \in nodes => z \in linked
    PROVE  Hashes(a, b) \subseteq nodes
<1>1. PICK S : S = {z \in Hashes(a, b) : Hashes(z, b) \subseteq nodes}
  BY Zenon
<1>2. b \in Blocks /\ a \in Blocks /\ b \in Hashes(a, b)
  BY Zenon, AncestorsAre DEF Links, Hashes
<1>3. b \in S
  <2>1. ASSUME NEW z \in Hashes(b, b) PROVE z = b
    <3>1. z \in Ancestors[b] /\ b \in Ancestors[z]
      BY Zenon DEF Hashes
    <3>2. z \in Nat /\ b \in Nat /\ z <= b /\ b <= z
      BY Zenon, <1>2, <3>1, AncestorsAre
    <3> QED
      BY <3>2
  <2> QED
    BY Zenon, <1>1, <1>2, <2>1
<1>4. S \in SUBSET Nat
  BY Zenon, <1>1, <1>2, AncestorsAre DEF Hashes
<1>5. PICK y \in S : \A x \in S : y <= x
  BY Zenon, <1>3, <1>4, LeastBlock
<1>6. y \in Blocks /\ y \in Ancestors[b] /\ a \in Ancestors[y] /\ Hashes(y, b) \subseteq nodes /\ y \in nodes /\ y \in Hashes(a, b)
  BY Zenon, <1>1, <1>2, <1>5, AncestorsAre DEF Hashes
<1>7. CASE y = a
  BY Zenon, <1>6, <1>7
<1>8. CASE y # a
  <2>1. PICK s \in Ancestors[y] : s # y /\ Hashes(s, y) \subseteq nodes
    BY Zenon, <1>6, <1>8 DEF Links
  <2>2. s \in Blocks /\ s \in Ancestors[b] /\ (a \in Ancestors[s] \/ s \in Ancestors[a])
    BY Zenon, <1>2, <1>6, AncestorsAre
  <2>3. ~(y <= s)
    BY <1>2, <1>6, <2>1, <2>2, AncestorsAre
  <2>4. CASE a \in Ancestors[s]
    <3>1. ASSUME NEW z \in Hashes(s, b) PROVE z \in nodes
      <4>1. z \in Ancestors[b] /\ s \in Ancestors[z] /\ (y \in Ancestors[z] \/ z \in Ancestors[y])
        BY Zenon, <1>2, <1>6, AncestorsAre DEF Hashes
      <4> QED
        BY Zenon, <1>6, <2>1, <4>1 DEF Hashes
    <3>2. s \in Hashes(a, b)
      BY Zenon, <2>2, <2>4 DEF Hashes
    <3>3. s \in S
      BY Zenon, <1>1, <3>1, <3>2
    <3> QED
      BY Zenon, <1>5, <2>3, <3>3
  <2>5. CASE s \in Ancestors[a]
    <3>1. ASSUME NEW z \in Hashes(a, b) PROVE z \in nodes
      <4>1. z \in Blocks /\ z \in Ancestors[b] /\ a \in Ancestors[z] /\ (y \in Ancestors[z] \/ z \in Ancestors[y])
        BY Zenon, <1>2, <1>6, AncestorsAre DEF Hashes
      <4>2. s \in Ancestors[z]
        BY Zenon, <2>5, <4>1, AncestorsAre
      <4> QED
        BY Zenon, <1>6, <2>1, <4>1, <4>2 DEF Hashes
    <3> QED
      BY Zenon, <3>1
  <2> QED
    BY Zenon, <2>2, <2>4, <2>5
<1> QED
  BY Zenon, <1>7, <1>8

\* isDescendant only finds nodes of the tree.
LEMMA AncestorInTree ==
    ASSUME NEW c, Links(c.nodes, c.linked), NEW a, NEW b, IsDescendant(c, a, b)
    PROVE  a \in c.nodes
<1>1. PICK nodes, linked : nodes = c.nodes /\ linked = c.linked
  BY Zenon
<1>2. Links(nodes, linked) /\ b \in nodes /\ a \in Ancestors[b] /\ \A z \in Hashes(a, b) : z # a /\ z \in nodes => z \in linked
  BY Zenon, <1>1 DEF IsDescendant
<1>3. Hashes(a, b) \subseteq nodes
  BY Zenon, <1>2, PathInTree
<1>4. a \in Hashes(a, b)
  BY Zenon, <1>2, AncestorsAre DEF Hashes, Links
<1> QED
  BY Zenon, <1>1, <1>3, <1>4

\* isDescendant is transitive.
LEMMA DescendsOn ==
    ASSUME NEW c, c.nodes \subseteq Blocks, NEW a, NEW b, NEW key, IsDescendant(c, a, b), IsDescendant(c, b, key)
    PROVE  IsDescendant(c, a, key)
<1>1. key \in c.nodes /\ b \in c.nodes /\ key \in Blocks /\ b \in Blocks /\ b \in Ancestors[key] /\ a \in Ancestors[b]
  BY Zenon DEF IsDescendant
<1>2. a \in Ancestors[key]
  BY Zenon, <1>1, AncestorsAre
<1>3. ASSUME NEW z \in Hashes(a, key), z # a PROVE z \in c.linked
  <2>1. z \in Ancestors[key] /\ a \in Ancestors[z] /\ (z \in Ancestors[b] \/ b \in Ancestors[z])
    BY Zenon, <1>1, AncestorsAre DEF Hashes
  <2>2. CASE z \in Ancestors[b]
    <3>1. z \in Hashes(a, b) \ {a}
      BY Zenon, <1>3, <2>1, <2>2 DEF Hashes
    <3> QED
      BY Zenon, <3>1 DEF IsDescendant
  <2>3. CASE b \in Ancestors[z] /\ z # b
    <3>1. z \in Hashes(b, key) \ {b}
      BY Zenon, <2>1, <2>3 DEF Hashes
    <3> QED
      BY Zenon, <3>1 DEF IsDescendant
  <2>4. b \in Ancestors[b]
    BY Zenon, <1>1, AncestorsAre
  <2> QED
    BY Zenon, <2>1, <2>2, <2>3, <2>4
<1> QED
  BY Zenon, <1>1, <1>2, <1>3 DEF IsDescendant

\* A block that is not in the tree has no precommits, and none has more than a block it descends from.
PathInv ==
    /\ Links(context.nodes, context.linked)
    /\ \A b \in Blocks : b \notin context.nodes => context.precommit[b] = 0
    /\ \A a, b \in Blocks : IsDescendant(context, a, b) => context.precommit[b] <= context.precommit[a]

\* No candidate gains more than all precommits together.
GainsLess ==
    /\ context.cumulativePrecommitWeight <= context'.cumulativePrecommitWeight
    /\ \A b \in Blocks : context'.precommit[b] + context.cumulativePrecommitWeight
                            <= context.precommit[b] + context'.cumulativePrecommitWeight

\* acceptPrevote keeps the paths of the tree, and gives no candidate more than the precommits it takes from the waiting.
LEMMA PrevoteKeepsPaths ==
    ASSUME RoundInv, PathInv, NEW m \in Votes, m.stage = "Prevote",
           context' = AcceptPrevote(context, m.first, m.last, Weight[m.voter])
    PROVE  PathInv' /\ GainsLess
<1>1. m.first \in Blocks /\ m.last \in Blocks /\ m.first \in Ancestors[m.last]
  BY Zenon, PrevoteIs
<1>2. PICK branch, resolved : PrevoteEffect(m, branch, resolved)
  BY Zenon, PrevoteGives
<1>3. PICK tree, nodes, linked : tree = context' /\ nodes = context.nodes /\ linked = context.linked
  BY Zenon
<1>4. /\ tree.nodes = nodes \cup branch /\ tree.linked = linked \cup (branch \ (nodes \cup {m.first}))
      /\ branch = Hashes(m.first, m.last) /\ branch \subseteq Blocks /\ IsFiniteSet(branch)
  BY Zenon, <1>2, <1>3 DEF PrevoteEffect
<1>5. \A b \in Blocks : /\ resolved[b] = {key \in branch : IsDescendant(tree, b, key)}
                        /\ resolved[b] \subseteq branch /\ SumOver(context.pending, resolved[b]) \in Nat
  BY Zenon, <1>2, <1>3 DEF PrevoteEffect
<1>6. /\ context'.precommit = [b \in Blocks |-> context.precommit[b] + SumOver(context.pending, resolved[b])]
      /\ context'.cumulativePrecommitWeight = context.cumulativePrecommitWeight + SumOver(context.pending, branch)
  BY Zenon, <1>2 DEF PrevoteEffect
<1>7. /\ context.pending \in [Blocks -> Nat] /\ context.precommit \in [Blocks -> Nat]
      /\ context.cumulativePrecommitWeight \in Nat /\ nodes \subseteq Blocks /\ Links(nodes, linked)
  BY Zenon, <1>3 DEF RoundInv, ContextRecords, PathInv
<1>8. Links(tree.nodes, tree.linked)
  <2>1. ASSUME NEW x \in linked PROVE \E s \in Ancestors[x] : s # x /\ Hashes(s, x) \subseteq tree.nodes
    BY Zenon, <1>4, <1>7 DEF Links
  <2>2. ASSUME NEW x \in branch, x # m.first PROVE \E s \in Ancestors[x] : s # x /\ Hashes(s, x) \subseteq tree.nodes
    <3>1. x \in Blocks /\ x \in Ancestors[m.last] /\ m.first \in Ancestors[x]
      BY Zenon, <1>4 DEF Hashes
    <3>2. Ancestors[x] \subseteq Ancestors[m.last]
      BY Zenon, <1>1, <3>1, AncestorsAre
    <3>3. Hashes(m.first, x) \subseteq branch
      BY Zenon, <1>4, <3>2 DEF Hashes
    <3> QED
      BY Zenon, <1>4, <2>2, <3>1, <3>3
  <2> QED
    BY Zenon, <1>4, <1>7, <2>1, <2>2 DEF Links
<1>9. ASSUME NEW b \in Blocks, b \notin tree.nodes PROVE context'.precommit[b] = 0
  <2>1. resolved[b] = {}
    BY Zenon, <1>5, <1>8, <1>9, AncestorInTree
  <2>2. SumOver(context.pending, {}) = 0
    BY Zenon, <1>7, FS_EmptySet, SumIs
  <2>3. context.precommit[b] = 0
    BY Zenon, <1>3, <1>4, <1>9 DEF PathInv
  <2> QED
    BY <1>6, <2>1, <2>2, <2>3
<1>10. ASSUME NEW a \in Blocks, NEW b \in Blocks, IsDescendant(tree, a, b) PROVE context'.precommit[b] <= context'.precommit[a]
  <2>1. resolved[b] \subseteq resolved[a]
    <3>1. tree.nodes \subseteq Blocks
      BY Zenon, <1>4, <1>7
    <3> QED
      BY Zenon, <1>5, <1>10, <3>1, DescendsOn
  <2>2. PICK Q, R : Q = resolved[b] /\ R = resolved[a]
    BY Zenon
  <2>3. R \in SUBSET Blocks /\ IsFiniteSet(R) /\ Q \in SUBSET R
    BY Zenon, <1>2, <2>1, <2>2 DEF PrevoteEffect
  <2>4. /\ SumOver(context.pending, Q) \in Nat /\ SumOver(context.pending, R) \in Nat
        /\ SumOver(context.pending, Q) <= SumOver(context.pending, R)
    BY Zenon, <1>7, <2>3, SumGrows
  <2>5. context.precommit[b] <= context.precommit[a]
    <3>1. CASE b \notin nodes
      <4>1. context.precommit[b] = 0
        BY Zenon, <1>3, <3>1 DEF PathInv
      <4> QED
        BY <1>7, <4>1
    <3>2. CASE b \in nodes
      <4>1. a \in Ancestors[b] /\ \A z \in Hashes(a, b) : z # a => z \in tree.linked
        BY Zenon, <1>10 DEF IsDescendant
      <4>2. \A z \in Hashes(a, b) : z # a /\ z \in nodes => z \in linked
        BY Zenon, <1>4, <4>1
      <4>3. Hashes(a, b) \subseteq nodes
        BY Zenon, <1>7, <3>2, <4>1, <4>2, PathInTree
      <4>4. IsDescendant(context, a, b)
        BY Zenon, <1>3, <3>2, <4>1, <4>2, <4>3 DEF IsDescendant
      <4> QED
        BY Zenon, <4>4 DEF PathInv
    <3> QED
      BY Zenon, <3>1, <3>2
  <2>6. context'.precommit[b] = context.precommit[b] + SumOver(context.pending, Q)
    BY Zenon, <1>6, <2>2
  <2>7. context'.precommit[a] = context.precommit[a] + SumOver(context.pending, R)
    BY Zenon, <1>6, <2>2
  <2>8. context.precommit[a] \in Nat /\ context.precommit[b] \in Nat
    BY Zenon, <1>7
  <2> QED
    BY <2>4, <2>5, <2>6, <2>7, <2>8
<1>11. GainsLess
  <2>1. SumOver(context.pending, branch) \in Nat
    BY Zenon, <1>2 DEF PrevoteEffect
  <2>2. ASSUME NEW b \in Blocks
        PROVE  context'.precommit[b] + context.cumulativePrecommitWeight <= context.precommit[b] + context'.cumulativePrecommitWeight
    <3>1. PICK Q : Q = resolved[b]
      BY Zenon
    <3>2. branch \in SUBSET Blocks /\ Q \in SUBSET branch
      BY Zenon, <1>4, <1>5, <3>1
    <3>3. SumOver(context.pending, Q) \in Nat /\ SumOver(context.pending, Q) <= SumOver(context.pending, branch)
      BY Zenon, <1>4, <1>7, <3>2, SumGrows
    <3>4. context'.precommit[b] = context.precommit[b] + SumOver(context.pending, Q) /\ context.precommit[b] \in Nat
      BY Zenon, <1>6, <1>7, <3>1
    <3> QED
      BY <1>6, <1>7, <2>1, <3>3, <3>4
  <2>3. context.cumulativePrecommitWeight <= context'.cumulativePrecommitWeight
    BY <1>6, <1>7, <2>1
  <2> QED
    BY Zenon, <2>2, <2>3 DEF GainsLess
<1> QED
  BY Zenon, <1>3, <1>8, <1>9, <1>10, <1>11 DEF PathInv, IsDescendant, Links

\* acceptPrecommit keeps the paths of the tree, and gives no candidate more than the weight of the precommit.
LEMMA PrecommitKeepsPaths ==
    ASSUME RoundInv, PathInv, NEW m \in Votes, m.stage = "Precommit",
           context' = AcceptPrecommit(context, m.last, Weight[m.voter])
    PROVE  PathInv' /\ GainsLess
<1>1. m.last \in Blocks /\ Weight[m.voter] \in Nat
  BY Zenon, WeightOfIs DEF Votes, RoundMessages
<1>2. /\ context.precommit \in [Blocks -> Nat] /\ context.cumulativePrecommitWeight \in Nat /\ context.nodes \subseteq Blocks
      /\ context \in ContextRecords
  BY Zenon DEF RoundInv, ContextRecords
<1>3. CASE m.last \notin context.nodes
  <2>1. /\ context'.nodes = context.nodes /\ context'.linked = context.linked /\ context'.precommit = context.precommit
        /\ context'.cumulativePrecommitWeight = context.cumulativePrecommitWeight
    BY Zenon, <1>2, <1>3 DEF AcceptPrecommit, ContextRecords
  <2>2. GainsLess
    BY <1>2, <2>1 DEF GainsLess
  <2> QED
    BY Zenon, <2>1, <2>2 DEF PathInv, IsDescendant, Links
<1>4. CASE m.last \in context.nodes
  <2>1. PICK pc : pc = [b \in Blocks |-> IF IsDescendant(context, b, m.last)
                                         THEN context.precommit[b] + Weight[m.voter] ELSE context.precommit[b]]
    BY Zenon
  <2>2. context' = [context EXCEPT !.precommit = pc, !.cumulativePrecommitWeight = @ + Weight[m.voter]]
    BY Zenon, <1>4, <2>1 DEF AcceptPrecommit
  <2>3. /\ context'.nodes = context.nodes /\ context'.linked = context.linked /\ context'.precommit = pc
        /\ context'.cumulativePrecommitWeight = context.cumulativePrecommitWeight + Weight[m.voter]
    BY Zenon, <1>2, <2>2 DEF ContextRecords
  <2>4. \A b \in Blocks : pc[b] = IF IsDescendant(context, b, m.last)
                                  THEN context.precommit[b] + Weight[m.voter] ELSE context.precommit[b]
    BY Zenon, <2>1
  <2>5. GainsLess
    BY <1>1, <1>2, <2>3, <2>4 DEF GainsLess
  <2>6. ASSUME NEW b \in Blocks, b \notin context.nodes PROVE pc[b] = 0
    <3>1. ~IsDescendant(context, b, m.last)
      BY Zenon, <2>6, AncestorInTree DEF PathInv
    <3> QED
      BY Zenon, <2>4, <2>6, <3>1 DEF PathInv
  <2>7. ASSUME NEW a \in Blocks, NEW b \in Blocks, IsDescendant(context, a, b) PROVE pc[b] <= pc[a]
    <3>1. IsDescendant(context, b, m.last) => IsDescendant(context, a, m.last)
      BY Zenon, <1>2, <2>7, DescendsOn
    <3>2. context.precommit[b] <= context.precommit[a]
      BY Zenon, <2>7 DEF PathInv
    <3>3. context.precommit[b] \in Nat /\ context.precommit[a] \in Nat
      BY Zenon, <1>2
    <3> QED
      BY <1>1, <2>4, <3>1, <3>2, <3>3
  <2> QED
    BY Zenon, <2>3, <2>5, <2>6, <2>7 DEF PathInv, IsDescendant, Links
<1> QED
  BY Zenon, <1>3, <1>4

\* What the invariants tell of a context.
Sound(c) ==
    /\ c \in ContextRecords /\ IsFiniteSet(c.nodes)
    /\ c.cumulativePrecommitWeight <= TotalWeight
    /\ \A b \in Blocks : b \notin c.nodes => c.precommit[b] = 0
    /\ \A a, b \in Blocks : IsDescendant(c, a, b) => c.precommit[b] <= c.precommit[a]
    /\ \A a, b \in Blocks : c.prevote[a] >= CalculateWeightedThreshold /\ c.prevote[b] >= CalculateWeightedThreshold
                                => a \in Ancestors[b] \/ b \in Ancestors[a]

\* What a step keeps of a context c in the next one, d.
Follows(c, d) ==
    /\ c.nodes \subseteq d.nodes
    /\ \A b \in Blocks : c.prevote[b] <= d.prevote[b]
    /\ c.cumulativePrecommitWeight <= d.cumulativePrecommitWeight
    /\ \A b \in Blocks : d.precommit[b] + c.cumulativePrecommitWeight <= c.precommit[b] + d.cumulativePrecommitWeight

\* tryFindLastMatch finds the last of the candidates that match, if one does.
LEMMA LastMatchIs ==
    ASSUME NEW c, c \in ContextRecords, IsFiniteSet(c.nodes), NEW S, S \subseteq c.nodes, LastMatch(S) # None \/ S # {}
    PROVE  LastMatch(S) \in S /\ LastMatch(S) \in Blocks /\ LastMatch(S) # None /\ \A b \in S : b <= LastMatch(S)
<1>1. c.nodes \subseteq Blocks
  BY Zenon DEF ContextRecords
<1>2. IsFiniteSet(S)
  BY Zenon, FS_Subset
<1>3. S \in SUBSET Nat
  BY Zenon, <1>1, AncestorsAre
<1>4. S # {}
  BY Zenon DEF LastMatch
<1>5. Max(S) \in S /\ \A b \in S : b <= Max(S)
  BY Zenon, <1>2, <1>3, <1>4, FiniteMax
<1>6. LastMatch(S) = Max(S)
  BY Zenon, <1>4 DEF LastMatch
<1>7. Max(S) \in Blocks
  BY Zenon, <1>1, <1>5
<1>8. None \notin Blocks
  BY Zenon, BlocksAssumption
<1> QED
  BY Zenon, <1>5, <1>6, <1>7, <1>8

\* The weight that is still missing only shrinks, so a candidate that cannot get a quorum of precommits never can.
LEMMA ReachShrinks ==
    ASSUME NEW c, NEW d, Sound(c), Sound(d), Follows(c, d)
    PROVE  /\ \A b \in Blocks : CanReachPrecommitThreshold(d, d.precommit[b]) => CanReachPrecommitThreshold(c, c.precommit[b])
           /\ CanReachPrecommitThreshold(d, 0) => CanReachPrecommitThreshold(c, 0)
           /\ \A b \in Blocks : c.precommit[b] \in Nat /\ d.precommit[b] \in Nat
           /\ \A p, q \in Nat : p <= q /\ CanReachPrecommitThreshold(c, p) => CanReachPrecommitThreshold(c, q)
           /\ \A p \in Nat : p >= CalculateWeightedThreshold => CanReachPrecommitThreshold(d, p)
<1>1. /\ c.precommit \in [Blocks -> Nat] /\ d.precommit \in [Blocks -> Nat]
      /\ c.cumulativePrecommitWeight \in Nat /\ d.cumulativePrecommitWeight \in Nat
  BY Zenon DEF Sound, ContextRecords
<1>2. PICK t, w, u, v : /\ t = CalculateWeightedThreshold /\ w = TotalWeight
                        /\ u = c.cumulativePrecommitWeight /\ v = d.cumulativePrecommitWeight
  BY Zenon
<1>3. t \in Nat /\ w \in Nat /\ u \in Nat /\ v \in Nat /\ u <= v /\ v <= w
  BY Zenon, <1>1, <1>2, ThresholdIs DEF Sound, Follows
<1>4. \A p : (CanReachPrecommitThreshold(c, p) <=> p + (w - u) >= t) /\ (CanReachPrecommitThreshold(d, p) <=> p + (w - v) >= t)
  BY Zenon, <1>2 DEF CanReachPrecommitThreshold
<1>5. ASSUME NEW b \in Blocks, CanReachPrecommitThreshold(d, d.precommit[b]) PROVE CanReachPrecommitThreshold(c, c.precommit[b])
  <2>1. PICK p, q : p = c.precommit[b] /\ q = d.precommit[b]
    BY Zenon
  <2>2. p \in Nat /\ q \in Nat
    BY Zenon, <1>1, <2>1
  <2>3. q + u <= p + v
    BY Zenon, <1>2, <2>1 DEF Follows
  <2>4. q + (w - v) >= t
    BY Zenon, <1>4, <1>5, <2>1
  <2>5. p + (w - u) >= t
    BY <1>3, <2>2, <2>3, <2>4
  <2> QED
    BY Zenon, <1>4, <2>1, <2>5
<1>6. CanReachPrecommitThreshold(d, 0) => CanReachPrecommitThreshold(c, 0)
  BY <1>3, <1>4
<1>7. \A p, q \in Nat : p <= q /\ CanReachPrecommitThreshold(c, p) => CanReachPrecommitThreshold(c, q)
  BY <1>3, <1>4
<1>8. \A p \in Nat : p >= CalculateWeightedThreshold => CanReachPrecommitThreshold(d, p)
  BY <1>2, <1>3, <1>4
<1>9. \A b \in Blocks : c.precommit[b] \in Nat /\ d.precommit[b] \in Nat
  BY Zenon, <1>1
<1> QED
  BY Zenon, <1>5, <1>6, <1>7, <1>8, <1>9

\* A round that may be left in a whole tree stays one, whatever comes next, and its estimate bounds what it finalizes.
LEMMA CompletedIsBounded ==
    ASSUME NEW c, NEW d, Sound(c), Sound(d), Follows(c, d), IsCompletable(c), IsWhole(c)
    PROVE  /\ IsCompletable(d)
           /\ TryFindEstimate(d) # None => TryFindEstimate(c) # None /\ TryFindEstimate(d) \in Ancestors[TryFindEstimate(c)]
           /\ TryFindBestPrecommit(d) # None
                => TryFindEstimate(c) # None /\ TryFindBestPrecommit(d) \in Ancestors[TryFindEstimate(c)]
<1>1. PICK best, next, est : best = TryFindBestPrevote(c) /\ next = TryFindBestPrevote(d) /\ est = TryFindEstimate(c)
  BY Zenon
<1>2. PICK P, Q : /\ P = {b \in c.nodes : c.prevote[b] >= CalculateWeightedThreshold}
                  /\ Q = {b \in d.nodes : d.prevote[b] >= CalculateWeightedThreshold}
  BY Zenon
<1>3. best = LastMatch(P) /\ next = LastMatch(Q)
  BY Zenon, <1>1, <1>2 DEF TryFindBestPrevote
<1>4. /\ c \in ContextRecords /\ d \in ContextRecords /\ IsFiniteSet(c.nodes) /\ IsFiniteSet(d.nodes)
      /\ c.nodes \subseteq Blocks /\ d.nodes \subseteq Blocks /\ c.nodes \subseteq d.nodes
  BY Zenon DEF Sound, ContextRecords, Follows
<1>5. best # None
  BY Zenon, <1>1 DEF IsCompletable
<1>6. best \in P /\ best \in Blocks /\ best \in c.nodes
  BY Zenon, <1>2, <1>3, <1>4, <1>5, LastMatchIs
<1>7. best \in Q
  <2>1. c.prevote[best] \in Nat /\ d.prevote[best] \in Nat
    BY Zenon, <1>4, <1>6 DEF ContextRecords
  <2>2. c.prevote[best] <= d.prevote[best] /\ c.prevote[best] >= CalculateWeightedThreshold
    BY Zenon, <1>2, <1>6 DEF Follows
  <2>3. d.prevote[best] >= CalculateWeightedThreshold
    BY <2>1, <2>2, ThresholdIs
  <2> QED
    BY Zenon, <1>2, <1>4, <1>6, <2>3
<1>8. next \in Q /\ next \in Blocks /\ next # None /\ next \in d.nodes /\ \A b \in Q : b <= next
  BY Zenon, <1>2, <1>3, <1>4, <1>7, LastMatchIs
<1>9. ASSUME NEW b \in Q PROVE b \in Blocks /\ b \in Ancestors[next]
  <2>1. b \in Blocks /\ b <= next
    BY Zenon, <1>2, <1>4, <1>8, <1>9
  <2>2. b \in Ancestors[next] \/ next \in Ancestors[b]
    BY Zenon, <1>2, <1>8, <1>9, <2>1 DEF Sound
  <2> QED
    BY Zenon, <1>8, <2>1, <2>2, AncestorsAre
<1>10. PICK E : E = {b \in c.nodes : IsDescendant(c, b, best) /\ CanReachPrecommitThreshold(c, c.precommit[b])}
  BY Zenon
<1>11. est = LastMatch(E)
  BY Zenon, <1>1, <1>5, <1>10 DEF TryFindEstimate
<1>12. E \subseteq c.nodes
  BY Zenon, <1>10
<1>13. best \in Ancestors[best] /\ IsDescendant(c, best, best)
  BY Zenon, <1>6, AncestorsAre DEF IsWhole
\* Nothing above the best prevote can get a quorum of precommits, known or new.
<1>14. /\ ~CanReachPrecommitThreshold(c, 0)
       /\ \A b \in c.nodes : best \in Ancestors[b] /\ b # best => ~CanReachPrecommitThreshold(c, c.precommit[b])
  <2>1. \A b \in c.nodes : best \in Ancestors[b] => IsDescendant(c, best, b)
    BY Zenon, <1>6 DEF IsWhole
  <2>2. CASE est \notin {None, best}
    <3>1. est \in E /\ \A b \in E : b <= est
      BY Zenon, <1>4, <1>11, <1>12, <2>2, LastMatchIs
    <3>2. est \in Ancestors[best]
      BY Zenon, <1>10, <3>1 DEF IsDescendant
    <3>3. best \notin E
      <4>1. best \in Blocks /\ est \in Nat /\ best \in Nat /\ est <= best
        BY Zenon, <1>4, <1>6, <1>12, <3>1, <3>2, AncestorsAre
      <4>2. best \in E => best <= est
        BY Zenon, <3>1
      <4> QED
        BY <2>2, <4>1, <4>2
    <3>4. ~CanReachPrecommitThreshold(c, c.precommit[best])
      BY Zenon, <1>6, <1>10, <1>13, <3>3
    <3>5. c.precommit[best] \in Nat /\ 0 <= c.precommit[best] /\ 0 \in Nat
      BY <1>4, <1>6 DEF ContextRecords
    <3>6. ~CanReachPrecommitThreshold(c, 0)
      BY Zenon, <3>4, <3>5, ReachShrinks
    <3>7. ASSUME NEW b \in c.nodes, best \in Ancestors[b] PROVE ~CanReachPrecommitThreshold(c, c.precommit[b])
      <4>1. b \in Blocks /\ c.precommit[b] <= c.precommit[best]
        BY Zenon, <1>4, <1>6, <2>1, <3>7 DEF Sound
      <4>2. c.precommit[b] \in Nat
        BY Zenon, <4>1, ReachShrinks
      <4> QED
        BY Zenon, <3>4, <3>5, <4>1, <4>2, ReachShrinks
    <3> QED
      BY Zenon, <3>6, <3>7
  <2>3. CASE est \in {None, best}
    BY Zenon, <1>1, <2>1, <2>3 DEF IsCompletable
  <2> QED
    BY Zenon, <2>2, <2>3
\* A candidate that can get a quorum now could get it before.
<1>15. ASSUME NEW b \in d.nodes, CanReachPrecommitThreshold(d, d.precommit[b])
       PROVE  b \in Blocks /\ b \in c.nodes /\ CanReachPrecommitThreshold(c, c.precommit[b])
  <2>1. b \in Blocks
    BY Zenon, <1>4, <1>15
  <2>2. CanReachPrecommitThreshold(c, c.precommit[b])
    BY Zenon, <1>15, <2>1, ReachShrinks
  <2>3. b \notin c.nodes => c.precommit[b] = 0
    BY Zenon, <2>1 DEF Sound
  <2> QED
    BY Zenon, <1>14, <2>1, <2>2, <2>3
<1>16. ASSUME NEW b \in d.nodes, CanReachPrecommitThreshold(d, d.precommit[b]), b \in Ancestors[next]
       PROVE  est # None /\ b \in Ancestors[est]
  <2>1. b \in Blocks /\ b \in c.nodes /\ CanReachPrecommitThreshold(c, c.precommit[b])
    BY Zenon, <1>15, <1>16
  <2>2. best \in Ancestors[next]
    BY Zenon, <1>7, <1>9
  <2>3. b \in Ancestors[best] \/ best \in Ancestors[b]
    BY Zenon, <1>8, <1>16, <2>2, AncestorsAre
  <2>4. b \in Ancestors[best]
    BY Zenon, <1>13, <1>14, <2>1, <2>3
  <2>5. b \in E
    BY Zenon, <1>6, <1>10, <2>1, <2>4 DEF IsWhole
  <2>6. est \in E /\ est # None /\ est \in Blocks /\ b <= est
    BY Zenon, <1>4, <1>11, <1>12, <2>5, LastMatchIs
  <2>7. est \in Ancestors[best]
    BY Zenon, <1>10, <2>6 DEF IsDescendant
  <2> QED
    BY Zenon, <1>6, <2>4, <2>6, <2>7, AncestorsAre
<1>17. IsCompletable(d)
  <2>1. ASSUME NEW b \in d.nodes, b # next, next \in Ancestors[b] PROVE ~CanReachPrecommitThreshold(d, d.precommit[b])
    <3> SUFFICES ASSUME CanReachPrecommitThreshold(d, d.precommit[b]) PROVE FALSE
      BY Zenon
    <3>1. b \in Blocks /\ b \in c.nodes /\ CanReachPrecommitThreshold(c, c.precommit[b])
      BY Zenon, <1>15, <2>1
    <3>2. best \in Ancestors[next]
      BY Zenon, <1>7, <1>9
    <3>3. best \in Ancestors[b]
      BY Zenon, <2>1, <3>1, <3>2, AncestorsAre
    <3>4. b # best
      BY <1>6, <1>8, <2>1, <3>2, AncestorsAre
    <3> QED
      BY Zenon, <1>14, <3>1, <3>3, <3>4
  <2>2. \A b \in d.nodes \ {next} : IsDescendant(d, next, b) => ~CanReachPrecommitThreshold(d, d.precommit[b])
    BY Zenon, <2>1 DEF IsDescendant
  <2>3. ~CanReachPrecommitThreshold(d, 0)
    BY Zenon, <1>14, ReachShrinks
  <2> QED
    BY Zenon, <1>1, <1>8, <2>2, <2>3 DEF IsCompletable
<1>18. ASSUME TryFindEstimate(d) # None PROVE est # None /\ TryFindEstimate(d) \in Ancestors[est]
  <2>1. PICK F : F = {b \in d.nodes : IsDescendant(d, b, next) /\ CanReachPrecommitThreshold(d, d.precommit[b])}
    BY Zenon
  <2>2. TryFindEstimate(d) = LastMatch(F) /\ F \subseteq d.nodes
    BY Zenon, <1>1, <1>8, <2>1 DEF TryFindEstimate
  <2>3. TryFindEstimate(d) \in F
    BY Zenon, <1>4, <1>18, <2>2, LastMatchIs
  <2> QED
    BY Zenon, <1>16, <2>1, <2>3 DEF IsDescendant
<1>19. ASSUME TryFindBestPrecommit(d) # None PROVE est # None /\ TryFindBestPrecommit(d) \in Ancestors[est]
  <2>1. PICK F : F = {b \in d.nodes : /\ d.prevote[b] >= CalculateWeightedThreshold
                                      /\ d.precommit[b] >= CalculateWeightedThreshold}
    BY Zenon
  <2>2. TryFindBestPrecommit(d) = LastMatch(F) /\ F \subseteq d.nodes
    BY Zenon, <2>1 DEF TryFindBestPrecommit
  <2>3. PICK b : b = TryFindBestPrecommit(d)
    BY Zenon
  <2>4. b \in F /\ b \in Blocks
    BY Zenon, <1>4, <1>19, <2>2, <2>3, LastMatchIs
  <2>5. b \in Q
    BY Zenon, <1>2, <2>1, <2>4
  <2>6. d.precommit[b] \in Nat /\ d.precommit[b] >= CalculateWeightedThreshold
    BY Zenon, <2>1, <2>4, ReachShrinks
  <2>7. CanReachPrecommitThreshold(d, d.precommit[b])
    BY Zenon, <2>6, ReachShrinks
  <2> QED
    BY Zenon, <1>9, <1>16, <2>1, <2>3, <2>4, <2>5, <2>7
<1> QED
  BY Zenon, <1>1, <1>17, <1>18, <1>19

\* CompletedRoundIsBounded, whenever the quorum is more than half of the weight: a round that isCompletable lets the
\* voters leave, while the tree is whole, stays completable, and neither its estimate nor its best precommit moves to a
\* block that the estimate they leave with does not descend from.
THEOREM CompletedRoundsAreBounded ==
    ASSUME 2 * CalculateWeightedThreshold > TotalWeight
    PROVE  RoundSpec => CompletedRoundIsBounded
<1>1. RoundInit => PathInv
  <2> SUFFICES ASSUME RoundInit PROVE PathInv
    BY Zenon
  <2>1. context.nodes = {} /\ context.linked = {} /\ context.precommit = [b \in Blocks |-> 0]
    BY Zenon DEF RoundInit, NewRoundContext
  <2>2. Links(context.nodes, context.linked)
    BY Zenon, <2>1 DEF Links
  <2> QED
    BY Zenon, <2>1, <2>2 DEF PathInv, IsDescendant
<1>2. RoundInv /\ PathInv /\ [RoundNext]_roundVars => PathInv' /\ GainsLess
  <2> SUFFICES ASSUME RoundInv, PathInv, [RoundNext]_roundVars PROVE PathInv' /\ GainsLess
    BY Zenon
  <2>1. CASE UNCHANGED roundVars
    <3>1. context' = context
      BY Zenon, <2>1 DEF roundVars
    <3>2. PathInv'
      BY Zenon, <3>1 DEF PathInv
    <3>3. context.precommit \in [Blocks -> Nat] /\ context.cumulativePrecommitWeight \in Nat
      BY Zenon DEF RoundInv, ContextRecords
    <3>4. GainsLess
      BY <3>1, <3>3 DEF GainsLess
    <3> QED
      BY Zenon, <3>2, <3>4
  <2>2. CASE RoundNext
    <3>1. PICK m \in Votes : Add(m)
      BY Zenon, <2>2 DEF RoundNext
    <3>2. CASE IsWellFormed(m) /\ IsFirstOfVoter(messages, m)
      <4>1. context' = Accept(context, m)
        BY Zenon, <3>1, <3>2 DEF Add
      <4>2. CASE m.stage = "Prevote"
        <5>1. context' = AcceptPrevote(context, m.first, m.last, Weight[m.voter])
          BY Zenon, <4>1, <4>2 DEF Accept
        <5> QED
          BY Zenon, <4>2, <5>1, PrevoteKeepsPaths
      <4>3. CASE m.stage # "Prevote"
        <5>1. context' = AcceptPrecommit(context, m.last, Weight[m.voter])
          BY Zenon, <4>1, <4>3 DEF Accept
        <5>2. m.stage = "Precommit"
          BY Zenon, <4>3 DEF Votes, RoundMessages, Stages
        <5> QED
          BY Zenon, <5>1, <5>2, PrecommitKeepsPaths
      <4> QED
        BY Zenon, <4>2, <4>3
    <3>3. CASE ~(IsWellFormed(m) /\ IsFirstOfVoter(messages, m))
      <4>1. UNCHANGED roundVars
        BY Zenon, <3>1, <3>3 DEF Add
      <4> QED
        BY Zenon, <2>1, <4>1
    <3> QED
      BY Zenon, <3>2, <3>3
  <2> QED
    BY Zenon, <2>1, <2>2
<1>3. RoundInv /\ PathInv => Sound(context)
  <2> SUFFICES ASSUME RoundInv, PathInv PROVE Sound(context)
    BY Zenon
  <2>1. context.cumulativePrecommitWeight <= TotalWeight
    <3>1. PICK ms : ms = Committing(context.nodes)
      BY Zenon
    <3>2. {m.voter : m \in ms} \in SUBSET Voters /\ Voters \in SUBSET Voters
      BY Zenon, <3>1 DEF Committing, RoundInv, MessagesInv, Votes, RoundMessages
    <3>3. WeightOf(ms) <= TotalWeight
      BY Zenon, <3>2, WeightIs DEF WeightOf, TotalWeight
    <3> QED
      BY Zenon, <3>1, <3>3 DEF RoundInv, WeightsInv
  <2>2. \A a, b \in Blocks :
            context.prevote[a] >= CalculateWeightedThreshold /\ context.prevote[b] >= CalculateWeightedThreshold
                => a \in Ancestors[b] \/ b \in Ancestors[a]
    BY Zenon, PrevotedOnOneChain
  <2> QED
    BY Zenon, <2>1, <2>2 DEF Sound, RoundInv, TreeInv, PathInv
<1>4. RoundInv' /\ PathInv' => Sound(context)'
  BY <1>3, PTL
<1>5. RoundInv /\ PathInv /\ [RoundNext]_roundVars
        => [LET old == TryFindEstimate(context)
                new == TryFindEstimate(context')
                final == TryFindBestPrecommit(context')
            IN  IsCompletable(context) /\ IsWhole(context) =>
                  /\ IsCompletable(context')
                  /\ new /= None => old /= None /\ new \in Ancestors[old]
                  /\ final /= None => old /= None /\ final \in Ancestors[old]]_roundVars
  <2> SUFFICES ASSUME RoundInv, PathInv, [RoundNext]_roundVars, IsCompletable(context), IsWhole(context)
               PROVE  /\ IsCompletable(context')
                      /\ TryFindEstimate(context') # None
                            => /\ TryFindEstimate(context) # None
                               /\ TryFindEstimate(context') \in Ancestors[TryFindEstimate(context)]
                      /\ TryFindBestPrecommit(context') # None
                            => /\ TryFindEstimate(context) # None
                               /\ TryFindBestPrecommit(context') \in Ancestors[TryFindEstimate(context)]
    BY Zenon
  <2>1. RoundInv' /\ Grows /\ PathInv' /\ GainsLess
    BY Zenon, <1>2, StepKeeps
  <2>2. PICK c, d : c = context /\ d = context'
    BY Zenon
  <2>3. Sound(c)
    BY Zenon, <1>3, <2>2
  <2>4. Sound(d)
    BY Zenon, <1>4, <2>1, <2>2 DEF Sound, ContextRecords
  <2>5. Follows(c, d)
    BY Zenon, <2>1, <2>2 DEF Follows, Grows, GainsLess
  <2>6. IsCompletable(c) /\ IsWhole(c)
    BY Zenon, <2>2
  <2> QED
    BY Zenon, <2>2, <2>3, <2>4, <2>5, <2>6, CompletedIsBounded
<1> QED
  BY <1>1, <1>2, <1>5, RoundInvariant, PTL DEF RoundSpec, CompletedRoundIsBounded

-----------------------------------------------------------------------------
(* What the nodes finalize in one round                                    *)

\* The voters that may vote twice in a round: they may stop between sending a vote and saving the voting status.
Faulty == IF MaxLostSaves = 0 THEN {} ELSE Crashing

\* Two quorums have more in common than the faulty voters, and a prevote that is too long can be cut to a multiple.
SafeConfiguration ==
    /\ 2 * CalculateWeightedThreshold > TotalWeight + WeightOfVoters(Faulty)
    /\ PrevoteBlocksMultiple <= MaxHashesPerPoint

\* Two quorums have a voter in common that votes only once.
LEMMA QuorumsMeet ==
    ASSUME SafeConfiguration, NEW q \in SUBSET Voters, NEW r \in SUBSET Voters,
           WeightOfVoters(q) >= CalculateWeightedThreshold, WeightOfVoters(r) >= CalculateWeightedThreshold
    PROVE  \E v \in q \cap r : v \notin Faulty
<1> SUFFICES ASSUME q \cap r \subseteq Faulty PROVE FALSE
  BY Zenon
<1>1. Faulty \in SUBSET Voters
  BY Zenon, ConfigurationAssumption DEF Faulty
<1>2. /\ q \cup r \in SUBSET Voters /\ r \ q \in SUBSET Voters /\ q \cap r \in SUBSET Voters /\ Voters \in SUBSET Voters
      /\ q \cap (r \ q) = {} /\ q \cup (r \ q) = q \cup r
      /\ (r \ q) \cap (q \cap r) = {} /\ (r \ q) \cup (q \cap r) = r
  BY Zenon
<1>3. PICK a, b, c, d, e, f, t : /\ a = WeightOfVoters(q) /\ b = WeightOfVoters(r) /\ c = WeightOfVoters(r \ q)
                                 /\ d = WeightOfVoters(q \cap r) /\ e = WeightOfVoters(q \cup r)
                                 /\ f = WeightOfVoters(Faulty) /\ t = CalculateWeightedThreshold
  BY Zenon
<1>4. a \in Nat /\ b \in Nat /\ c \in Nat /\ d \in Nat /\ e \in Nat /\ f \in Nat /\ t \in Nat /\ TotalWeight \in Nat
  BY Zenon, <1>1, <1>2, <1>3, WeightIs, ThresholdIs
<1>5. e = a + c
  BY Zenon, <1>2, <1>3, WeightIs
<1>6. b = c + d
  BY Zenon, <1>2, <1>3, WeightIs
<1>7. e <= TotalWeight /\ d <= f
  BY Zenon, <1>1, <1>2, <1>3, WeightIs DEF TotalWeight
<1>8. 2 * t > TotalWeight + f /\ a >= t /\ b >= t
  BY Zenon, <1>3 DEF SafeConfiguration
<1> QED
  BY <1>4, <1>5, <1>6, <1>7, <1>8

\* The first block is an ancestor of all.
LEMMA RootIs == Root \in Blocks /\ \A b \in Blocks : Root \in Ancestors[b]
<1>1. PICK r \in Blocks : \A b \in Blocks : r \in Ancestors[b]
  BY Zenon, BlocksAssumption
<1>2. Ancestors[r] = {r}
  <2>1. ASSUME NEW a \in Ancestors[r] PROVE a = r
    <3>1. a \in Blocks /\ a <= r
      BY Zenon, <2>1, AncestorsAre
    <3>2. r <= a
      BY Zenon, <1>1, <3>1, AncestorsAre
    <3> QED
      BY <1>1, <3>1, <3>2, AncestorsAre
  <2>2. r \in Ancestors[r]
    BY Zenon, <1>1
  <2> QED
    BY Zenon, <2>1, <2>2
<1>3. Root \in Blocks /\ Ancestors[Root] = {Root}
  BY Zenon, <1>1, <1>2 DEF Root
<1>4. Root = r
  BY Zenon, <1>1, <1>3
<1> QED
  BY Zenon, <1>1, <1>4

\* The ancestors of a block have all heights up to its own.
LEMMA HeightsAre ==
    ASSUME NEW b \in Blocks
    PROVE  /\ Height(b) \in Nat /\ Height(b) >= 1
           /\ \A h \in 1 .. Height(b) : \E a \in Ancestors[b] : Height(a) = h
<1>1. \A a \in Blocks : IsFiniteSet(Ancestors[a]) /\ Ancestors[a] \in SUBSET Nat /\ a \in Ancestors[a]
  <2> SUFFICES ASSUME NEW a \in Blocks PROVE IsFiniteSet(Ancestors[a]) /\ Ancestors[a] \in SUBSET Nat /\ a \in Ancestors[a]
    BY Zenon
  <2>1. Ancestors[a] \in SUBSET Nat /\ a \in Nat /\ \A x \in Ancestors[a] : x <= a
    BY Zenon, AncestorsAre
  <2> QED
    BY Zenon, <2>1, AncestorsAre, FS_BoundedSetOfNaturals
<1>2. \A a \in Blocks : Height(a) \in Nat /\ Height(a) # 0
  BY Zenon, <1>1, FS_CardinalityType, FS_EmptySet DEF Height
<1>3. ASSUME NEW h \in 1 .. Height(b) PROVE \E a \in Ancestors[b] : Height(a) = h
  <2>1. h \in Nat /\ h >= 1 /\ h <= Height(b)
    BY <1>2, <1>3
  <2>2. PICK S : S = {a \in Ancestors[b] : Height(a) >= h}
    BY Zenon
  <2>3. S \in SUBSET Nat /\ b \in S
    BY Zenon, <1>1, <1>2, <2>1, <2>2
  <2>4. PICK a \in S : \A x \in S : a <= x
    BY Zenon, <2>3, LeastBlock
  <2>5. a \in Ancestors[b] /\ a \in Blocks /\ Height(a) >= h
    BY Zenon, <2>2, <2>4, AncestorsAre
  <2>6. CASE Height(a) = h
    BY Zenon, <2>5, <2>6
  <2>7. CASE Height(a) # h
    <3>1. PICK A : A = Ancestors[a] \ {a}
      BY Zenon
    <3>2. IsFiniteSet(A) /\ Cardinality(A) = Cardinality(Ancestors[a]) - 1 /\ A \in SUBSET Nat
      BY Zenon, <1>1, <2>5, <3>1, FS_RemoveElement
    <3>3. Cardinality(A) = Height(a) - 1
      BY Zenon, <3>2 DEF Height
    <3>4. Height(a) \in Nat
      BY Zenon, <1>2, <2>5
    <3>5. Height(a) - 1 >= h /\ Height(a) - 1 # 0
      BY <2>1, <2>5, <2>7, <3>4
    <3>6. A # {}
      BY Zenon, <3>3, <3>5, FS_EmptySet
    <3>7. PICK p \in A : \A y \in A : y <= p
      BY Zenon, <3>2, <3>6, FiniteMax
    <3>8. p \in Ancestors[a] /\ p # a /\ p \in Blocks /\ p \in Ancestors[b]
      BY Zenon, <2>5, <3>1, <3>7, AncestorsAre
    <3>9. Ancestors[p] = A
      <4>1. ASSUME NEW x \in Ancestors[p] PROVE x \in A
        <5>1. x \in Ancestors[a] /\ x <= p /\ p <= a
          BY Zenon, <2>5, <3>8, <4>1, AncestorsAre
        <5>2. x \in Nat /\ p \in Nat /\ a \in Nat
          BY Zenon, <1>1, <2>5, <3>8, <5>1
        <5>3. x # a
          BY <3>8, <5>1, <5>2
        <5> QED
          BY Zenon, <3>1, <5>1, <5>3
      <4>2. ASSUME NEW x \in A PROVE x \in Ancestors[p]
        BY Zenon, <2>5, <3>1, <3>7, <3>8, <4>2, AncestorsAre
      <4> QED
        BY Zenon, <4>1, <4>2
    <3>10. Height(p) >= h
      BY Zenon, <3>3, <3>5, <3>9 DEF Height
    <3>11. p \in S
      BY Zenon, <2>2, <3>8, <3>10
    <3>12. a <= p /\ p <= a
      BY Zenon, <2>4, <2>5, <3>8, <3>11, AncestorsAre
    <3>13. a \in Nat /\ p \in Nat
      BY Zenon, <2>3, <2>4, <3>11
    <3> QED
      BY <3>8, <3>12, <3>13
  <2> QED
    BY Zenon, <2>6, <2>7
<1>4. Height(b) \in Nat /\ Height(b) >= 1
  BY <1>2
<1> QED
  BY Zenon, <1>3, <1>4

\* Clamp gives a multiple that is not above, or not below, and less than a multiple away.
LEMMA ClampIs ==
    ASSUME NEW x \in Nat
    PROVE  /\ ClampDown(x) \in Nat /\ ClampDown(x) <= x
           /\ ClampUp(x) \in Nat /\ ClampUp(x) <= x + PrevoteBlocksMultiple - 1
<1>1. PrevoteBlocksMultiple \in Nat \ {0}
  BY Zenon, ConfigurationAssumption
<1>2. PICK m \in Nat \ {0} : m = PrevoteBlocksMultiple
  BY Zenon, <1>1
<1>3. \A y \in Nat : (y \div m) * m \in Nat /\ (y \div m) * m <= y
  OBVIOUS
<1>4. x + m - 1 \in Nat
  OBVIOUS
<1> QED
  BY Zenon, <1>2, <1>3, <1>4 DEF ClampDown, ClampUp

\* A quorum has precommitted the block or descendants of it in the round.
CommittedBy(ms, point, b) ==
    \E q \in SUBSET Voters :
        /\ WeightOfVoters(q) >= CalculateWeightedThreshold
        /\ \A v \in q : \E m \in ms : /\ m.voter = v /\ m.stage = "Precommit" /\ m.point = point
                                      /\ b \in Ancestors[m.last]

\* A voter that is not faulty precommits once in a round, and none that it has not reached.
VotesInv ==
    /\ votes \subseteq Messages /\ IsFiniteSet(votes) /\ lostSaves \in Nat
    /\ status \in [Voters -> VotingStatuses]
    /\ \A m \in votes : m.stage = "Precommit" /\ m.voter \notin Faulty
            => /\ m.point <= status[m.voter].point
               /\ m.point = status[m.voter].point => status[m.voter].hasSentPrecommit
    /\ \A m, o \in votes : /\ m.stage = "Precommit" /\ o.stage = "Precommit" /\ m.point = o.point
                           /\ m.voter = o.voter /\ m.voter \notin Faulty
            => m = o

\* What a node has finalized, but for the first block, has a quorum of precommits in the round of the proof.
ProofsInv ==
    /\ proof \in [Voters -> Proofs]
    /\ \A n \in Voters : \/ proof[n].point = 0 /\ proof[n].block = Root
                         \/ proof[n].point \in Points /\ CommittedBy(votes, proof[n].point, proof[n].block)

\* Two blocks that quorums of one round have precommitted are on one chain, as a voter that votes once is in both.
LEMMA CommittedOnOneChain ==
    ASSUME SafeConfiguration, VotesInv, NEW point, NEW a, NEW b, CommittedBy(votes, point, a), CommittedBy(votes, point, b)
    PROVE  a \in Ancestors[b] \/ b \in Ancestors[a]
<1>1. PICK q \in SUBSET Voters :
            /\ WeightOfVoters(q) >= CalculateWeightedThreshold
            /\ \A v \in q : \E m \in votes : /\ m.voter = v /\ m.stage = "Precommit" /\ m.point = point
                                             /\ a \in Ancestors[m.last]
  BY Zenon DEF CommittedBy
<1>2. PICK r \in SUBSET Voters :
            /\ WeightOfVoters(r) >= CalculateWeightedThreshold
            /\ \A v \in r : \E m \in votes : /\ m.voter = v /\ m.stage = "Precommit" /\ m.point = point
                                             /\ b \in Ancestors[m.last]
  BY Zenon DEF CommittedBy
<1>3. PICK v \in q \cap r : v \notin Faulty
  BY Zenon, <1>1, <1>2, QuorumsMeet
<1>4. PICK m \in votes : m.voter = v /\ m.stage = "Precommit" /\ m.point = point /\ a \in Ancestors[m.last]
  BY Zenon, <1>1, <1>3
<1>5. PICK o \in votes : o.voter = v /\ o.stage = "Precommit" /\ o.point = point /\ b \in Ancestors[o.last]
  BY Zenon, <1>2, <1>3
<1>6. m = o
  BY Zenon, <1>3, <1>4, <1>5 DEF VotesInv
<1>7. m.last \in Blocks
  BY Zenon DEF VotesInv, Messages
<1> QED
  BY Zenon, <1>4, <1>5, <1>6, <1>7, AncestorsAre

\* What the aggregator may hold of a stage of a round are messages that were sent.
LEMMA QuorumsHold ==
    ASSUME NEW point, NEW stage, NEW held \in Quorums(point, stage)
    PROVE  held \subseteq votes /\ \A m \in held : m.point = point /\ m.stage = stage
<1>1. held \in Held(VotesOf(point, stage))
  BY Zenon DEF Quorums
<1>2. held \subseteq VotesOf(point, stage)
  BY Zenon, <1>1 DEF Held
<1> QED
  BY Zenon, <1>2 DEF VotesOf

\* What the finalizer may find to be the best precommit of a round has a quorum of precommits.
LEMMA BestIsCommitted ==
    ASSUME VotesInv, NEW point, NEW best \in BestPrecommits(point)
    PROVE  best \in Blocks /\ CommittedBy(votes, point, best)
<1>1. PICK prevotes, precommits, linked :
            /\ prevotes \in Quorums(point, "Prevote") /\ precommits \in Quorums(point, "Precommit")
            /\ best = TryFindBestPrecommit(RoundContextOf(prevotes, precommits, linked)) /\ best # None
  <2>1. PICK c \in ContextsWith(point, Quorums(point, "Precommit")) : best = TryFindBestPrecommit(c) /\ best # None
    BY Zenon DEF BestPrecommits
  <2>2. PICK prevotes \in Quorums(point, "Prevote") :
            c \in {RoundContextOf(prevotes, precommits, linked) :
                        precommits \in Quorums(point, "Precommit"), linked \in LinkedSets(prevotes)}
    BY <2>1 DEF ContextsWith
  <2>3. PICK precommits \in Quorums(point, "Precommit"), linked \in LinkedSets(prevotes) :
            c = RoundContextOf(prevotes, precommits, linked)
    BY <2>2
  <2> QED
    BY Zenon, <2>1, <2>3
<1>2. prevotes \subseteq votes /\ precommits \subseteq votes
      /\ \A m \in precommits : m.point = point /\ m.stage = "Precommit"
  BY Zenon, <1>1, QuorumsHold
<1>3. PICK nodes : nodes = UNION {Hashes(m.first, m.last) : m \in prevotes}
  BY Zenon
<1>4. nodes \subseteq Blocks /\ IsFiniteSet(nodes)
  <2>1. PICK branches : branches = {Hashes(m.first, m.last) : m \in prevotes}
    BY Zenon
  <2>2. IsFiniteSet(prevotes)
    BY Zenon, <1>2, FS_Subset DEF VotesInv
  <2>3. IsFiniteSet(branches)
    <3>1. PICK f : f = [m \in prevotes |-> Hashes(m.first, m.last)]
      BY Zenon
    <3>2. f \in Surjection(prevotes, branches)
      BY Zenon, <2>1, <3>1 DEF Surjection
    <3> QED
      BY Zenon, <2>2, <3>2, FS_Surjection
  <2>4. \A m \in prevotes : m.last \in Blocks
    BY Zenon, <1>2 DEF VotesInv, Messages
  <2>5. \A branch \in branches : branch \subseteq Blocks /\ IsFiniteSet(branch)
    BY Zenon, <2>1, <2>4, HashesAre
  <2>6. IsFiniteSet(UNION branches)
    BY Zenon, <2>3, <2>5, FS_UNION
  <2> QED
    BY Zenon, <1>3, <2>1, <2>5, <2>6
<1>5. PICK known, tree : known = {m \in precommits : m.last \in nodes} /\ tree = [nodes |-> nodes, linked |-> linked]
  BY Zenon
<1>6. PICK c : c = RoundContextOf(prevotes, precommits, linked)
  BY Zenon
<1>7. c.nodes = nodes /\ c.precommit = [b \in nodes |-> WeightOf({m \in known : IsDescendant(tree, b, m.last)})]
  BY Zenon, <1>3, <1>5, <1>6 DEF RoundContextOf
<1>8. PICK S : S = {b \in c.nodes : /\ c.prevote[b] >= CalculateWeightedThreshold
                                    /\ c.precommit[b] >= CalculateWeightedThreshold}
  BY Zenon
<1>9. best = LastMatch(S) /\ S \subseteq nodes
  BY Zenon, <1>1, <1>6, <1>7, <1>8 DEF TryFindBestPrecommit
<1>10. best \in S
  <2>1. S # {}
    BY Zenon, <1>1, <1>9 DEF LastMatch
  <2>2. IsFiniteSet(S)
    BY Zenon, <1>4, <1>9, FS_Subset
  <2>3. S \in SUBSET Nat
    BY Zenon, <1>4, <1>9, AncestorsAre
  <2>4. Max(S) \in S
    BY Zenon, <2>1, <2>2, <2>3, FiniteMax
  <2> QED
    BY Zenon, <1>9, <2>1, <2>4 DEF LastMatch
<1>11. best \in nodes /\ c.precommit[best] >= CalculateWeightedThreshold
  BY Zenon, <1>8, <1>9, <1>10
<1>12. PICK ms : ms = {m \in known : IsDescendant(tree, best, m.last)}
  BY Zenon
<1>13. c.precommit[best] = WeightOf(ms)
  BY Zenon, <1>7, <1>11, <1>12
<1>14. PICK q : q = {m.voter : m \in ms}
  BY Zenon
<1>15. WeightOfVoters(q) >= CalculateWeightedThreshold
  BY Zenon, <1>11, <1>13, <1>14 DEF WeightOf
<1>16. ms \subseteq votes /\ \A m \in ms : m.stage = "Precommit" /\ m.point = point /\ best \in Ancestors[m.last]
  BY Zenon, <1>2, <1>5, <1>12 DEF IsDescendant
<1>17. \A m \in ms : m.voter \in Voters
  BY Zenon, <1>16 DEF VotesInv, Messages
<1>18. q \in SUBSET Voters
  BY Zenon, <1>14, <1>17
<1>19. \A v \in q : \E m \in votes : m.voter = v /\ m.stage = "Precommit" /\ m.point = point /\ best \in Ancestors[m.last]
  BY Zenon, <1>14, <1>16
<1> QED
  BY Zenon, <1>4, <1>11, <1>15, <1>18, <1>19 DEF CommittedBy

\* createPrevote names blocks of the local chain, from the height of the last proof up to one that the chain has.
LEMMA PrevoteTyped ==
    ASSUME SafeConfiguration, NEW n \in Voters, NEW point \in Points, NEW head \in Heads, proof \in [Voters -> Proofs]
    PROVE  /\ CreatePrevote(n, point, head) \in Messages
           /\ CreatePrevote(n, point, head).stage = "Prevote"
<1>1. PICK start, top : start = Height(proof[n].block) /\ top = Height(head)
  BY Zenon
<1>2. head \in Blocks /\ proof[n].block \in Blocks
  BY Zenon, ConfigurationAssumption DEF Proofs
<1>3. start \in Nat /\ start >= 1 /\ top \in Nat /\ top >= 1
  BY Zenon, <1>1, <1>2, HeightsAre
<1>4. PICK m, k \in Nat \ {0} : m = PrevoteBlocksMultiple /\ k = MaxHashesPerPoint
  BY Zenon, ConfigurationAssumption, MessageAssumption
<1>5. m <= k
  BY Zenon, <1>4 DEF SafeConfiguration
<1>6. PICK limit : limit = IF top >= m THEN top - m ELSE top
  BY Zenon
<1>7. limit \in Nat /\ limit <= top
  BY <1>3, <1>4, <1>6
<1>8. PICK least : least = Min({limit, VotingSetEndHeight})
  BY Zenon
<1>9. least \in Nat /\ least <= limit
  <2>1. VotingSetEndHeight \in Nat
    BY Zenon, ConfigurationAssumption
  <2>2. PICK S : S = {limit, VotingSetEndHeight}
    BY Zenon
  <2>3. \E x \in S : \A y \in S : x <= y
    BY <1>7, <2>1, <2>2
  <2>4. Min(S) \in S /\ \A y \in S : Min(S) <= y
    BY Zenon, <2>3 DEF Min
  <2> QED
    BY Zenon, <1>7, <1>8, <2>1, <2>2, <2>4
<1>10. PICK clamped : clamped = ClampDown(least)
  BY Zenon
<1>11. clamped \in Nat /\ clamped <= top
  <2>1. clamped \in Nat /\ clamped <= least
    BY Zenon, <1>9, <1>10, ClampIs
  <2> QED
    BY <1>3, <1>7, <1>9, <2>1
<1>12. PICK wanted : wanted = IF clamped > start THEN clamped - start + 1 ELSE 1
  BY Zenon
<1>13. wanted \in Nat /\ wanted >= 1 /\ (start <= top => start + wanted - 1 <= top)
  BY <1>3, <1>11, <1>12
<1>14. PICK count : count = IF wanted > k THEN wanted - ClampUp(wanted - k) ELSE wanted
  BY Zenon
<1>15. count \in Nat /\ count >= 1 /\ count <= wanted
  <2>1. CASE wanted > k
    <3>1. PICK excess : excess = wanted - k
      BY Zenon
    <3>2. excess \in Nat
      BY SMTT(30), <1>4, <1>13, <2>1, <3>1
    <3>3. PICK cut : cut = ClampUp(excess)
      BY Zenon
    <3>4. cut \in Nat /\ cut <= excess + m - 1
      BY Zenon, <1>4, <3>2, <3>3, ClampIs
    <3>5. count = wanted - cut
      BY Zenon, <1>14, <2>1, <3>1, <3>3
    <3> QED
      BY SMTT(30), <1>4, <1>5, <1>13, <3>1, <3>4, <3>5
  <2>2. CASE ~(wanted > k)
    BY <1>13, <1>14, <2>2
  <2> QED
    BY Zenon, <2>1, <2>2
<1>16. PICK first, last :
            /\ CreatePrevote(n, point, head)
                    = [voter |-> n, point |-> point, stage |-> "Prevote", first |-> first, last |-> last]
            /\ \/ first = proof[n].block /\ last = proof[n].block
               \/ start <= top /\ first = BlockAt(head, start) /\ last = BlockAt(head, start + count - 1)
  <2>1. CASE start > top
    BY Zenon, <1>1, <2>1 DEF CreatePrevote
  <2>2. CASE ~(start > top)
    <3>1. start <= top
      BY <1>3, <2>2
    <3> QED
      BY Zenon, <1>1, <1>4, <1>6, <1>8, <1>10, <1>12, <1>14, <2>2, <3>1 DEF CreatePrevote
  <2> QED
    BY Zenon, <2>1, <2>2
<1>17. \A h \in 1 .. top : BlockAt(head, h) \in Blocks
  <2> SUFFICES ASSUME NEW h \in 1 .. top PROVE BlockAt(head, h) \in Blocks
    BY Zenon
  <2>1. \E b \in Ancestors[head] : Height(b) = h
    BY Zenon, <1>1, <1>2, HeightsAre
  <2>2. BlockAt(head, h) \in Ancestors[head]
    BY Zenon, <2>1 DEF BlockAt
  <2> QED
    BY Zenon, <1>2, <2>2, AncestorsAre
<1>18. first \in Blocks /\ last \in Blocks
  <2>1. CASE start <= top /\ first = BlockAt(head, start) /\ last = BlockAt(head, start + count - 1)
    <3>1. start \in 1 .. top /\ start + count - 1 \in 1 .. top
      BY <1>3, <1>13, <1>15, <2>1
    <3> QED
      BY Zenon, <1>17, <2>1, <3>1
  <2> QED
    BY Zenon, <1>2, <1>16, <2>1
<1> QED
  BY <1>16, <1>18 DEF Messages, Stages

\* What an action does to the votes and to the voting status.
VotesMove ==
    /\ lostSaves' \in Nat /\ status' \in [Voters -> VotingStatuses] /\ IsFiniteSet(votes')
    /\ \A v \in Voters : \/ /\ status'[v].point = status[v].point
                            /\ status[v].hasSentPrecommit => status'[v].hasSentPrecommit
                         \/ status'[v].point = status[v].point + 1
    /\ votes \subseteq votes' /\ votes' \subseteq Messages
    /\ \A m \in votes' \ votes : m.stage = "Precommit" /\ m.voter \notin Faulty
            => /\ votes' = votes \cup {m}
               /\ m.point = status[m.voter].point /\ status'[m.voter].point = m.point
               /\ ~status[m.voter].hasSentPrecommit /\ status'[m.voter].hasSentPrecommit

\* Such a move keeps the votes of a voter unique.
LEMMA MoveKeepsVotes ==
    ASSUME VotesInv, VotesMove
    PROVE  VotesInv'
<1>1. \A m \in votes' : m.voter \in Voters /\ m.point \in Nat /\ status[m.voter].point \in Nat /\ status'[m.voter].point \in Nat
  BY BoundAssumption DEF VotesInv, VotesMove, Messages, VotingStatuses, Points
<1>2. ASSUME NEW m \in votes', m.stage = "Precommit", m.voter \notin Faulty
      PROVE  /\ m.point <= status'[m.voter].point
             /\ m.point = status'[m.voter].point => status'[m.voter].hasSentPrecommit
  <2>1. CASE m \in votes
    <3>1. /\ m.point <= status[m.voter].point
          /\ m.point = status[m.voter].point => status[m.voter].hasSentPrecommit
      BY Zenon, <1>2, <2>1 DEF VotesInv
    <3>2. \/ /\ status'[m.voter].point = status[m.voter].point
             /\ status[m.voter].hasSentPrecommit => status'[m.voter].hasSentPrecommit
          \/ status'[m.voter].point = status[m.voter].point + 1
      BY Zenon, <1>1, <1>2 DEF VotesMove
    <3>3. m.point <= status'[m.voter].point
      BY <1>1, <3>1, <3>2
    <3>4. status'[m.voter].point = status[m.voter].point + 1 => m.point # status'[m.voter].point
      BY <1>1, <3>1
    <3> QED
      BY Zenon, <3>1, <3>2, <3>3, <3>4
  <2>2. CASE m \notin votes
    <3>1. status'[m.voter].point = m.point /\ status'[m.voter].hasSentPrecommit
      BY Zenon, <1>2, <2>2 DEF VotesMove
    <3> QED
      BY <1>1, <3>1
  <2> QED
    BY Zenon, <2>1, <2>2
<1>3. ASSUME NEW m \in votes', NEW o \in votes', m.stage = "Precommit", o.stage = "Precommit", m.point = o.point,
             m.voter = o.voter, m.voter \notin Faulty
      PROVE  m = o
  <2>1. ASSUME NEW x \in votes' \ votes, NEW y \in votes, x.stage = "Precommit", y.stage = "Precommit",
               x.point = y.point, x.voter = y.voter, x.voter \notin Faulty
        PROVE  FALSE
    <3>1. x.point = status[x.voter].point /\ ~status[x.voter].hasSentPrecommit
      BY Zenon, <2>1 DEF VotesMove
    <3> QED
      BY Zenon, <2>1, <3>1 DEF VotesInv
  <2>2. CASE m \in votes /\ o \in votes
    BY Zenon, <1>3, <2>2 DEF VotesInv
  <2>3. CASE m \notin votes /\ o \notin votes
    <3>1. \A x \in votes' \ votes : x.stage = "Precommit" /\ x.voter \notin Faulty => votes' = votes \cup {x}
      BY Zenon DEF VotesMove
    <3>2. votes' = votes \cup {m}
      BY Zenon, <1>3, <2>3, <3>1
    <3> QED
      BY Zenon, <1>3, <2>3, <3>2
  <2>4. CASE m \in votes /\ o \notin votes
    <3>1. o \in votes' \ votes /\ o.point = m.point /\ o.voter = m.voter /\ o.voter \notin Faulty
      BY Zenon, <1>3, <2>4
    <3> QED
      BY Zenon, <1>3, <2>1, <2>4, <3>1
  <2>5. CASE m \notin votes /\ o \in votes
    <3>1. m \in votes' \ votes
      BY Zenon, <1>3, <2>5
    <3> QED
      BY Zenon, <1>3, <2>1, <2>5, <3>1
  <2> QED
    BY Zenon, <2>2, <2>3, <2>4, <2>5
<1>4. votes' \subseteq Messages /\ IsFiniteSet(votes') /\ lostSaves' \in Nat /\ status' \in [Voters -> VotingStatuses]
  BY Zenon DEF VotesMove
<1> QED
  BY Zenon, <1>2, <1>3, <1>4 DEF VotesInv, Faulty

\* A quorum of precommits stays one.
LEMMA CommittedStays ==
    ASSUME votes \subseteq votes', NEW point, NEW b, CommittedBy(votes, point, b)
    PROVE  CommittedBy(votes', point, b)
  BY Zenon DEF CommittedBy

\* At the start nobody has voted, and everybody has finalized the first block only.
LEMMA VotesStart ==
    ASSUME Init
    PROVE  VotesInv /\ ProofsInv
<1>1. 1 \in Points /\ IsFiniteSet({})
  BY BoundAssumption, FS_EmptySet DEF Points
<1>2. VotesInv
  BY Zenon, <1>1 DEF VotesInv, Init, StartOfRound, VotingStatuses
<1>3. Root \in Blocks
  BY Zenon, RootIs
<1> QED
  BY Zenon, <1>2, <1>3 DEF ProofsInv, Init, Proofs

\* The votes and the voting status move as VotesMove says in every poll, also in one that the process does not survive.
LEMMA StepMoves ==
    ASSUME SafeConfiguration, VotesInv, ProofsInv, Next
    PROVE  VotesMove
<1>1. /\ lostSaves \in Nat /\ status \in [Voters -> VotingStatuses] /\ votes \subseteq Messages
      /\ IsFiniteSet(votes) /\ proof \in [Voters -> Proofs]
  BY Zenon DEF VotesInv, ProofsInv
<1>2. \A v \in Voters : status[v].point \in Points
  BY Zenon, <1>1 DEF VotingStatuses
<1>3. ASSUME UNCHANGED <<votes, status>>, lostSaves' \in Nat
      PROVE  VotesMove
  BY Zenon, <1>1, <1>3 DEF VotesMove
<1>4. ASSUME NEW n, Boot(n), lostSaves < MaxLostSaves
      PROVE  n \in Faulty
  <2>1. MaxLostSaves # 0
    BY <1>1, <1>4, BoundAssumption
  <2> QED
    BY Zenon, <1>4, <2>1 DEF Faulty, Boot
<1>5. ASSUME NEW m \in Messages
      PROVE  votes \cup {m} \subseteq Messages /\ IsFiniteSet(votes \cup {m})
  BY Zenon, <1>1, FS_AddElement
<1>6. ASSUME NEW n \in Voters, NEW head \in Heads, SendPrevote(n, head)
      PROVE  VotesMove
  <2>1. PICK m : m = CreatePrevote(n, status[n].point, head)
    BY Zenon
  <2>2. m \in Messages /\ m.stage = "Prevote"
    BY Zenon, <1>1, <1>2, <2>1, PrevoteTyped
  <2>3. votes' = votes \cup {m} /\ m.stage # "Precommit"
    BY Zenon, <1>6, <2>1, <2>2 DEF SendPrevote
  <2>4. /\ lostSaves' \in Nat /\ status' \in [Voters -> VotingStatuses]
        /\ \A v \in Voters : /\ status'[v].point = status[v].point
                             /\ status[v].hasSentPrecommit => status'[v].hasSentPrecommit
    <3>1. CASE Save(n, [status[n] EXCEPT !.hasSentPrevote = TRUE])
      BY Zenon, <1>1, <3>1 DEF Save, VotingStatuses
    <3>2. CASE LoseSave(n)
      BY <1>1, <3>2 DEF LoseSave, Boot
    <3> QED
      BY Zenon, <1>6, <3>1, <3>2 DEF SendPrevote
  <2> QED
    BY Zenon, <1>5, <2>2, <2>3, <2>4 DEF VotesMove
<1>7. ASSUME NEW n \in Voters, NEW target \in Blocks, SendPrecommit(n, target)
      PROVE  VotesMove
  <2>1. PICK m : m = CreatePrecommit(n, status[n].point, target)
    BY Zenon
  <2>2. m \in Messages /\ m.voter = n /\ m.point = status[n].point
    BY Zenon, <1>1, <1>2, <2>1 DEF CreatePrecommit, Messages, Stages
  <2>3. votes' = votes \cup {m} /\ ~status[n].hasSentPrecommit
    BY Zenon, <1>7, <2>1 DEF SendPrecommit
  <2>4. /\ lostSaves' \in Nat /\ status' \in [Voters -> VotingStatuses]
        /\ \A v \in Voters : /\ status'[v].point = status[v].point
                             /\ status[v].hasSentPrecommit => status'[v].hasSentPrecommit
        /\ n \in Faulty \/ status'[n].hasSentPrecommit
    <3>1. CASE Save(n, [status[n] EXCEPT !.hasSentPrecommit = TRUE])
      BY Zenon, <1>1, <3>1 DEF Save, VotingStatuses
    <3>2. CASE LoseSave(n)
      <4>1. n \in Faulty
        BY Zenon, <1>4, <3>2 DEF LoseSave
      <4> QED
        BY <1>1, <3>2, <4>1 DEF LoseSave, Boot
    <3> QED
      BY Zenon, <1>7, <3>1, <3>2 DEF SendPrecommit
  <2> QED
    BY Zenon, <1>5, <2>2, <2>3, <2>4 DEF VotesMove
<1>8. ASSUME NEW n \in Voters, StartNextRound(n)
      PROVE  VotesMove
  <2>1. status[n].point + 1 \in Points
    BY <1>2, <1>8, BoundAssumption DEF StartNextRound, Points
  <2>2. status' \in [Voters -> VotingStatuses]
    BY Zenon, <1>1, <1>8, <2>1 DEF StartNextRound, StartOfRound, VotingStatuses
  <2>3. \A v \in Voters : status'[v] = status[v] \/ status'[v].point = status[v].point + 1
    BY Zenon, <1>1, <1>8 DEF StartNextRound, StartOfRound
  <2>4. votes' = votes /\ lostSaves' = lostSaves
    BY Zenon, <1>8 DEF StartNextRound
  <2> QED
    BY Zenon, <1>1, <2>2, <2>3, <2>4 DEF VotesMove
<1>9. ASSUME NEW n, NEW point, NEW best, Finalize(n, point, best)
      PROVE  VotesMove
  BY Zenon, <1>1, <1>3, <1>9 DEF Finalize, Boot
<1>10. ASSUME NEW n, Restart(n)
       PROVE  VotesMove
  BY Zenon, <1>1, <1>3, <1>10 DEF Restart, Boot
<1>11. \A n \in Voters : PrecommitTargets(n) \subseteq Blocks
  BY Zenon DEF PrecommitTargets
<1> QED
  BY Zenon, <1>6, <1>7, <1>8, <1>9, <1>10, <1>11 DEF Next

\* What the finalizer saves is a best precommit, and what was committed stays committed.
LEMMA ProofsFollow ==
    ASSUME VotesInv, ProofsInv, Next, votes \subseteq votes'
    PROVE  ProofsInv'
<1>1. proof \in [Voters -> Proofs]
  BY Zenon DEF ProofsInv
<1>2. ASSUME NEW n \in Voters, NEW point \in Points, NEW best \in BestPrecommits(point),
             proof' = [proof EXCEPT ![n] = [point |-> point, block |-> best]]
      PROVE  ProofsInv'
  <2>1. best \in Blocks /\ CommittedBy(votes', point, best)
    BY Zenon, BestIsCommitted, CommittedStays
  <2>2. /\ proof' \in [Voters -> Proofs]
        /\ proof'[n].point = point /\ proof'[n].block = best
        /\ \A v \in Voters \ {n} : proof'[v] = proof[v]
    BY Zenon, <1>1, <1>2, <2>1 DEF Proofs
  <2>3. ASSUME NEW v \in Voters
        PROVE  \/ proof'[v].point = 0 /\ proof'[v].block = Root
               \/ proof'[v].point \in Points /\ CommittedBy(votes', proof'[v].point, proof'[v].block)
    <3>1. CASE v = n
      BY Zenon, <2>1, <2>2, <3>1
    <3>2. CASE v # n
      <4>1. \/ proof[v].point = 0 /\ proof[v].block = Root
            \/ proof[v].point \in Points /\ CommittedBy(votes, proof[v].point, proof[v].block)
        BY Zenon DEF ProofsInv
      <4> QED
        BY Zenon, <2>2, <3>2, <4>1, CommittedStays
    <3> QED
      BY Zenon, <3>1, <3>2
  <2> QED
    BY Zenon, <2>2, <2>3 DEF ProofsInv
<1>3. ASSUME UNCHANGED proof
      PROVE  ProofsInv'
  BY Zenon, <1>3, CommittedStays DEF ProofsInv
<1>4. ASSUME NEW n \in Voters, NEW point \in Points, NEW best \in BestPrecommits(point), Finalize(n, point, best)
      PROVE  ProofsInv'
  BY Zenon, <1>2, <1>3, <1>4 DEF Finalize
<1> QED
  BY Zenon, <1>3, <1>4 DEF Next, SendPrevote, SendPrecommit, StartNextRound, Restart

\* One poll of one node, or its restart, keeps the votes unique and the proofs committed.
LEMMA VotesStep ==
    ASSUME SafeConfiguration, VotesInv, ProofsInv, [Next]_vars
    PROVE  VotesInv' /\ ProofsInv'
<1>1. CASE Next
  <2>1. VotesMove
    BY Zenon, <1>1, StepMoves
  <2>2. votes \subseteq votes'
    BY Zenon, <2>1 DEF VotesMove
  <2> QED
    BY Zenon, <1>1, <2>1, <2>2, MoveKeepsVotes, ProofsFollow
<1>2. CASE UNCHANGED vars
  BY Zenon, <1>2 DEF vars, VotesInv, ProofsInv
<1> QED
  BY Zenon, <1>1, <1>2

\* Two finalized blocks that are committed in one round, or the first block and any other, are on one chain.
OneChainInRound ==
    \A n, o \in Voters : proof[n].point = proof[o].point \/ proof[n].point = 0
        => \/ proof[n].block \in Ancestors[proof[o].block]
           \/ proof[o].block \in Ancestors[proof[n].block]

\* It follows from the votes being unique and the proofs committed.
LEMMA RoundHasOneChain ==
    ASSUME SafeConfiguration, VotesInv, ProofsInv
    PROVE  OneChainInRound
<1> SUFFICES ASSUME NEW n \in Voters, NEW o \in Voters, proof[n].point = proof[o].point \/ proof[n].point = 0
             PROVE  \/ proof[n].block \in Ancestors[proof[o].block]
                    \/ proof[o].block \in Ancestors[proof[n].block]
  BY Zenon DEF OneChainInRound
<1>1. /\ 0 \notin Points /\ proof[o].block \in Blocks
  BY DEF ProofsInv, Proofs, Points
<1>2. /\ \/ proof[n].point = 0 /\ proof[n].block = Root
         \/ proof[n].point \in Points /\ CommittedBy(votes, proof[n].point, proof[n].block)
      /\ \/ proof[o].point = 0 /\ proof[o].block = Root
         \/ proof[o].point \in Points /\ CommittedBy(votes, proof[o].point, proof[o].block)
  BY Zenon DEF ProofsInv
<1>3. CASE proof[n].point = 0
  BY Zenon, <1>1, <1>2, <1>3, RootIs
<1>4. CASE proof[n].point # 0 /\ proof[n].point = proof[o].point
  BY Zenon, <1>2, <1>4, CommittedOnOneChain
<1> QED
  BY Zenon, <1>3, <1>4

\* Whatever the nodes receive when, however often they stop and whatever saves they lose, no two of them finalize blocks
\* of different forks in one round: their quorums of precommits have a voter in common that has precommitted once,
\* because the orchestrator saves the voting status before it votes again.
THEOREM RoundsAgree ==
    ASSUME SafeConfiguration
    PROVE  Spec => []OneChainInRound
<1>1. Init => VotesInv /\ ProofsInv
  BY Zenon, VotesStart
<1>2. VotesInv /\ ProofsInv /\ [Next]_vars => (VotesInv /\ ProofsInv)'
  BY Zenon, VotesStep
<1>3. VotesInv /\ ProofsInv => OneChainInRound
  BY Zenon, RoundHasOneChain
<1> QED
  BY <1>1, <1>2, <1>3, PTL DEF Spec

\* In an epoch of one round all that the nodes ever finalize is on one chain (the finalizer and canSendPrecommit).
THEOREM NodesAgree ==
    ASSUME SafeConfiguration, MaxPoint = 1
    PROVE  Spec => []Agreement
<1>1. Init => VotesInv /\ ProofsInv
  BY Zenon, VotesStart
<1>2. VotesInv /\ ProofsInv /\ [Next]_vars => (VotesInv /\ ProofsInv)'
  BY Zenon, VotesStep
<1>3. ASSUME VotesInv, ProofsInv
      PROVE  Agreement
  <2>1. \A n \in Voters : proof[n].point = 0 \/ proof[n].point = 1
    BY <1>3 DEF ProofsInv, Proofs, Points
  <2>2. OneChainInRound
    BY Zenon, <1>3, RoundHasOneChain
  <2> QED
    BY Zenon, <2>1, <2>2 DEF Agreement, OneChainInRound
<1> QED
  BY <1>1, <1>2, <1>3, PTL DEF Spec
=============================================================================
