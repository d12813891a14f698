------------------------- MODULE UnconfirmedTheorems -------------------------
(***************************************************************************)
(* The unconfirmed transactions and the harvested blocks follow the chain, *)
(* for all sub caches, transactions and chains and all interleavings of    *)
(* the block dispatcher, the transaction dispatcher and the harvester:     *)
(* while no update is under way, an unconfirmed state that can be locked   *)
(* is the confirmed one with the unconfirmed transactions applied, each of *)
(* them valid, and a harvested block that is processed is valid, unless    *)
(* the chain was exchanged for one of the same height under the harvester. *)
(*                                                                         *)
(* The recursive definitions of the model are unfolded with the lemmas of  *)
(* the first part, by taking the least number for which a claim fails.     *)
(***************************************************************************)
EXTENDS HarvestingProofs, WellFoundedInduction

-----------------------------------------------------------------------------
(* The recursive definitions of the model                                  *)

\* The least member of a set of numbers.
LEMMA LeastMember ==
    ASSUME NEW T \in SUBSET Nat, T # {}
    PROVE  \E x \in T : \A y \in T : x <= y
<1> DEFINE Less == OpToRel(<, Nat)
<1>1. \A m, n \in Nat : m < n => <<m, n>> \in Less
  BY Zenon DEF OpToRel
<1>2. IsWellFoundedOn(Less, Nat)
  BY Zenon, NatLessThanWellFounded
<1> HIDE DEF Less
<1>3. PICK x \in T : \A y \in T : <<y, x>> \notin Less
  BY Zenon, <1>2, WFMin
<1>4. \A y \in T : ~(y < x)
  BY Zenon, <1>1, <1>3
<1> QED
  BY <1>4

\* Induction up to a bound.
LEMMA InductUpTo ==
    ASSUME NEW n \in Nat, NEW S, 0 \in S, \A m \in 1 .. n : m - 1 \in S => m \in S
    PROVE  \A m \in 0 .. n : m \in S
<1> DEFINE T == {m \in 0 .. n : m \notin S}
<1> SUFFICES ASSUME T # {} PROVE FALSE
  BY Zenon
<1>1. PICK x \in T : \A y \in T : x <= y
  <2>1. T \in SUBSET Nat
    OBVIOUS
  <2> HIDE DEF T
  <2> QED
    BY Zenon, <2>1, LeastMember
<1>2. x \in 1 .. n /\ x \notin S
  BY <1>1
<1>3. x - 1 \in 0 .. n /\ ~(x <= x - 1)
  BY <1>2
<1>4. x - 1 \in S
  BY Zenon, <1>1, <1>3
<1> QED
  BY Zenon, <1>2, <1>4

\* The function that repeats F, from a first value.
Repeats(f, n, first, F) == f[0] = first /\ \A i \in 1 .. n : f[i] = F[<<i, f[i - 1]>>]

\* There is one.
LEMMA RepeatsExists ==
    ASSUME NEW n \in Nat, NEW V, NEW first \in V, NEW F \in [(1 .. n) \X V -> V]
    PROVE  \E f \in [0 .. n -> V] : Repeats(f, n, first, F)
<1> DEFINE S == {m \in Nat : m <= n => \E f \in [0 .. m -> V] : Repeats(f, m, first, F)}
<1>1. 0 \in S
  <2>1. PICK f : f = [i \in 0 .. 0 |-> first]
    BY Zenon
  <2>2. f \in [0 .. 0 -> V] /\ Repeats(f, 0, first, F)
    BY <2>1 DEF Repeats
  <2> QED
    BY Zenon, <2>2
<1>2. ASSUME NEW m \in 1 .. n, m - 1 \in S PROVE m \in S
  <2>1. m - 1 \in Nat /\ m - 1 <= n /\ m \in Nat
    OBVIOUS
  <2>2. PICK f \in [0 .. m - 1 -> V] : Repeats(f, m - 1, first, F)
    BY Zenon, <1>2, <2>1
  <2>3. f[m - 1] \in V
    BY <2>1
  <2>4. PICK x : x = F[<<m, f[m - 1]>>]
    BY Zenon
  <2>5. x \in V
    BY Zenon, <2>3, <2>4
  <2>6. PICK g : g = [i \in 0 .. m |-> IF i = m THEN x ELSE f[i]]
    BY Zenon
  <2>7. \A i \in 0 .. m : i # m => i \in 0 .. m - 1
    BY <2>1
  <2>8. g \in [0 .. m -> V]
    BY Zenon, <2>5, <2>6, <2>7
  <2>9. g[m] = x /\ \A i \in 0 .. m - 1 : g[i] = f[i]
    BY <2>1, <2>6
  <2>10. ASSUME NEW i \in 1 .. m PROVE g[i] = F[<<i, g[i - 1]>>]
    <3>1. i - 1 \in 0 .. m - 1
      BY <2>1
    <3>2. CASE i = m
      BY Zenon, <2>4, <2>9, <3>1, <3>2
    <3>3. CASE i # m
      <4>1. i \in 1 .. m - 1 /\ i \in 0 .. m - 1
        BY <2>1, <3>3
      <4>2. f[i] = F[<<i, f[i - 1]>>]
        BY Zenon, <2>2, <4>1 DEF Repeats
      <4> QED
        BY ZenonT(60), <2>9, <3>1, <4>1, <4>2
    <3> QED
      BY Zenon, <3>2, <3>3
  <2>11. g[0] = first
    BY <2>1, <2>2, <2>9 DEF Repeats
  <2>12. Repeats(g, m, first, F)
    BY Zenon, <2>10, <2>11 DEF Repeats
  <2> QED
    BY Zenon, <2>1, <2>8, <2>12
<1>3. n \in 0 .. n
  OBVIOUS
<1>4. n \in S
  <2> HIDE DEF S
  <2> QED
    BY Zenon, <1>1, <1>2, <1>3, InductUpTo
<1> QED
  BY <1>4

\* What Without goes through.
IsKept(kept, txs, gone) ==
    kept = [i \in 0 .. Len(txs) |->
        IF i = 0 THEN <<>> ELSE IF txs[i] \in gone THEN kept[i - 1] ELSE Append(kept[i - 1], txs[i])]

\* Without is what its equation says.
LEMMA WithoutIs ==
    ASSUME NEW T, NEW txs \in Seq(T), NEW gone
    PROVE  \E kept : IsKept(kept, txs, gone) /\ Without(txs, gone) = kept[Len(txs)]
<1> DEFINE n == Len(txs)
           F == [p \in (1 .. n) \X Seq(T) |-> IF txs[p[1]] \in gone THEN p[2] ELSE Append(p[2], txs[p[1]])]
           c == CHOOSE kept : IsKept(kept, txs, gone)
<1>1. n \in Nat /\ \A i \in 1 .. n : txs[i] \in T
  OBVIOUS
<1>2. F \in [(1 .. n) \X Seq(T) -> Seq(T)]
  BY <1>1
<1>3. \A i \in 1 .. n, x \in Seq(T) : F[<<i, x>>] = IF txs[i] \in gone THEN x ELSE Append(x, txs[i])
  BY Zenon
<1>4. <<>> \in Seq(T)
  OBVIOUS
<1>5. PICK f \in [0 .. n -> Seq(T)] : Repeats(f, n, <<>>, F)
  <2> HIDE DEF F, n
  <2> QED
    BY Zenon, <1>1, <1>2, <1>4, RepeatsExists
<1>6. \A i \in 0 .. n : f[i] = IF i = 0 THEN <<>> ELSE IF txs[i] \in gone THEN f[i - 1] ELSE Append(f[i - 1], txs[i])
  <2> SUFFICES ASSUME NEW i \in 0 .. n, i # 0
               PROVE  f[i] = IF txs[i] \in gone THEN f[i - 1] ELSE Append(f[i - 1], txs[i])
    BY Zenon, <1>5 DEF Repeats
  <2>1. i \in 1 .. n /\ f[i - 1] \in Seq(T)
    BY <1>1
  <2>2. f[i] = F[<<i, f[i - 1]>>]
    BY Zenon, <1>5, <2>1 DEF Repeats
  <2> HIDE DEF F
  <2> QED
    BY Zenon, <1>3, <2>1, <2>2
<1>7. IsKept(f, txs, gone)
  BY Zenon, <1>6 DEF IsKept
<1>8. IsKept(c, txs, gone)
  BY Zenon, <1>7
<1>9. Without(txs, gone) = c[Len(txs)]
  BY Zenon DEF Without, IsKept
<1> HIDE DEF c
<1> QED
  BY ZenonT(60), <1>8, <1>9

\* It is a sequence of the same kind.
LEMMA WithoutType ==
    ASSUME NEW T, NEW txs \in Seq(T), NEW gone
    PROVE  Without(txs, gone) \in Seq(T)
<1> DEFINE S(kept) == {m \in Nat : m <= Len(txs) => kept[m] \in Seq(T)}
<1>1. PICK kept : IsKept(kept, txs, gone) /\ Without(txs, gone) = kept[Len(txs)]
  BY Zenon, WithoutIs
<1>2. /\ Len(txs) \in Nat /\ \A i \in 1 .. Len(txs) : txs[i] \in T
      /\ Len(txs) \in 0 .. Len(txs)
  OBVIOUS
<1>3. 0 \in S(kept)
  BY <1>1 DEF IsKept
<1>4. ASSUME NEW m \in 1 .. Len(txs), m - 1 \in S(kept) PROVE m \in S(kept)
  <2>1. kept[m - 1] \in Seq(T) /\ m \in 0 .. Len(txs) /\ m # 0
    BY <1>2, <1>4
  <2>2. kept[m] = IF txs[m] \in gone THEN kept[m - 1] ELSE Append(kept[m - 1], txs[m])
    BY Zenon, <1>1, <2>1 DEF IsKept
  <2>3. txs[m] \in T /\ m \in Nat
    BY <1>2
  <2>4. Append(kept[m - 1], txs[m]) \in Seq(T)
    BY <2>1, <2>3
  <2>5. kept[m] \in Seq(T)
    BY Zenon, <2>1, <2>2, <2>4
  <2> QED
    BY Zenon, <2>3, <2>5
<1>5. Len(txs) \in S(kept)
  <2> HIDE DEF S
  <2> QED
    BY ZenonT(60), <1>2, <1>3, <1>4, InductUpTo
<1> QED
  BY <1>1, <1>2, <1>5

\* Removing what has just been added at the end leaves what was there.
LEMMA WithoutLast ==
    ASSUME NEW T, NEW txs \in Seq(T), NEW x \in T, ~Contains(txs, x)
    PROVE  Without(Append(txs, x), {x}) = txs
<1> DEFINE more == Append(txs, x)
           n == Len(txs)
           S(kept) == {m \in Nat : m <= n => kept[m] \in Seq(T) /\ Len(kept[m]) = m /\ \A j \in 1 .. m : kept[m][j] = txs[j]}
<1>1. /\ n \in Nat /\ Len(more) = n + 1 /\ more \in Seq(T) /\ more[n + 1] = x
      /\ \A i \in 1 .. n : more[i] = txs[i] /\ txs[i] \in T /\ more[i] \notin {x}
  BY DEF Contains
<1> HIDE DEF more
<1>2. PICK kept : IsKept(kept, more, {x}) /\ Without(more, {x}) = kept[Len(more)]
  BY Zenon, <1>1, WithoutIs
<1>3. /\ kept[0] = <<>> /\ kept[n + 1] = kept[n]
      /\ \A i \in 1 .. n : kept[i] = Append(kept[i - 1], txs[i])
  <2>1. /\ kept[0] = <<>>
        /\ \A i \in 1 .. n + 1 : kept[i] = IF more[i] \in {x} THEN kept[i - 1] ELSE Append(kept[i - 1], more[i])
    <3>1. Len(more) = n + 1 /\ n \in Nat
      BY Zenon, <1>1
    <3>2. 0 \in 0 .. Len(more) /\ \A i \in 1 .. n + 1 : i \in 0 .. Len(more) /\ i # 0
      BY <3>1
    <3> HIDE DEF n
    <3> QED
      BY Zenon, <1>2, <3>2 DEF IsKept
  <2>2. n + 1 \in 1 .. n + 1 /\ (n + 1) - 1 = n /\ \A i \in 1 .. n : i \in 1 .. n + 1
    BY <1>1
  <2> QED
    BY Zenon, <1>1, <2>1, <2>2
<1>4. 0 \in S(kept)
  <2>1. <<>> \in Seq(T) /\ Len(<<>>) = 0 /\ \A j \in 1 .. 0 : FALSE
    OBVIOUS
  <2>2. kept[0] = <<>>
    BY Zenon, <1>3
  <2> QED
    BY Zenon, <2>1, <2>2
<1>5. ASSUME NEW m \in 1 .. n, m - 1 \in S(kept) PROVE m \in S(kept)
  <2>1. /\ kept[m - 1] \in Seq(T) /\ Len(kept[m - 1]) = m - 1
        /\ \A j \in 1 .. m - 1 : kept[m - 1][j] = txs[j]
    BY <1>1, <1>5
  <2>2. kept[m] = Append(kept[m - 1], txs[m]) /\ txs[m] \in T
    BY Zenon, <1>1, <1>3
  <2>3. kept[m] \in Seq(T) /\ Len(kept[m]) = m /\ kept[m][m] = txs[m]
    BY <1>1, <2>1, <2>2
  <2>4. ASSUME NEW j \in 1 .. m PROVE kept[m][j] = txs[j]
    <3>1. CASE j = m
      BY Zenon, <2>3, <3>1
    <3>2. CASE j # m
      <4>1. j \in 1 .. m - 1
        BY <1>1, <3>2
      <4>2. kept[m][j] = kept[m - 1][j]
        BY <2>1, <2>2, <4>1
      <4> QED
        BY Zenon, <2>1, <4>1, <4>2
    <3> QED
      BY Zenon, <3>1, <3>2
  <2> QED
    BY <1>1, <2>3, <2>4
<1>6. n \in S(kept)
  <2>1. n \in 0 .. n
    BY <1>1
  <2> HIDE DEF S, n
  <2> QED
    BY Zenon, <1>1, <1>4, <1>5, <2>1, InductUpTo
<1>7. kept[n] = txs
  BY <1>1, <1>6
<1> QED
  BY ZenonT(60), <1>1, <1>2, <1>3, <1>7 DEF more

\* The transactions of blocks are a sequence of transactions.
LEMMA ConfirmedType ==
    ASSUME NEW c \in Seq(BlockRecords)
    PROVE  Confirmed(c) \in Seq(Txs)
<1> DEFINE n == Len(c)
           seqs == [i \in 1 .. n |-> c[i].txs]
           Flat(h) == h = [i \in 1 .. Len(seqs) |-> IF i = 1 THEN seqs[i] ELSE h[i - 1] \o seqs[i]]
           F == [p \in (1 .. n) \X Seq(Txs) |-> p[2] \o seqs[p[1]]]
           all == CHOOSE h : Flat(h)
           S == {m \in Nat : m >= 1 /\ m <= n => all[m] \in Seq(Txs)}
<1>1. n \in Nat /\ \A i \in 1 .. n : c[i] \in BlockRecords
  OBVIOUS
<1>2. \A i \in 1 .. n : seqs[i] \in Seq(Txs)
  BY Zenon, <1>1 DEF BlockRecords
<1>3. seqs \in Seq(Seq(Txs)) /\ Len(seqs) = n
  BY <1>1, <1>2
<1>4. Confirmed(c) = FlattenSeq(seqs)
  BY Zenon DEF Confirmed
<1>5. CASE n = 0
  <2>1. seqs = <<>>
    BY <1>3, <1>5
  <2>2. FlattenSeq(seqs) = seqs
    BY Zenon, <1>3, <1>5 DEF FlattenSeq
  <2> QED
    BY <1>4, <2>1, <2>2
<1>6. CASE n # 0
  <2>1. FlattenSeq(seqs) = all[n]
    BY ZenonT(60), <1>3, <1>6 DEF FlattenSeq
  <2>2. /\ F \in [(1 .. n) \X Seq(Txs) -> Seq(Txs)] /\ <<>> \in Seq(Txs)
        /\ \A i \in 1 .. n, x \in Seq(Txs) : F[<<i, x>>] = x \o seqs[i]
    <3>1. <<>> \in Seq(Txs)
      OBVIOUS
    <3> HIDE DEF seqs, n
    <3>2. \A i \in 1 .. n, x \in Seq(Txs) : x \o seqs[i] \in Seq(Txs)
      BY <1>2
    <3>3. F \in [(1 .. n) \X Seq(Txs) -> Seq(Txs)]
      BY Zenon, <3>2
    <3>4. \A i \in 1 .. n, x \in Seq(Txs) : F[<<i, x>>] = x \o seqs[i]
      BY Zenon
    <3> QED
      BY Zenon, <3>1, <3>3, <3>4
  <2>3. PICK f \in [0 .. n -> Seq(Txs)] : Repeats(f, n, <<>>, F)
    <3> HIDE DEF F, n
    <3> QED
      BY ZenonT(60), <1>1, <2>2, RepeatsExists
  <2>4. \A i \in 1 .. n : f[i - 1] \in Seq(Txs) /\ f[i] = f[i - 1] \o seqs[i]
    <3> SUFFICES ASSUME NEW i \in 1 .. n PROVE f[i - 1] \in Seq(Txs) /\ f[i] = f[i - 1] \o seqs[i]
      BY Zenon
    <3>1. f[i - 1] \in Seq(Txs)
      BY SMTT(30), <1>1
    <3>2. f[i] = F[<<i, f[i - 1]>>]
      BY ZenonT(60), <2>3 DEF Repeats
    <3> HIDE DEF F, seqs
    <3> QED
      BY Zenon, <2>2, <3>1, <3>2
  <2>5. f[0] = <<>>
    BY Zenon, <2>3 DEF Repeats
  <2> HIDE DEF F, seqs, n
  <2>6. f[1] = seqs[1]
    <3>1. 1 \in 1 .. n /\ 1 - 1 = 0
      BY <1>1, <1>6
    <3>2. f[1] = <<>> \o seqs[1] /\ seqs[1] \in Seq(Txs)
      BY Zenon, <1>2, <2>4, <2>5, <3>1
    <3> QED
      BY <3>2
  <2>7. PICK g : g = [i \in 1 .. n |-> f[i]]
    BY Zenon
  <2>8. \A i \in 1 .. n : g[i] = IF i = 1 THEN seqs[i] ELSE g[i - 1] \o seqs[i]
    <3> SUFFICES ASSUME NEW i \in 1 .. n PROVE g[i] = IF i = 1 THEN seqs[i] ELSE g[i - 1] \o seqs[i]
      BY Zenon
    <3>1. CASE i = 1
      BY Zenon, <2>6, <2>7, <3>1
    <3>2. CASE i # 1
      <4>1. i - 1 \in 1 .. n
        BY <1>1, <3>2
      <4> QED
        BY Zenon, <2>4, <2>7, <3>2, <4>1
    <3> QED
      BY Zenon, <3>1, <3>2
  <2>9. Flat(g)
    BY Zenon, <1>3, <2>7, <2>8
  <2>10. Flat(all)
    BY ZenonT(60), <2>9
  <2> HIDE DEF all
  <2>11. \A i \in 1 .. n : all[i] = IF i = 1 THEN seqs[i] ELSE all[i - 1] \o seqs[i]
    BY ZenonT(60), <1>3, <2>10
  <2>12. 0 \in S
    OBVIOUS
  <2>13. ASSUME NEW m \in 1 .. n, m - 1 \in S PROVE m \in S
    <3>1. CASE m = 1
      BY Zenon, <1>2, <2>11, <3>1
    <3>2. CASE m # 1
      <4>1. all[m - 1] \in Seq(Txs)
        BY <1>1, <2>13, <3>2
      <4>2. all[m] = all[m - 1] \o seqs[m] /\ seqs[m] \in Seq(Txs)
        BY Zenon, <1>2, <2>11, <3>2
      <4>3. all[m] \in Seq(Txs)
        BY <4>1, <4>2
      <4> QED
        BY <1>1, <4>3
    <3> QED
      BY Zenon, <3>1, <3>2
  <2>14. n \in S
    <3>1. n \in 0 .. n
      BY <1>1
    <3> HIDE DEF S
    <3> QED
      BY Zenon, <1>1, <2>12, <2>13, <3>1, InductUpTo
  <2>15. all[n] \in Seq(Txs)
    BY <1>1, <1>6, <2>14
  <2> QED
    BY Zenon, <1>4, <2>1, <2>15
<1> QED
  BY Zenon, <1>5, <1>6

\* The transactions of one block.
LEMMA ConfirmedOne ==
    ASSUME NEW block
    PROVE  Confirmed(<<block>>) = block.txs
<1> DEFINE seqs == [i \in 1 .. 1 |-> block.txs]
           Flat(h) == h = [i \in 1 .. Len(seqs) |-> IF i = 1 THEN seqs[i] ELSE h[i - 1] \o seqs[i]]
           all == CHOOSE h : Flat(h)
<1>1. Len(seqs) = 1 /\ seqs[1] = block.txs
  OBVIOUS
<1>2. Confirmed(<<block>>) = FlattenSeq(seqs)
  <2>1. [i \in 1 .. Len(<<block>>) |-> <<block>>[i].txs] = seqs
    OBVIOUS
  <2> QED
    BY Zenon, <2>1 DEF Confirmed
<1>3. FlattenSeq(seqs) = all[1]
  BY <1>1 DEF FlattenSeq
<1> HIDE DEF seqs
<1>4. PICK g : g = [i \in 1 .. 1 |-> block.txs]
  BY Zenon
<1>5. Flat(g)
  BY <1>1, <1>4
<1>6. Flat(all)
  BY Zenon, <1>5
<1> HIDE DEF all
<1>7. all[1] = block.txs
  BY <1>1, <1>6
<1> QED
  BY Zenon, <1>2, <1>3, <1>7

-----------------------------------------------------------------------------
(* The updates of the unconfirmed transactions                             *)

\* The states that an update goes through.
Changes == [added : SUBSET Txs, removed : SUBSET Txs]
UpdateStates == [ut : Seq(Txs), applied : Seq(Txs), changes : Changes]

\* No transaction is there twice, and the changes lead from what the subscriber knows to what is there.
Leads(changes, to) ==
    /\ changes.removed \subseteq known
    /\ changes.added \intersect (known \ changes.removed) = {}
    /\ to = (known \ changes.removed) \union changes.added

Tracked(state) ==
    /\ state \in UpdateStates
    /\ IsInjective(state.ut)
    /\ Leads(state.changes, ToSet(state.ut))

\* The transactions are applied to the unconfirmed delta in their order, and valid there.
Applied(state) ==
    /\ state.applied = state.ut
    /\ \A s \in Subs : AreValid(state.ut, ToSet(Confirmed(unconfirmed.delta[s].chain)))

\* The members of a sequence with one more.
LEMMA AppendFacts ==
    ASSUME NEW T, NEW txs \in Seq(T), NEW x \in T
    PROVE  /\ Append(txs, x) \in Seq(T)
           /\ ToSet(Append(txs, x)) = ToSet(txs) \union {x}
           /\ Contains(txs, x) <=> x \in ToSet(txs)
           /\ IsInjective(txs) /\ ~Contains(txs, x) => IsInjective(Append(txs, x))
<1> DEFINE n == Len(txs)
           more == Append(txs, x)
<1>1. /\ n \in Nat /\ DOMAIN txs = 1 .. n /\ more \in Seq(T) /\ DOMAIN more = 1 .. (n + 1) /\ more[n + 1] = x
      /\ \A i \in 1 .. n : more[i] = txs[i]
  OBVIOUS
<1>2. \A i \in 1 .. (n + 1) : i \in 1 .. n \/ i = n + 1
  BY <1>1
<1>3. \A i \in 1 .. n : i \in 1 .. (n + 1)
  BY <1>1
<1>4. n + 1 \in 1 .. (n + 1)
  BY <1>1
<1>5. Contains(txs, x) <=> x \in ToSet(txs)
  BY Zenon, <1>1 DEF Contains, ToSet
<1> HIDE DEF more
<1>6. ToSet(more) = ToSet(txs) \union {x}
  BY Zenon, <1>1, <1>2, <1>3, <1>4 DEF ToSet
<1>7. ASSUME IsInjective(txs), ~Contains(txs, x) PROVE IsInjective(more)
  <2>1. \A i, j \in 1 .. n : txs[i] = txs[j] => i = j
    BY Zenon, <1>1, <1>7 DEF IsInjective
  <2>2. \A i \in 1 .. n : txs[i] # x
    BY Zenon, <1>7 DEF Contains
  <2>3. \A i, j \in 1 .. (n + 1) : more[i] = more[j] => i = j
    BY Zenon, <1>1, <1>2, <2>1, <2>2
  <2> QED
    BY Zenon, <1>1, <2>3 DEF IsInjective
<1> QED
  BY Zenon, <1>1, <1>5, <1>6, <1>7 DEF more

\* A transaction that is valid after the others may follow them.
LEMMA AppendValid ==
    ASSUME NEW txs \in Seq(Txs), NEW x \in Txs, NEW state, AreValid(txs, state), IsValid(x, state \union ToSet(txs))
    PROVE  AreValid(Append(txs, x), state)
<1> DEFINE n == Len(txs)
           more == Append(txs, x)
<1>1. /\ n \in Nat /\ more \in Seq(Txs) /\ Len(more) = n + 1 /\ more[n + 1] = x
      /\ \A i \in 1 .. n : more[i] = txs[i]
  OBVIOUS
<1>2. ASSUME NEW i \in 1 .. (n + 1) PROVE SubSeq(more, 1, i - 1) = SubSeq(txs, 1, i - 1)
  OBVIOUS
<1>3. SubSeq(txs, 1, n) = txs
  OBVIOUS
<1> HIDE DEF more
<1>4. ASSUME NEW i \in 1 .. (n + 1) PROVE IsValid(more[i], state \union ToSet(SubSeq(more, 1, i - 1)))
  <2>1. CASE i = n + 1
    <3>1. SubSeq(more, 1, i - 1) = txs
      BY <1>1, <1>2, <1>3, <2>1
    <3> QED
      BY ZenonT(60), <1>1, <2>1, <3>1
  <2>2. CASE i # n + 1
    <3>1. i \in 1 .. n
      BY <1>1, <2>2
    <3>2. IsValid(txs[i], state \union ToSet(SubSeq(txs, 1, i - 1)))
      BY Zenon, <3>1 DEF AreValid
    <3> QED
      BY ZenonT(60), <1>1, <1>2, <3>1, <3>2
  <2> QED
    BY Zenon, <2>1, <2>2
<1> QED
  BY Zenon, <1>1, <1>4 DEF AreValid, more

\* How the changes are tracked.
LEMMA ChangesTracked ==
    ASSUME NEW changes \in Changes, NEW tx \in Txs
    PROVE  /\ TrackAdd(changes, tx) \in Changes
           /\ TrackAdd(changes, tx).added = IF tx \in changes.removed THEN changes.added ELSE changes.added \union {tx}
           /\ TrackAdd(changes, tx).removed = IF tx \in changes.removed THEN changes.removed \ {tx} ELSE changes.removed
           /\ TrackRemove(changes, tx) \in Changes
           /\ TrackRemove(changes, tx).added = IF tx \in changes.added THEN changes.added \ {tx} ELSE changes.added
           /\ TrackRemove(changes, tx).removed =
                  IF tx \in changes.added THEN changes.removed ELSE changes.removed \union {tx}
<1>1. \A r \in SUBSET Txs :
          /\ [changes EXCEPT !.removed = r] \in Changes
          /\ [changes EXCEPT !.removed = r].removed = r /\ [changes EXCEPT !.removed = r].added = changes.added
  BY DEF Changes
<1>2. \A r \in SUBSET Txs :
          /\ [changes EXCEPT !.added = r] \in Changes
          /\ [changes EXCEPT !.added = r].added = r /\ [changes EXCEPT !.added = r].removed = changes.removed
  BY DEF Changes
<1>3. changes.added \in SUBSET Txs /\ changes.removed \in SUBSET Txs
  BY Zenon DEF Changes
<1>4. ASSUME tx \in changes.removed
      PROVE  /\ TrackAdd(changes, tx) \in Changes /\ TrackAdd(changes, tx).added = changes.added
             /\ TrackAdd(changes, tx).removed = changes.removed \ {tx}
  <2>1. TrackAdd(changes, tx) = [changes EXCEPT !.removed = changes.removed \ {tx}]
    BY Zenon, <1>4 DEF TrackAdd
  <2>2. changes.removed \ {tx} \in SUBSET Txs
    BY Zenon, <1>3
  <2> QED
    BY <1>1, <2>1, <2>2
<1>5. ASSUME tx \notin changes.removed
      PROVE  /\ TrackAdd(changes, tx) \in Changes /\ TrackAdd(changes, tx).added = changes.added \union {tx}
             /\ TrackAdd(changes, tx).removed = changes.removed
  <2>1. TrackAdd(changes, tx) = [changes EXCEPT !.added = changes.added \union {tx}]
    BY Zenon, <1>5 DEF TrackAdd
  <2>2. changes.added \union {tx} \in SUBSET Txs
    BY Zenon, <1>3
  <2> QED
    BY <1>2, <2>1, <2>2
<1>6. ASSUME tx \in changes.added
      PROVE  /\ TrackRemove(changes, tx) \in Changes /\ TrackRemove(changes, tx).added = changes.added \ {tx}
             /\ TrackRemove(changes, tx).removed = changes.removed
  <2>1. TrackRemove(changes, tx) = [changes EXCEPT !.added = changes.added \ {tx}]
    BY Zenon, <1>6 DEF TrackRemove
  <2>2. changes.added \ {tx} \in SUBSET Txs
    BY Zenon, <1>3
  <2> QED
    BY <1>2, <2>1, <2>2
<1>7. ASSUME tx \notin changes.added
      PROVE  /\ TrackRemove(changes, tx) \in Changes /\ TrackRemove(changes, tx).added = changes.added
             /\ TrackRemove(changes, tx).removed = changes.removed \union {tx}
  <2>1. TrackRemove(changes, tx) = [changes EXCEPT !.removed = changes.removed \union {tx}]
    BY Zenon, <1>7 DEF TrackRemove
  <2>2. changes.removed \union {tx} \in SUBSET Txs
    BY Zenon, <1>3
  <2> QED
    BY <1>1, <2>1, <2>2
<1> QED
  BY Zenon, <1>4, <1>5, <1>6, <1>7

\* Two states are the same if their parts are.
LEMMA StatesEqual ==
    ASSUME NEW state \in UpdateStates, NEW other \in UpdateStates, state.ut = other.ut, state.applied = other.applied,
           state.changes.added = other.changes.added, state.changes.removed = other.changes.removed
    PROVE  state = other
<1>1. state.changes = other.changes
  BY DEF UpdateStates, Changes
<1> QED
  BY <1>1 DEF UpdateStates

\* A transaction is added.
LEMMA AddTracked ==
    ASSUME NEW state, Tracked(state), NEW tx \in Txs, CanAddTx(state, tx)
    PROVE  /\ Tracked(AddTx(state, tx))
           /\ AddTx(state, tx).ut = Append(state.ut, tx) /\ AddTx(state, tx).applied = state.applied
           /\ AddTx(state, tx).changes = TrackAdd(state.changes, tx)
<1>1. state \in UpdateStates /\ state.ut \in Seq(Txs) /\ state.changes \in Changes
  BY Zenon DEF Tracked, UpdateStates
<1>2. IsInjective(state.ut) /\ ~Contains(state.ut, tx) /\ Leads(state.changes, ToSet(state.ut))
  BY Zenon DEF Tracked, CanAddTx
<1>3. /\ Append(state.ut, tx) \in Seq(Txs) /\ IsInjective(Append(state.ut, tx))
      /\ ToSet(Append(state.ut, tx)) = ToSet(state.ut) \union {tx} /\ tx \notin ToSet(state.ut)
  BY Zenon, <1>1, <1>2, AppendFacts
<1>4. PICK more : more = AddTx(state, tx)
  BY Zenon
<1>5. PICK changes : changes = TrackAdd(state.changes, tx)
  BY Zenon
<1>6. more = [state EXCEPT !.ut = Append(state.ut, tx), !.changes = changes]
  BY Zenon, <1>4, <1>5 DEF AddTx
<1>7. /\ changes \in Changes
      /\ changes.added = IF tx \in state.changes.removed THEN state.changes.added ELSE state.changes.added \union {tx}
      /\ changes.removed = IF tx \in state.changes.removed THEN state.changes.removed \ {tx} ELSE state.changes.removed
  BY Zenon, <1>1, <1>5, ChangesTracked
<1>8. more \in UpdateStates /\ more.ut = Append(state.ut, tx) /\ more.applied = state.applied /\ more.changes = changes
  <2>1. PICK txs \in Seq(Txs) : txs = Append(state.ut, tx)
    BY Zenon, <1>3
  <2>2. more = [state EXCEPT !.ut = txs, !.changes = changes]
    BY Zenon, <1>6, <2>1
  <2> QED
    BY Zenon, <1>1, <1>7, <2>1, <2>2 DEF UpdateStates
<1>9. Leads(changes, ToSet(Append(state.ut, tx)))
  <2>1. CASE tx \in state.changes.removed
    BY Zenon, <1>2, <1>3, <1>7, <2>1 DEF Leads
  <2>2. CASE tx \notin state.changes.removed
    BY Zenon, <1>2, <1>3, <1>7, <2>2 DEF Leads
  <2> QED
    BY Zenon, <2>1, <2>2
<1>10. Tracked(more)
  BY Zenon, <1>3, <1>8, <1>9 DEF Tracked
<1> QED
  BY Zenon, <1>4, <1>5, <1>8, <1>10

\* A transaction that is added and removed again was never there.
LEMMA RemoveUndoesAdd ==
    ASSUME NEW state, Tracked(state), NEW tx \in Txs, CanAddTx(state, tx)
    PROVE  RemoveTx(AddTx(state, tx), tx) = state
<1>1. state \in UpdateStates /\ state.ut \in Seq(Txs) /\ state.changes \in Changes
  BY DEF Tracked, UpdateStates
<1>2. ~Contains(state.ut, tx) /\ Leads(state.changes, ToSet(state.ut))
  BY Zenon DEF Tracked, CanAddTx
<1>3. PICK more : more = AddTx(state, tx)
  OBVIOUS
<1>4. /\ more \in UpdateStates /\ more.ut = Append(state.ut, tx) /\ more.applied = state.applied
      /\ more.changes = TrackAdd(state.changes, tx)
  BY Zenon, <1>3, AddTracked DEF Tracked
<1>5. Without(more.ut, {tx}) = state.ut /\ tx \notin ToSet(state.ut)
  BY ZenonT(60), <1>1, <1>2, <1>4, WithoutLast, AppendFacts
<1>6. PICK changes : changes = TrackRemove(more.changes, tx)
  BY Zenon
<1>7. PICK less : less = RemoveTx(more, tx)
  BY Zenon
<1>8. less = [more EXCEPT !.ut = state.ut, !.changes = changes]
  BY ZenonT(60), <1>5, <1>6, <1>7 DEF RemoveTx
<1>9. /\ more.changes \in Changes /\ more.changes = TrackAdd(state.changes, tx)
      /\ more.changes.added = IF tx \in state.changes.removed THEN state.changes.added ELSE state.changes.added \union {tx}
      /\ more.changes.removed = IF tx \in state.changes.removed THEN state.changes.removed \ {tx} ELSE state.changes.removed
  <2>1. PICK before \in Changes : before = state.changes
    BY Zenon, <1>1
  <2>2. /\ TrackAdd(before, tx) \in Changes
        /\ TrackAdd(before, tx).added = IF tx \in before.removed THEN before.added ELSE before.added \union {tx}
        /\ TrackAdd(before, tx).removed = IF tx \in before.removed THEN before.removed \ {tx} ELSE before.removed
    BY ZenonT(60), ChangesTracked
  <2>3. PICK after : after = TrackAdd(before, tx)
    BY Zenon
  <2>4. after = more.changes
    BY Zenon, <1>4, <2>1, <2>3
  <2> QED
    BY Zenon, <2>1, <2>2, <2>3, <2>4
<1>10. /\ changes \in Changes
       /\ changes.added = IF tx \in more.changes.added THEN more.changes.added \ {tx} ELSE more.changes.added
       /\ changes.removed = IF tx \in more.changes.added THEN more.changes.removed ELSE more.changes.removed \union {tx}
  BY ZenonT(60), <1>6, <1>9, ChangesTracked
<1>11. tx \notin state.changes.added
  BY Zenon, <1>2, <1>5 DEF Leads
<1>12. changes.added = state.changes.added /\ changes.removed = state.changes.removed
  BY Zenon, <1>9, <1>10, <1>11
<1>13. less \in UpdateStates /\ less.ut = state.ut /\ less.applied = state.applied /\ less.changes = changes
  BY ZenonT(60), <1>1, <1>4, <1>8, <1>10 DEF UpdateStates
<1> QED
  BY ZenonT(60), <1>1, <1>3, <1>7, <1>12, <1>13, StatesEqual

\* The states that an update of a delta that is up to date goes through, and one that adds unseen.
AppliedStates == {state \in UpdateStates : Tracked(state) /\ Applied(state)}
TrackedStates == {state \in UpdateStates : Tracked(state)}

\* One round of apply.
LEMMA ApplyTxApplies ==
    ASSUME NEW state \in AppliedStates, NEW tx \in Txs, NEW source
    PROVE  ApplyTx(state, tx, source) \subseteq AppliedStates
<1>1. Tracked(state) /\ Applied(state)
  BY Zenon DEF AppliedStates
<1>2. Execute(state, tx) \in AppliedStates
  <2>1. CASE ~CanAddTx(state, tx)
    BY Zenon, <2>1 DEF Execute
  <2>2. CASE CanAddTx(state, tx) /\ ~IsValidOn(tx, unconfirmed.delta, state.applied)
    <3>1. Execute(state, tx) = RemoveTx(AddTx(state, tx), tx)
      BY Zenon, <2>2 DEF Execute
    <3> QED
      BY Zenon, <1>1, <2>2, <3>1, RemoveUndoesAdd
  <2>3. CASE CanAddTx(state, tx) /\ IsValidOn(tx, unconfirmed.delta, state.applied)
    <3>1. Execute(state, tx) = [AddTx(state, tx) EXCEPT !.applied = Append(@, tx)]
      BY Zenon, <2>3 DEF Execute
    <3>2. PICK more : more = AddTx(state, tx)
      BY Zenon
    <3>3. Tracked(more) /\ more.ut = Append(state.ut, tx) /\ more.applied = state.applied
      BY Zenon, <1>1, <2>3, <3>2, AddTracked
    <3>4. more \in UpdateStates /\ state.applied = state.ut /\ state.ut \in Seq(Txs)
      BY ZenonT(60), <1>1, <3>3 DEF Tracked, Applied, UpdateStates
    <3>5. PICK result : result = [more EXCEPT !.applied = Append(@, tx)]
      BY Zenon
    <3>6. /\ result \in UpdateStates /\ result.ut = more.ut /\ result.changes = more.changes
          /\ result.applied = Append(state.ut, tx)
      BY ZenonT(60), <3>3, <3>4, <3>5 DEF UpdateStates
    <3>7. Tracked(result)
      BY Zenon, <3>3, <3>6 DEF Tracked
    <3>8. ASSUME NEW s \in Subs PROVE AreValid(result.ut, ToSet(Confirmed(unconfirmed.delta[s].chain)))
      <4>1. AreValid(state.ut, ToSet(Confirmed(unconfirmed.delta[s].chain)))
        BY Zenon, <1>1 DEF Applied
      <4>2. IsValid(tx, ToSet(Confirmed(unconfirmed.delta[s].chain)) \union ToSet(state.ut))
        BY Zenon, <2>3, <3>4 DEF IsValidOn
      <4> QED
        BY Zenon, <3>3, <3>4, <3>6, <4>1, <4>2, AppendValid
    <3>9. Applied(result)
      BY Zenon, <3>3, <3>6, <3>8 DEF Applied
    <3> QED
      BY ZenonT(60), <3>1, <3>2, <3>5, <3>6, <3>7, <3>9 DEF AppliedStates
  <2> QED
    BY Zenon, <2>1, <2>2, <2>3
<1> QED
  BY Zenon, <1>2 DEF ApplyTx

\* What Apply goes through.
IsApplied(results, states, txs, source) ==
    results = [i \in 0 .. Len(txs) |->
        IF i = 0 THEN states ELSE UNION {ApplyTx(st, txs[i], source) : st \in results[i - 1]}]

\* All rounds of apply keep to the states that each of them keeps to.
LEMMA ApplyApplies ==
    ASSUME NEW states \in SUBSET AppliedStates, NEW txs \in Seq(Txs), NEW source
    PROVE  Apply(states, txs, source) \in SUBSET AppliedStates
<1> DEFINE n == Len(txs)
           V == SUBSET AppliedStates
           Round(i, sts) == UNION {ApplyTx(st, txs[i], source) : st \in sts}
           F == [p \in (1 .. n) \X V |-> Round(p[1], p[2])]
           c == CHOOSE results : IsApplied(results, states, txs, source)
           S == {m \in Nat : m <= n => c[m] \in V}
<1>1. n \in Nat /\ \A i \in 1 .. n : txs[i] \in Txs
  OBVIOUS
<1>2. \A i \in 1 .. n, sts \in V : Round(i, sts) \in V
  <2> SUFFICES ASSUME NEW i \in 1 .. n, NEW sts \in V, NEW st \in sts PROVE ApplyTx(st, txs[i], source) \subseteq AppliedStates
    BY Zenon
  <2> QED
    BY Zenon, <1>1, ApplyTxApplies
<1>3. \A i \in 1 .. n, sts \in V : F[<<i, sts>>] = Round(i, sts)
  <2> HIDE DEF Round, V
  <2> QED
    BY Zenon
<1>4. F \in [(1 .. n) \X V -> V]
  <2> HIDE DEF Round, V
  <2> QED
    BY Zenon, <1>2
<1>5. PICK f \in [0 .. n -> V] : Repeats(f, n, states, F)
  <2>1. states \in V
    BY Zenon
  <2> HIDE DEF F, n, V
  <2> QED
    BY Zenon, <1>1, <1>4, <2>1, RepeatsExists
<1>6. \A i \in 0 .. n : f[i] = IF i = 0 THEN states ELSE Round(i, f[i - 1])
  <2> SUFFICES ASSUME NEW i \in 0 .. n, i # 0 PROVE f[i] = Round(i, f[i - 1])
    BY Zenon, <1>5 DEF Repeats
  <2> HIDE DEF F, V, Round
  <2>1. i \in 1 .. n /\ f[i - 1] \in V
    BY <1>1, <1>5
  <2>2. f[i] = F[<<i, f[i - 1]>>]
    BY Zenon, <1>5, <2>1 DEF Repeats
  <2> QED
    BY Zenon, <1>3, <2>1, <2>2
<1>7. IsApplied(f, states, txs, source)
  <2>1. f = [i \in 0 .. n |-> IF i = 0 THEN states ELSE Round(i, f[i - 1])]
    <3> HIDE DEF Round, V
    <3> QED
      BY Zenon, <1>5, <1>6
  <2> QED
    BY Zenon, <2>1 DEF IsApplied
<1>8. IsApplied(c, states, txs, source)
  BY Zenon, <1>7
<1>9. Apply(states, txs, source) = c[n]
  BY Zenon DEF Apply, IsApplied
<1> HIDE DEF c
<1>10. \A i \in 0 .. n : c[i] = IF i = 0 THEN states ELSE Round(i, c[i - 1])
  BY Zenon, <1>8 DEF IsApplied
<1> HIDE DEF Round
<1>11. 0 \in S
  BY <1>1, <1>10
<1>12. ASSUME NEW m \in 1 .. n, m - 1 \in S PROVE m \in S
  <2>1. m - 1 <= n /\ m \in 0 .. n /\ m # 0 /\ m \in Nat
    BY <1>1
  <2>2. c[m - 1] \in V
    BY Zenon, <1>12, <2>1
  <2>3. c[m] \in V
    BY Zenon, <1>2, <1>10, <2>1, <2>2
  <2> QED
    BY Zenon, <2>1, <2>3
<1>13. n \in S
  <2>1. n \in 0 .. n
    BY <1>1
  <2> HIDE DEF S, n
  <2> QED
    BY Zenon, <1>1, <1>11, <1>12, <2>1, InductUpTo
<1> QED
  BY <1>1, <1>9, <1>13

\* What AddAll goes through.
IsAddedTo(results, state, txs) ==
    results = [i \in 0 .. Len(txs) |->
        IF i = 0 THEN state
        ELSE IF CanAddTx(results[i - 1], txs[i]) THEN AddTx(results[i - 1], txs[i]) ELSE results[i - 1]]

\* Adding transactions unseen keeps the cache and the subscriber in step.
LEMMA AddAllTracks ==
    ASSUME NEW state \in TrackedStates, NEW txs \in Seq(Txs)
    PROVE  AddAll(state, txs) \in TrackedStates
<1> DEFINE n == Len(txs)
           V == TrackedStates
           Round(i, st) == IF CanAddTx(st, txs[i]) THEN AddTx(st, txs[i]) ELSE st
           F == [p \in (1 .. n) \X V |-> Round(p[1], p[2])]
           c == CHOOSE results : IsAddedTo(results, state, txs)
           S == {m \in Nat : m <= n => c[m] \in V}
<1>1. n \in Nat /\ \A i \in 1 .. n : txs[i] \in Txs
  OBVIOUS
<1>2. \A i \in 1 .. n, st \in V : Round(i, st) \in V
  <2> SUFFICES ASSUME NEW i \in 1 .. n, NEW st \in V, CanAddTx(st, txs[i]) PROVE AddTx(st, txs[i]) \in V
    BY Zenon
  <2>1. Tracked(AddTx(st, txs[i]))
    BY Zenon, <1>1, AddTracked DEF TrackedStates
  <2> QED
    BY Zenon, <2>1 DEF TrackedStates, Tracked
<1>3. \A i \in 1 .. n, st \in V : F[<<i, st>>] = Round(i, st)
  <2> HIDE DEF Round, V
  <2> QED
    BY Zenon
<1>4. F \in [(1 .. n) \X V -> V]
  <2> HIDE DEF Round, V
  <2> QED
    BY Zenon, <1>2
<1>5. PICK f \in [0 .. n -> V] : Repeats(f, n, state, F)
  <2>1. state \in V
    BY Zenon
  <2> HIDE DEF F, n, V
  <2> QED
    BY Zenon, <1>1, <1>4, <2>1, RepeatsExists
<1>6. \A i \in 0 .. n : f[i] = IF i = 0 THEN state ELSE Round(i, f[i - 1])
  <2> SUFFICES ASSUME NEW i \in 0 .. n, i # 0 PROVE f[i] = Round(i, f[i - 1])
    BY Zenon, <1>5 DEF Repeats
  <2> HIDE DEF F, V, Round
  <2>1. i \in 1 .. n /\ f[i - 1] \in V
    BY <1>1, <1>5
  <2>2. f[i] = F[<<i, f[i - 1]>>]
    BY Zenon, <1>5, <2>1 DEF Repeats
  <2> QED
    BY Zenon, <1>3, <2>1, <2>2
<1>7. IsAddedTo(f, state, txs)
  <2>1. f = [i \in 0 .. n |-> IF i = 0 THEN state ELSE Round(i, f[i - 1])]
    <3> HIDE DEF Round, V
    <3> QED
      BY <1>5, <1>6
  <2> QED
    BY Zenon, <2>1 DEF IsAddedTo
<1>8. IsAddedTo(c, state, txs)
  BY Zenon, <1>7
<1>9. AddAll(state, txs) = c[n]
  BY Zenon DEF AddAll, IsAddedTo
<1> HIDE DEF c
<1>10. \A i \in 0 .. n : c[i] = IF i = 0 THEN state ELSE Round(i, c[i - 1])
  BY Zenon, <1>8 DEF IsAddedTo
<1> HIDE DEF Round
<1>11. 0 \in S
  BY <1>1, <1>10
<1>12. ASSUME NEW m \in 1 .. n, m - 1 \in S PROVE m \in S
  <2>1. m - 1 <= n /\ m \in 0 .. n /\ m # 0 /\ m \in Nat
    BY <1>1
  <2>2. c[m - 1] \in V
    BY Zenon, <1>12, <2>1
  <2>3. c[m] \in V
    BY Zenon, <1>2, <1>10, <2>1, <2>2
  <2> QED
    BY <2>1, <2>3
<1>13. n \in S
  <2>1. n \in 0 .. n
    BY <1>1
  <2> HIDE DEF S, n
  <2> QED
    BY Zenon, <1>1, <1>11, <1>12, <2>1, InductUpTo
<1> QED
  BY <1>1, <1>9, <1>13

-----------------------------------------------------------------------------
(* The state of the unconfirmed transactions                               *)

\* What the node keeps of chains and transactions.
NodeTyped ==
    /\ chain \in Seq(BlockRecords)
    /\ sync.common \in 0 .. Len(chain) /\ sync.blocks \in Seq(BlockRecords) /\ sync.reverted \in Seq(Txs)
    /\ batch \in Seq(Txs) /\ ut \in Seq(Txs) /\ unconfirmed.applied \in Seq(Txs)

\* What the harvester keeps of them.
HarvestTyped ==
    /\ parent \in Seq(BlockRecords) /\ facade.applied \in Seq(Txs)
    /\ element.parent \in Seq(BlockRecords) /\ element.block \in BlockRecords

\* All unconfirmed transactions are applied to the unconfirmed delta, and valid there.
UnconfirmedApplied ==
    /\ unconfirmed.applied = ut
    /\ \A s \in Subs : AreValid(ut, ToSet(Confirmed(unconfirmed.delta[s].chain)))

\* The subscriber knows the unconfirmed transactions, which are applied to a delta that is current, unless a block update
\* has just rebased it; whoever adds transactions unseen adds them to a delta that is not.
UnconfirmedInv ==
    /\ known = ToSet(ut) /\ IsInjective(ut)
    /\ caches = [s \in Subs |-> caches[s]] /\ unconfirmed.delta = [s \in Subs |-> unconfirmed.delta[s]]
    /\ at["block"][1] = "apply" => unconfirmed.delta = caches /\ unconfirmed.applied = <<>>
    /\ at["block"][1] # "apply" /\ IsCurrent(unconfirmed.delta) => UnconfirmedApplied
    /\ at["new"][1] = "stale" => ~IsCurrent(unconfirmed.delta)

\* The transactions that an update ends with.
LEMMA FinishTells ==
    ASSUME NEW state \in TrackedStates, Finish(state), unconfirmed = [delta |-> unconfirmed.delta, applied |-> unconfirmed.applied]
    PROVE  /\ ut' = state.ut /\ state.ut \in Seq(Txs) /\ IsInjective(state.ut) /\ known' = ToSet(state.ut)
           /\ unconfirmed'.delta = unconfirmed.delta /\ unconfirmed'.applied = state.applied /\ state.applied \in Seq(Txs)
<1>1. Tracked(state) /\ state \in UpdateStates
  BY Zenon DEF TrackedStates
<1>2. state.ut \in Seq(Txs) /\ state.applied \in Seq(Txs) /\ IsInjective(state.ut)
  BY Zenon, <1>1 DEF Tracked, UpdateStates
<1>3. known' = ToSet(state.ut)
  BY Zenon, <1>1 DEF Finish, Tracked, Leads
<1>4. unconfirmed'.delta = unconfirmed.delta /\ unconfirmed'.applied = state.applied
  BY Zenon DEF Finish
<1> QED
  BY Zenon, <1>2, <1>3, <1>4 DEF Finish

\* The state that an update starts with.
LEMMA StartTracked ==
    ASSUME NEW txs \in Seq(Txs), NEW applied \in Seq(Txs), NEW removed \in SUBSET Txs, IsInjective(txs),
           removed \subseteq known, ToSet(txs) = known \ removed
    PROVE  /\ Start(txs, applied, removed) \in TrackedStates
           /\ Start(txs, applied, removed).ut = txs /\ Start(txs, applied, removed).applied = applied
<1>1. PICK state : state = Start(txs, applied, removed)
  BY Zenon
<1>2. /\ state.ut = txs /\ state.applied = applied /\ state.changes.added = {} /\ state.changes.removed = removed
      /\ state \in UpdateStates
  <2>1. state = [ut |-> txs, applied |-> applied, changes |-> [added |-> {}, removed |-> removed]]
    BY Zenon, <1>1 DEF Start
  <2>2. [added |-> {}, removed |-> removed] \in Changes
    BY Zenon DEF Changes
  <2> QED
    BY Zenon, <2>1, <2>2 DEF UpdateStates
<1>3. Leads(state.changes, ToSet(state.ut))
  BY Zenon, <1>2 DEF Leads
<1> QED
  BY Zenon, <1>1, <1>2, <1>3 DEF TrackedStates, Tracked

\* What holds of the empty sequence.
LEMMA NoTransactions ==
    /\ <<>> \in Seq(Txs) /\ IsInjective(<<>>) /\ ToSet(<<>>) = {}
    /\ \A state : AreValid(<<>>, state)
<1>1. <<>> \in Seq(Txs) /\ Len(<<>>) = 0 /\ DOMAIN <<>> = {}
  OBVIOUS
<1>2. \A i \in 1 .. 0 : FALSE
  OBVIOUS
<1>3. IsInjective(<<>>) /\ ToSet(<<>>) = {}
  BY Zenon, <1>1 DEF IsInjective, ToSet
<1> QED
  BY Zenon, <1>1, <1>2, <1>3 DEF AreValid

\* Only one thread updates the unconfirmed transactions.
LEMMA OneUpdates ==
    ASSUME LocksExclusive, GuardsFollow, at["new"][1] \in {"tryLock", "apply", "stale"}
    PROVE  at["block"][1] \notin {"rebase", "apply"}
<1>1. guards["new"]["ut"] = "writer"
  BY Zenon, LockNames DEF GuardsFollow, NewGuard
<1>2. ASSUME at["block"][1] \in {"rebase", "apply"} PROVE guards["block"]["ut"] = "writer"
  BY Zenon, <1>2, LockNames DEF GuardsFollow, BlockGuard
<1> QED
  BY Zenon, <1>1, <1>2, WriterAlone, LockNames DEF Threads, Exclusive

\* New transactions are applied to a delta that is current, which all others are applied to.
LEMMA NewApplies ==
    ASSUME NodeTyped, UnconfirmedInv, DeltaInv, GuardsFollow, LocksExclusive, NewApply
    PROVE  \E state \in AppliedStates : Finish(state)
<1>1. at["new"][1] = "apply"
  BY Zenon DEF NewApply, At
<1>2. at["block"][1] # "apply"
  BY Zenon, <1>1, OneUpdates
<1>3. LockedBefore(at["new"][1], at["new"][2]) = Subs
  BY Zenon, <1>1 DEF LockedBefore
<1>4. IsCurrent(unconfirmed.delta)
  BY Zenon, <1>3 DEF DeltaInv, UnconfirmedDeltaOld, IsCurrent
<1>5. UnconfirmedApplied
  BY Zenon, <1>2, <1>4 DEF UnconfirmedInv
<1>6. PICK first : first = Start(ut, unconfirmed.applied, {})
  BY Zenon
<1>7. first \in TrackedStates /\ first.ut = ut /\ first.applied = unconfirmed.applied
  <2>1. known = ToSet(ut) /\ IsInjective(ut) /\ ut \in Seq(Txs) /\ unconfirmed.applied \in Seq(Txs)
    BY Zenon DEF UnconfirmedInv, NodeTyped
  <2>2. {} \in SUBSET Txs /\ {} \subseteq known /\ ToSet(ut) = known \ {}
    BY Zenon, <2>1
  <2> QED
    BY <1>6, <2>1, <2>2, StartTracked
<1>8. first \in AppliedStates
  BY Zenon, <1>5, <1>7 DEF UnconfirmedApplied, AppliedStates, TrackedStates, Applied
<1>9. Apply({first}, batch, "New") \in SUBSET AppliedStates
  <2>1. {first} \in SUBSET AppliedStates /\ batch \in Seq(Txs)
    BY Zenon, <1>8 DEF NodeTyped
  <2> QED
    BY Zenon, <2>1, ApplyApplies
<1>10. \E state \in Apply({first}, batch, "New") : Finish(state)
  BY Zenon, <1>6 DEF NewApply
<1> QED
  BY Zenon, <1>9, <1>10

\* A block update applies to the rebased delta all that it keeps.
LEMMA UpdateApplies ==
    ASSUME NodeTyped, UnconfirmedInv, UpdateApply
    PROVE  \E state \in AppliedStates : Finish(state)
<1>1. PICK first : first = Start(<<>>, <<>>, ToSet(ut))
  BY Zenon
<1>2. first \in TrackedStates /\ first.ut = <<>> /\ first.applied = <<>>
  <2>1. known = ToSet(ut) /\ ToSet(ut) \in SUBSET Txs
    BY DEF UnconfirmedInv, NodeTyped, ToSet
  <2>2. ToSet(ut) \subseteq known /\ ToSet(<<>>) = known \ ToSet(ut)
    BY Zenon, <2>1, NoTransactions
  <2> QED
    BY Zenon, <1>1, <2>1, <2>2, NoTransactions, StartTracked
<1>3. first \in AppliedStates
  BY Zenon, <1>2, NoTransactions DEF AppliedStates, TrackedStates, Applied
<1>4. PICK gone : gone = ToSet(Confirmed(sync.blocks))
  BY Zenon
<1>5. PICK existing \in Seq(Txs) : existing = Without(ut, gone)
  BY Zenon, WithoutType DEF NodeTyped
<1>6. Reverted \in Seq(Txs)
  BY Zenon, WithoutType DEF NodeTyped, Reverted
<1>7. Apply({first}, Reverted, "Reverted") \in SUBSET AppliedStates
  <2>1. {first} \in SUBSET AppliedStates
    BY Zenon, <1>3
  <2> QED
    BY Zenon, <1>6, <2>1, ApplyApplies
<1>8. Apply(Apply({first}, Reverted, "Reverted"), existing, "Existing") \in SUBSET AppliedStates
  BY ZenonT(60), <1>7, ApplyApplies
<1>9. AddBack({first}) = Apply(Apply({first}, Reverted, "Reverted"), existing, "Existing")
  BY ZenonT(60), <1>4, <1>5 DEF AddBack
<1>10. \E state \in AddBack({first}) : Finish(state)
  BY Zenon, <1>1 DEF UpdateApply
<1> QED
  BY ZenonT(60), <1>8, <1>9, <1>10

\* New transactions that are added unseen.
LEMMA NewAdds ==
    ASSUME NodeTyped, UnconfirmedInv, NewAddAll
    PROVE  \E state \in TrackedStates : Finish(state)
<1>1. PICK first : first = Start(ut, unconfirmed.applied, {})
  BY Zenon
<1>2. first \in TrackedStates
  <2>1. known = ToSet(ut) /\ IsInjective(ut) /\ ut \in Seq(Txs) /\ unconfirmed.applied \in Seq(Txs)
    BY Zenon DEF UnconfirmedInv, NodeTyped
  <2>2. {} \in SUBSET Txs /\ {} \subseteq known /\ ToSet(ut) = known \ {}
    BY Zenon, <2>1
  <2> QED
    BY ZenonT(60), <1>1, <2>1, <2>2, StartTracked
<1>3. AddAll(first, batch) \in TrackedStates
  BY Zenon, <1>2, AddAllTracks DEF NodeTyped
<1>4. Finish(AddAll(first, batch))
  BY Zenon, <1>1 DEF NewAddAll
<1> QED
  BY Zenon, <1>3, <1>4

\* A step that has no part in the unconfirmed transactions.
LEMMA QuietUnconfirmed ==
    ASSUME UnconfirmedInv, UNCHANGED <<ut, known, unconfirmed, caches>>,
           at'["block"][1] = "apply" <=> at["block"][1] = "apply", at'["new"][1] = "stale" => at["new"][1] = "stale"
    PROVE  UnconfirmedInv'
<1>1. IsCurrent(unconfirmed.delta)' <=> IsCurrent(unconfirmed.delta)
  BY Zenon DEF IsCurrent
<1>2. UnconfirmedApplied => UnconfirmedApplied'
  BY Zenon DEF UnconfirmedApplied
<1> QED
  BY Zenon, <1>1, <1>2 DEF UnconfirmedInv

\* The steps of the block dispatcher.
LEMMA BlockKeepsUnconfirmed ==
    ASSUME NodeTyped, UnconfirmedInv, DeltaInv, GuardsFollow, LocksExclusive, BlockStep
    PROVE  UnconfirmedInv'
<1>1. /\ at'["new"] = at["new"]
  BY Zenon DEF GuardsFollow, Threads, BlockStep, Process, Refuse, LockStorage, CommitCache, Commit, CommitMarkHeight,
      CommitLockHeight, CommitPromote, CommitSub, CommitReleaseSub, CommitSetHeight, CommitStorage, UpdateMarkUt, UpdateLockUt,
      RebaseAndLock, UpdateApply, Goto
<1>2. CASE Process \/ Refuse \/ LockStorage \/ CommitStorage \/ UpdateMarkUt \/ UpdateLockUt
  <2>1. PICK label \in Labels \ {"apply"} : at' = [at EXCEPT !["block"] = <<label, 1>>]
    BY ZenonT(60), <1>2 DEF Process, Refuse, LockStorage, CommitStorage, UpdateMarkUt, UpdateLockUt, Labels, Goto
  <2>2. at["block"][1] # "apply" /\ UNCHANGED <<ut, known, unconfirmed, caches>>
    BY ZenonT(60), <1>2 DEF Process, Refuse, LockStorage, CommitStorage, UpdateMarkUt, UpdateLockUt, At, cacheVars, utVars
  <2>3. at'["block"][1] # "apply"
    BY ZenonT(60), <2>1 DEF GuardsFollow, Threads
  <2> QED
    BY ZenonT(60), <1>1, <2>2, <2>3, QuietUnconfirmed
<1>3. CASE /\ UNCHANGED utVars
           /\ CommitMarkHeight("block") \/ CommitLockHeight("block") \/ CommitPromote("block") \/ CommitReleaseSub("block")
              \/ CommitSetHeight("block", NewChain)
  <2>1. at["block"][1] # "apply" /\ UNCHANGED <<ut, known, unconfirmed, caches>>
    BY Zenon, <1>3 DEF CommitMarkHeight, CommitLockHeight, CommitPromote, CommitReleaseSub, CommitSetHeight, At, cacheVars, utVars
  <2>2. \E label \in Labels \ {"apply"} : \E k : at' = [at EXCEPT !["block"] = <<label, k>>]
    BY ZenonT(60), <1>3 DEF CommitMarkHeight, CommitLockHeight, CommitPromote, CommitReleaseSub, CommitSetHeight, Labels, Goto
  <2>3. at'["block"][1] # "apply"
    BY <2>2 DEF GuardsFollow, Threads
  <2> QED
    BY Zenon, <1>1, <2>1, <2>3, QuietUnconfirmed
<1>4. CASE UNCHANGED utVars /\ CommitSub("block", NewChain)
  <2>1. PICK k \in 1 .. Len(SubCaches) : k = at["block"][2]
    BY Zenon DEF GuardsFollow, Threads
  <2>2. /\ at' = [at EXCEPT !["block"] = <<"releaseSub", k>>] /\ at["block"][1] = "commitSub"
        /\ caches' = [caches EXCEPT ![SubCaches[k]] = [commits |-> caches[SubCaches[k]].commits + 1, chain |-> NewChain]]
        /\ UNCHANGED <<ut, known, unconfirmed>>
    BY Zenon, <1>4, <2>1 DEF CommitSub, At, Sub, utVars
  <2>3. at'["block"][1] = "releaseSub"
    BY Zenon, <2>2 DEF GuardsFollow, Threads
  <2>4. SubCaches[k] \in Subs /\ DOMAIN caches = Subs /\ caches[SubCaches[k]].commits \in Nat
    BY Zenon, Rounds DEF DeltaInv, CachesInStep
  <2>5. caches'[SubCaches[k]].commits = caches[SubCaches[k]].commits + 1 /\ caches' = [s \in Subs |-> caches'[s]]
    BY ZenonT(60), <2>2, <2>4
  <2>6. /\ unconfirmed.delta[SubCaches[k]].commits \in Nat
        /\ unconfirmed.delta[SubCaches[k]].commits <= caches[SubCaches[k]].commits
    BY Zenon, <2>4 DEF DeltaInv, UnconfirmedDeltaOld
  <2>7. unconfirmed'.delta[SubCaches[k]].commits # caches'[SubCaches[k]].commits
    BY <2>2, <2>4, <2>5, <2>6
  <2>8. ~IsCurrent(unconfirmed.delta)'
    BY Zenon, <2>4, <2>7 DEF IsCurrent
  <2> QED
    BY Zenon, <2>2, <2>3, <2>5, <2>8 DEF UnconfirmedInv
<1>5. CASE RebaseAndLock
  <2>1. /\ at["block"][1] = "rebase" /\ at' = [at EXCEPT !["block"] = <<"apply", 1>>] /\ UNCHANGED <<ut, known, caches>>
        /\ unconfirmed' = [delta |-> caches, applied |-> <<>>]
    BY Zenon, <1>5 DEF RebaseAndLock, At, Goto, cacheVars
  <2>2. at'["block"][1] = "apply"
    BY Zenon, <2>1 DEF GuardsFollow, Threads
  <2>3. at["new"][1] # "stale"
    BY Zenon, <2>1, OneUpdates
  <2> QED
    BY Zenon, <1>1, <2>1, <2>2, <2>3 DEF UnconfirmedInv
<1>6. CASE UpdateApply
  <2>1. at["block"][1] = "apply" /\ at' = [at EXCEPT !["block"] = <<"idle", 1>>] /\ caches' = caches
    BY Zenon, <1>6 DEF UpdateApply, At, Goto, cacheVars
  <2>2. at'["block"][1] = "idle" /\ at["new"][1] # "stale"
    BY Zenon, <2>1, OneUpdates DEF GuardsFollow, Threads
  <2>3. PICK state \in AppliedStates : Finish(state)
    BY Zenon, <1>6, UpdateApplies
  <2>4. state \in TrackedStates /\ Applied(state)
    BY Zenon, <2>3 DEF AppliedStates, TrackedStates
  <2>5. /\ ut' = state.ut /\ IsInjective(state.ut) /\ known' = ToSet(state.ut)
        /\ unconfirmed'.delta = unconfirmed.delta /\ unconfirmed'.applied = state.applied
    BY Zenon, <2>3, <2>4, FinishTells DEF DeltaInv, UnconfirmedDeltaOld
  <2>6. UnconfirmedApplied'
    BY Zenon, <2>4, <2>5 DEF UnconfirmedApplied, Applied
  <2> QED
    BY ZenonT(60), <1>1, <2>1, <2>2, <2>5, <2>6 DEF UnconfirmedInv
<1> QED
  BY ZenonT(60), <1>2, <1>3, <1>4, <1>5, <1>6 DEF BlockStep, CommitCache, Commit

\* The steps of the thread that adds new transactions.
LEMMA NewKeepsUnconfirmed ==
    ASSUME NodeTyped, UnconfirmedInv, DeltaInv, GuardsFollow, LocksExclusive, NewStep \/ \E txs \in NewBatches : NewMarkUt(txs)
    PROVE  UnconfirmedInv'
<1>1. at'["block"] = at["block"]
  BY Zenon DEF GuardsFollow, Threads, NewStep, NewMarkUt, NewLockUt, NewTryLock, TryLock, NextSub, NewApply, NewAddAll, Goto
<1>2. ASSUME NEW label \in Labels \ {"stale"}, at' = [at EXCEPT !["new"] = <<label, 1>>], UNCHANGED <<utVars, caches>>
      PROVE  UnconfirmedInv'
  <2>1. at'["new"][1] # "stale"
    BY Zenon, <1>2 DEF GuardsFollow, Threads
  <2> QED
    BY ZenonT(60), <1>1, <1>2, <2>1, QuietUnconfirmed DEF utVars
<1>3. ASSUME NEW txs, NewMarkUt(txs) PROVE UnconfirmedInv'
  BY Zenon, <1>2, <1>3 DEF NewMarkUt, Goto, Labels, cacheVars
<1>4. ASSUME NewLockUt PROVE UnconfirmedInv'
  BY ZenonT(60), <1>2, <1>4 DEF NewLockUt, Goto, Labels, cacheVars
<1>5. ASSUME NewTryLock PROVE UnconfirmedInv'
  <2>1. PICK k \in 1 .. Len(SubCaches) : k = at["new"][2]
    BY Zenon DEF GuardsFollow, Threads
  <2>2. /\ at["new"][1] = "tryLock" /\ UNCHANGED <<ut, known, unconfirmed, caches>>
        /\ \/ NextSub("new", "apply")
           \/ /\ unconfirmed.delta[SubCaches[k]].commits # caches[SubCaches[k]].commits
              /\ at' = [at EXCEPT !["new"] = <<"stale", 1>>]
    BY Zenon, <1>5, <2>1 DEF NewTryLock, TryLock, At, Goto, Sub, cacheVars, utVars
  <2>3. CASE NextSub("new", "apply")
    <3>1. at'["new"][1] # "stale"
      BY <2>2, <2>3 DEF NextSub, Goto, GuardsFollow, Threads
    <3> QED
      BY Zenon, <1>1, <2>2, <3>1, QuietUnconfirmed
  <2>4. CASE unconfirmed.delta[SubCaches[k]].commits # caches[SubCaches[k]].commits
    <3>1. ~IsCurrent(unconfirmed.delta) /\ ~IsCurrent(unconfirmed.delta)'
      BY Zenon, <2>2, <2>4, Rounds DEF IsCurrent
    <3> QED
      BY Zenon, <1>1, <2>2, <3>1 DEF UnconfirmedInv
  <2> QED
    BY Zenon, <2>2, <2>3, <2>4
<1>6. ASSUME NewApply PROVE UnconfirmedInv'
  <2>1. at["new"][1] = "apply" /\ at' = [at EXCEPT !["new"] = <<"idle", 1>>] /\ caches' = caches
    BY Zenon, <1>6 DEF NewApply, At, Goto, cacheVars
  <2>2. at'["new"][1] = "idle" /\ at["block"][1] # "apply"
    BY Zenon, <2>1, OneUpdates DEF GuardsFollow, Threads
  <2>3. PICK state \in AppliedStates : Finish(state)
    BY Zenon, <1>6, NewApplies
  <2>4. state \in TrackedStates /\ Applied(state)
    BY Zenon, <2>3 DEF AppliedStates, TrackedStates
  <2>5. /\ ut' = state.ut /\ IsInjective(state.ut) /\ known' = ToSet(state.ut)
        /\ unconfirmed'.delta = unconfirmed.delta /\ unconfirmed'.applied = state.applied
    BY ZenonT(60), <2>3, <2>4, FinishTells DEF DeltaInv, UnconfirmedDeltaOld
  <2>6. UnconfirmedApplied'
    BY Zenon, <2>4, <2>5 DEF UnconfirmedApplied, Applied
  <2> QED
    BY Zenon, <1>1, <2>1, <2>2, <2>5, <2>6 DEF UnconfirmedInv
<1>7. ASSUME NewAddAll PROVE UnconfirmedInv'
  <2>1. at["new"][1] = "stale" /\ at' = [at EXCEPT !["new"] = <<"idle", 1>>] /\ caches' = caches
    BY Zenon, <1>7 DEF NewAddAll, At, Goto, cacheVars
  <2>2. at'["new"][1] = "idle" /\ at["block"][1] # "apply"
    BY Zenon, <2>1, OneUpdates DEF GuardsFollow, Threads
  <2>3. PICK state \in TrackedStates : Finish(state)
    BY Zenon, <1>7, NewAdds
  <2>4. /\ ut' = state.ut /\ IsInjective(state.ut) /\ known' = ToSet(state.ut)
        /\ unconfirmed'.delta = unconfirmed.delta
    BY Zenon, <2>3, FinishTells DEF DeltaInv, UnconfirmedDeltaOld
  <2>5. ~IsCurrent(unconfirmed.delta)'
    BY Zenon, <2>1, <2>4 DEF UnconfirmedInv, IsCurrent
  <2> QED
    BY ZenonT(60), <1>1, <2>1, <2>2, <2>4, <2>5 DEF UnconfirmedInv
<1> QED
  BY ZenonT(60), <1>3, <1>4, <1>5, <1>6, <1>7 DEF NewStep

\* One step of any thread.
LEMMA UnconfirmedAlways ==
    ASSUME NodeTyped, UnconfirmedInv, DeltaInv, GuardsFollow, LocksExclusive, [Next]_vars
    PROVE  UnconfirmedInv'
<1>1. ASSUME UNCHANGED <<at, utVars, caches>> PROVE UnconfirmedInv'
  BY Zenon, <1>1, QuietUnconfirmed DEF utVars
<1>2. ASSUME NEW common, NEW blocks, NEW isLocal, Preprocess(common, blocks, isLocal) PROVE UnconfirmedInv'
  <2>1. /\ at["block"][1] = "idle" /\ at' = [at EXCEPT !["block"] = <<"process", 1>>]
        /\ UNCHANGED <<ut, known, unconfirmed, caches>>
    BY Zenon, <1>2 DEF Preprocess, At, Goto, cacheVars, utVars
  <2>2. at'["new"] = at["new"] /\ at'["block"][1] = "process"
    BY Zenon, <2>1 DEF GuardsFollow, Threads
  <2> QED
    BY ZenonT(60), <2>1, <2>2, QuietUnconfirmed
<1>3. CASE ReadLastBlock \/ HarvestStep
  <2>1. /\ at'["new"] = at["new"] /\ at'["block"] = at["block"]
    BY Zenon, <1>3 DEF GuardsFollow, Threads, HarvestStep, ReadLastBlock, OpenFacade, Detach, FacadeTryLock, TryLock, NextSub,
        CheckHeight, SelectTransactions, BuildBlock, ReadImportanceHash, Push, Goto
  <2>2. UNCHANGED <<ut, known, unconfirmed, caches>>
    BY Zenon, <1>3 DEF HarvestStep, ReadLastBlock, OpenFacade, Detach, FacadeTryLock, TryLock, CheckHeight, SelectTransactions,
        BuildBlock, ReadImportanceHash, Push, nodeVars, cacheVars, utVars
  <2> QED
    BY Zenon, <2>1, <2>2, QuietUnconfirmed
<1>4. CASE AbortHarvested
  BY Zenon, <1>1, <1>4 DEF AbortHarvested, nodeVars, cacheVars
<1>5. CASE UNCHANGED vars
  BY Zenon, <1>1, <1>5 DEF vars, nodeVars, cacheVars
<1> QED
  BY ZenonT(60), <1>1, <1>2, <1>3, <1>4, <1>5, BlockKeepsUnconfirmed, NewKeepsUnconfirmed
  DEF Next, Step, DispatcherStep, PreprocessPeer, PreprocessHarvested

\* The chain that a commit leads to is one.
LEMMA NewChainType ==
    ASSUME NodeTyped
    PROVE  /\ NewChain \in Seq(BlockRecords) /\ sync.common \in 0 .. Len(NewChain)
<1>1. PICK c \in Seq(BlockRecords), b \in Seq(BlockRecords) : c = chain /\ b = sync.blocks
  BY Zenon DEF NodeTyped
<1>2. PICK n \in 0 .. Len(c) : n = sync.common
  BY Zenon, <1>1 DEF NodeTyped
<1>3. SubSeq(c, 1, n) \in Seq(BlockRecords) /\ Len(SubSeq(c, 1, n)) = n
  OBVIOUS
<1>4. PICK first \in Seq(BlockRecords) : first = SubSeq(c, 1, n)
  BY Zenon, <1>3
<1>5. first \o b \in Seq(BlockRecords) /\ Len(first \o b) = n + Len(b)
  BY <1>3, <1>4
<1>6. n \in 0 .. Len(first \o b)
  BY <1>5
<1> QED
  BY ZenonT(60), <1>1, <1>2, <1>4, <1>5, <1>6 DEF NewChain

\* What the node keeps, after a step of any thread.
LEMMA NodeTypedAlways ==
    ASSUME NodeTyped, HarvestTyped, UnconfirmedInv, DeltaInv, GuardsFollow, LocksExclusive, [Next]_vars
    PROVE  NodeTyped'
<1>1. ASSUME UNCHANGED <<chain, sync, batch, ut, unconfirmed>> PROVE NodeTyped'
  BY Zenon, <1>1 DEF NodeTyped
<1>2. ASSUME NEW common \in 0 .. Len(chain), NEW blocks \in Seq(BlockRecords), NEW isLocal, Preprocess(common, blocks, isLocal)
      PROVE  NodeTyped'
  <2>1. /\ UNCHANGED <<chain, batch, ut, unconfirmed>>
        /\ sync'.common = common /\ sync'.blocks = blocks
        /\ sync'.reverted = Confirmed(SubSeq(chain, common + 1, Len(chain)))
    BY Zenon, <1>2 DEF Preprocess, utVars
  <2>2. PICK c \in Seq(BlockRecords) : c = chain
    BY Zenon DEF NodeTyped
  <2>3. common \in 0 .. Len(c) /\ Len(c) \in Nat
    BY <2>2
  <2>4. SubSeq(c, common + 1, Len(c)) \in Seq(BlockRecords)
    BY <2>3
  <2>5. sync'.reverted \in Seq(Txs)
    BY Zenon, <2>1, <2>2, <2>4, ConfirmedType
  <2> QED
    BY Zenon, <2>1, <2>5 DEF NodeTyped
<1>3. ASSUME NEW common \in 1 .. Len(chain), NEW blocks \in PeerChains, PreprocessPeer(common, blocks) PROVE NodeTyped'
  <2>1. common \in 0 .. Len(chain) /\ blocks \in Seq(BlockRecords)
    BY TransactionsAssumption DEF NodeTyped
  <2> QED
    BY Zenon, <1>2, <1>3, <2>1 DEF PreprocessPeer
<1>4. CASE PreprocessHarvested
  <2>1. PICK p \in Seq(BlockRecords), b \in BlockRecords, c \in Seq(BlockRecords) :
            p = element.parent /\ b = element.block /\ c = chain
    BY Zenon DEF HarvestTyped, NodeTyped
  <2>2. Len(p) <= Len(c)
    BY <1>4, <2>1 DEF PreprocessHarvested, IsLinked, IsPrefix
  <2>3. Len(p) \in 0 .. Len(c) /\ <<b>> \in Seq(BlockRecords)
    BY <2>2
  <2>4. Preprocess(Len(p), <<b>>, TRUE)
    BY Zenon, <1>4, <2>1 DEF PreprocessHarvested
  <2> QED
    BY Zenon, <1>2, <2>1, <2>3, <2>4
<1>5. CASE AbortHarvested
  BY Zenon, <1>1, <1>5 DEF AbortHarvested, nodeVars, utVars
<1>6. CASE BlockStep
  <2>1. CASE Process \/ Refuse \/ LockStorage \/ UpdateMarkUt \/ UpdateLockUt \/ CommitCache
    BY Zenon, <1>1, <2>1 DEF Process, Refuse, LockStorage, UpdateMarkUt, UpdateLockUt, CommitCache, utVars
  <2>2. CASE CommitStorage
    <3>1. chain' = NewChain /\ UNCHANGED <<sync, batch, ut, unconfirmed>>
      BY Zenon, <2>2 DEF CommitStorage, utVars
    <3> QED
      BY Zenon, <3>1, NewChainType DEF NodeTyped
  <2>3. CASE RebaseAndLock
    <3>1. unconfirmed'.applied = <<>> /\ UNCHANGED <<chain, sync, batch, ut>>
      BY Zenon, <2>3 DEF RebaseAndLock
    <3> QED
      BY Zenon, <3>1, NoTransactions DEF NodeTyped
  <2>4. CASE UpdateApply
    <3>1. PICK state \in AppliedStates : Finish(state)
      BY Zenon, <2>4, UpdateApplies
    <3>2. state \in TrackedStates
      BY Zenon DEF AppliedStates, TrackedStates
    <3>3. ut' \in Seq(Txs) /\ unconfirmed'.applied \in Seq(Txs)
      BY Zenon, <3>1, <3>2, FinishTells DEF DeltaInv, UnconfirmedDeltaOld
    <3> QED
      BY Zenon, <2>4, <3>3 DEF NodeTyped, UpdateApply
  <2> QED
    BY ZenonT(60), <1>6, <2>1, <2>2, <2>3, <2>4 DEF BlockStep
<1>7. ASSUME NEW txs \in NewBatches, NewMarkUt(txs) PROVE NodeTyped'
  BY Zenon, <1>7, TransactionsAssumption DEF NewMarkUt, NodeTyped, utVars
<1>8. CASE NewStep
  <2>1. CASE NewLockUt \/ NewTryLock
    BY Zenon, <1>1, <2>1 DEF NewLockUt, NewTryLock, utVars
  <2>2. CASE NewApply \/ NewAddAll
    <3>1. PICK state \in TrackedStates : Finish(state)
      BY Zenon, <2>2, NewApplies, NewAdds DEF AppliedStates, TrackedStates
    <3>2. ut' \in Seq(Txs) /\ unconfirmed'.applied \in Seq(Txs)
      BY Zenon, <3>1, FinishTells DEF DeltaInv, UnconfirmedDeltaOld
    <3> QED
      BY Zenon, <2>2, <3>2 DEF NodeTyped, NewApply, NewAddAll
  <2> QED
    BY Zenon, <1>8, <2>1, <2>2 DEF NewStep
<1>9. CASE ReadLastBlock \/ HarvestStep
  BY Zenon, <1>1, <1>9 DEF HarvestStep, ReadLastBlock, OpenFacade, Detach, FacadeTryLock, TryLock, CheckHeight, SelectTransactions,
      BuildBlock, ReadImportanceHash, Push, nodeVars, utVars
<1>10. CASE UNCHANGED vars
  BY Zenon, <1>1, <1>10 DEF vars, nodeVars, utVars
<1> QED
  BY ZenonT(60), <1>3, <1>4, <1>5, <1>6, <1>7, <1>8, <1>9, <1>10 DEF Next, Step, DispatcherStep

\* The transactions that the harvester selects.
LEMMA SelectionsType ==
    ASSUME NodeTyped
    PROVE  Selections \subseteq Seq(Txs)
<1> SUFFICES ASSUME NEW txs \in Selections PROVE txs \in Seq(Txs)
  BY Zenon
<1>1. ToSet(ut) \subseteq Txs
  BY DEF NodeTyped, ToSet
<1>2. PICK m \in 0 .. MaxTransactionsPerBlock : txs \in [1 .. m -> ToSet(ut)]
  BY Zenon DEF Selections, BoundedSeq
<1>3. m \in Nat /\ txs \in [1 .. m -> Txs]
  BY <1>1, <1>2, TransactionsAssumption
<1> QED
  BY <1>3

\* What the harvester keeps, after a step of any thread.
LEMMA HarvestTypedAlways ==
    ASSUME NodeTyped, HarvestTyped, FacadeCurrent, [Next]_vars
    PROVE  HarvestTyped'
<1>1. ASSUME UNCHANGED <<parent, facade, element>> PROVE HarvestTyped'
  BY Zenon, <1>1 DEF HarvestTyped
<1>2. ASSUME element' = NoElement, UNCHANGED <<parent, facade>> PROVE HarvestTyped'
  <2>1. NoElement.parent \in Seq(BlockRecords) /\ NoElement.block \in BlockRecords
    BY NoTransactions DEF NoElement, BlockRecords
  <2> QED
    BY Zenon, <1>2, <2>1 DEF HarvestTyped
<1>3. ASSUME NEW applied \in Seq(Txs), facade'.applied = applied, UNCHANGED <<parent, element>> PROVE HarvestTyped'
  BY Zenon, <1>3 DEF HarvestTyped
<1>4. CASE ReadLastBlock
  BY Zenon, <1>4 DEF ReadLastBlock, HarvestTyped, NodeTyped
<1>5. CASE OpenFacade
  BY Zenon, <1>3, <1>5, NoTransactions DEF OpenFacade, FacadeCurrent
<1>6. CASE Detach
  <2>1. facade'.applied = facade.applied /\ UNCHANGED <<parent, element>>
    BY Zenon, <1>6 DEF Detach, FacadeCurrent
  <2> QED
    BY Zenon, <1>3, <2>1 DEF HarvestTyped
<1>7. CASE SelectTransactions
  <2>1. PICK txs \in Selections : facade' = [facade EXCEPT !.applied = txs]
    BY Zenon, <1>7 DEF SelectTransactions
  <2>2. facade'.applied = txs /\ UNCHANGED <<parent, element>> /\ txs \in Seq(Txs)
    BY ZenonT(60), <1>7, <2>1, SelectionsType DEF SelectTransactions, FacadeCurrent
  <2> QED
    BY Zenon, <1>3, <2>2
<1>8. CASE Push
  <2>1. UNCHANGED <<parent, facade>>
    BY Zenon, <1>8 DEF Push
  <2>2. CASE UNCHANGED element
    BY Zenon, <1>1, <2>1, <2>2
  <2>3. CASE element' = [parent |-> parent, block |-> [txs |-> facade.applied, score |-> HarvestScore]]
    <3>1. [txs |-> facade.applied, score |-> HarvestScore] \in BlockRecords
      BY Zenon, HarvestScoreAssumption DEF HarvestTyped, BlockRecords
    <3>2. element'.parent = parent /\ element'.block \in BlockRecords
      BY Zenon, <2>3, <3>1
    <3> QED
      BY Zenon, <2>1, <3>2 DEF HarvestTyped
  <2> QED
    BY ZenonT(60), <1>8, <2>2, <2>3 DEF Push
<1>9. CASE FacadeTryLock \/ CheckHeight \/ BuildBlock \/ ReadImportanceHash
  BY Zenon, <1>1, <1>9 DEF FacadeTryLock, CheckHeight, BuildBlock, ReadImportanceHash, harvestVars
<1>10. CASE AbortHarvested \/ Completion
  BY ZenonT(60), <1>1, <1>2, <1>10 DEF AbortHarvested, Completion, harvestVars
<1>11. CASE PreprocessHarvested \/ UNCHANGED harvestVars
  BY Zenon, <1>1, <1>11 DEF PreprocessHarvested, harvestVars
<1>12. CASE UNCHANGED vars
  BY Zenon, <1>11, <1>12 DEF vars
<1> QED
  BY ZenonT(60), <1>4, <1>5, <1>6, <1>7, <1>8, <1>9, <1>10, <1>11, <1>12 DEF Next, Step, DispatcherStep, HarvestStep

\* At boot nothing is unconfirmed.
LEMMA UnconfirmedInitially ==
    ASSUME HarvestInit
    PROVE  NodeTyped /\ HarvestTyped /\ UnconfirmedInv
<1>1. /\ at = [t \in Threads |-> <<"idle", 1>>]
      /\ caches = [s \in Subs |-> [commits |-> 0, chain |-> StartChain]]
      /\ unconfirmed = [delta |-> caches, applied |-> <<>>] /\ facade = unconfirmed
      /\ chain = StartChain /\ ut = <<>> /\ known = {} /\ batch = <<>> /\ parent = <<>> /\ element = NoElement
      /\ sync = [common |-> Len(StartChain), blocks |-> <<>>, isLocal |-> FALSE, reverted |-> <<>>]
  BY Zenon DEF HarvestInit, Init, CacheInit
<1>2. NodeTyped
  <2>1. StartChain \in Seq(BlockRecords) /\ Len(StartChain) \in 0 .. Len(StartChain) /\ <<>> \in Seq(BlockRecords)
    BY TransactionsAssumption
  <2>2. sync.common = Len(StartChain) /\ sync.blocks = <<>> /\ sync.reverted = <<>> /\ unconfirmed.applied = <<>>
    BY Zenon, <1>1
  <2> QED
    BY ZenonT(60), <1>1, <2>1, <2>2, NoTransactions DEF NodeTyped
<1>3. HarvestTyped
  <2>1. NoElement.parent \in Seq(BlockRecords) /\ NoElement.block \in BlockRecords /\ <<>> \in Seq(BlockRecords)
    BY NoTransactions DEF NoElement, BlockRecords
  <2>2. facade.applied = <<>>
    BY Zenon, <1>1
  <2> QED
    BY Zenon, <1>1, <2>1, <2>2, NoTransactions DEF HarvestTyped
<1>4. UnconfirmedInv
  <2>1. at["block"][1] = "idle" /\ at["new"][1] = "idle"
    BY Zenon, <1>1 DEF Threads
  <2>2. unconfirmed.delta = caches /\ caches = [s \in Subs |-> caches[s]]
    BY Zenon, <1>1
  <2>3. UnconfirmedApplied
    BY Zenon, <1>1, NoTransactions DEF UnconfirmedApplied
  <2> QED
    BY ZenonT(60), <1>1, <2>1, <2>2, <2>3, NoTransactions DEF UnconfirmedInv
<1> QED
  BY Zenon, <1>2, <1>3, <1>4

\* While nobody updates the unconfirmed transactions, they are what the invariant says.
LEMMA UnconfirmedIsCurrent ==
    ASSUME UnconfirmedInv, DeltaInv, GuardsFollow
    PROVE  UnconfirmedStateCurrent
<1> SUFFICES ASSUME ~IsWriterActive("ut")
             PROVE  /\ known = ToSet(ut) /\ IsInjective(ut)
                    /\ IsCurrent(unconfirmed.delta) =>
                          /\ unconfirmed.delta = caches
                          /\ unconfirmed.applied = ut
                          /\ \A s \in Subs : AreValid(ut, ToSet(Confirmed(caches[s].chain)))
  BY Zenon DEF UnconfirmedStateCurrent
<1>1. at["block"][1] # "apply"
  BY Zenon, LockNames DEF IsWriterActive, GuardsFollow, BlockGuard, Threads, Exclusive
<1>2. ASSUME IsCurrent(unconfirmed.delta) PROVE unconfirmed.delta = caches
  <2>1. \A s \in Subs : unconfirmed.delta[s] = caches[s]
    BY Zenon, <1>2 DEF IsCurrent, DeltaInv, UnconfirmedDeltaOld
  <2>2. caches = [s \in Subs |-> caches[s]] /\ unconfirmed.delta = [s \in Subs |-> unconfirmed.delta[s]]
    BY DEF UnconfirmedInv
  <2> QED
    BY Zenon, <2>1, <2>2
<1> QED
  BY Zenon, <1>1, <1>2 DEF UnconfirmedInv, UnconfirmedApplied

\* What the theorems about the unconfirmed transactions and the harvested blocks rest on.
NodeInv == GuardsFollow /\ DeltaInv /\ NodeTyped /\ HarvestTyped /\ UnconfirmedInv

\* The locks, the deltas and the unconfirmed transactions are as described here in every state of the node.
THEOREM NodeInvariant == Spec => []NodeInv
<1>1. HarvestInit => NodeInv
  BY Zenon, FollowsInitially, DeltaInitially, UnconfirmedInitially DEF NodeInv
<1>2. NodeInv /\ LocksExclusive /\ LockedApart' /\ [Next]_vars => NodeInv'
  <2> SUFFICES ASSUME NodeInv, LocksExclusive, LockedApart', [Next]_vars PROVE NodeInv'
    BY Zenon
  <2>1. GuardsFollow /\ DeltaInv /\ NodeTyped /\ HarvestTyped /\ UnconfirmedInv /\ FacadeCurrent
    BY Zenon DEF NodeInv, DeltaInv
  <2>2. GuardsFollow'
    BY Zenon, <2>1, FollowsAlways DEF LocksFollow
  <2>3. DeltaInv'
    BY Zenon, <2>1, DeltaAlways
  <2>4. UnconfirmedInv'
    BY Zenon, <2>1, UnconfirmedAlways
  <2>5. NodeTyped' /\ HarvestTyped'
    BY Zenon, <2>1, NodeTypedAlways, HarvestTypedAlways
  <2> QED
    BY ZenonT(60), <2>2, <2>3, <2>4, <2>5 DEF NodeInv
<1>4. NodeInv => GuardsFollow
  BY Zenon DEF NodeInv
<1>5. GuardsFollow /\ [Next]_vars => GuardsFollow'
  BY Zenon, FollowsAlways DEF LocksFollow
<1>6. LocksExclusive /\ GuardsFollow => LockedApart
  BY Zenon, LockedNotCommitted
<1> QED
  BY <1>1, <1>2, <1>4, <1>5, <1>6, ThreadsExclude, PTL DEF Spec

\* For any transactions, chains and sub caches: while no update is under way, the subscriber knows the unconfirmed
\* transactions, and a current unconfirmed state is the confirmed one with all of them applied and valid in their order.
THEOREM UnconfirmedStaysCurrent == Spec => []UnconfirmedStateCurrent
<1>1. NodeInv => UnconfirmedStateCurrent
  BY Zenon, UnconfirmedIsCurrent DEF NodeInv
<1> QED
  BY <1>1, NodeInvariant, PTL
-----------------------------------------------------------------------------
(* The harvested block                                                     *)

\* The height of the cache is that of the chain its sub caches hold, but for a commit under way.
HeightMatches ==
    /\ height \in Nat
    /\ at["block"][1] \notin {"promote", "commitSub", "releaseSub", "setHeight"} =>
           \A s \in Subs : height = Len(caches[s].chain)
    /\ at["block"][1] = "setHeight" => \A s \in Subs : caches[s].chain = NewChain

\* The facade is of one chain, of the height of c.
OnFacade(c) ==
    \A s \in Subs : Len(facade.delta[s].chain) = Len(c) /\ \A r \in Subs : facade.delta[s].chain = facade.delta[r].chain

\* What was selected is valid on the facade.
ValidOnFacade == \A s \in Subs : AreValid(facade.applied, ToSet(Confirmed(facade.delta[s].chain)))

\* The facade stays what the harvested block was made on, until the dispatcher is done with the block.
HarvestedInv ==
    /\ at["harvest"][1] \in {"select", "build", "readImportanceHash", "push"} => OnFacade(parent)
    /\ at["harvest"][1] \in {"build", "readImportanceHash", "push"} => ValidOnFacade
    /\ pending => at["harvest"][1] = "idle"
    /\ element # NoElement =>
           pending /\ OnFacade(element.parent) /\ ValidOnFacade /\ element.block.txs = facade.applied
    /\ at["block"][1] = "process" /\ sync.isLocal =>
           element # NoElement /\ sync.blocks = <<element.block>> /\ SubSeq(chain, 1, sync.common) = element.parent

\* A step that changes neither the caches nor where the block dispatcher is.
LEMMA QuietHeight ==
    ASSUME HeightMatches, UNCHANGED <<caches, height, chain, sync>>, at'["block"][1] = at["block"][1]
    PROVE  HeightMatches'
<1>1. NewChain' = NewChain
  BY Zenon DEF NewChain
<1> QED
  BY Zenon, <1>1 DEF HeightMatches

\* The steps of the block dispatcher: the height follows when all sub caches have been committed.
LEMMA BlockKeepsHeight ==
    ASSUME HeightMatches, DeltaInv, GuardsFollow, NodeTyped,
           BlockStep \/ \E common, blocks, isLocal : Preprocess(common, blocks, isLocal)
    PROVE  HeightMatches'
<1> DEFINE Committing == {"promote", "commitSub", "releaseSub", "setHeight"}
<1>1. ASSUME NEW label \in Labels \ Committing, at' = [at EXCEPT !["block"] = <<label, 1>>],
             at["block"][1] \notin Committing, UNCHANGED <<caches, height>>
      PROVE  HeightMatches'
  <2>1. at'["block"][1] = label
    BY Zenon, <1>1 DEF GuardsFollow, Threads
  <2> QED
    BY Zenon, <1>1, <2>1 DEF HeightMatches
<1>2. ASSUME NEW label \in {"promote", "commitSub", "releaseSub"}, NEW k, at' = [at EXCEPT !["block"] = <<label, k>>],
             height' = height
      PROVE  HeightMatches'
  <2>1. at'["block"][1] = label
    BY Zenon, <1>2 DEF GuardsFollow, Threads
  <2> QED
    BY Zenon, <1>2, <2>1 DEF HeightMatches
<1>3. CASE \E common, blocks, isLocal : Preprocess(common, blocks, isLocal)
  BY Zenon, <1>1, <1>3 DEF Preprocess, At, Goto, Labels, cacheVars
<1>4. CASE Process \/ Refuse \/ LockStorage \/ CommitStorage \/ UpdateMarkUt \/ UpdateLockUt \/ RebaseAndLock \/ UpdateApply
  <2>1. PICK label \in Labels \ Committing :
            at' = [at EXCEPT !["block"] = <<label, 1>>] /\ at["block"][1] \notin Committing /\ UNCHANGED <<caches, height>>
    BY Zenon, <1>4 DEF Process, Refuse, LockStorage, CommitStorage, UpdateMarkUt, UpdateLockUt, RebaseAndLock, UpdateApply, At, Goto,
        Labels, cacheVars
  <2> QED
    BY Zenon, <1>1, <2>1
<1>5. CASE CommitMarkHeight("block")
  BY Zenon, <1>1, <1>5 DEF CommitMarkHeight, At, Goto, Labels, cacheVars
<1>6. CASE CommitLockHeight("block")
  BY Zenon, <1>2, <1>6 DEF CommitLockHeight, Goto, cacheVars
<1>7. CASE CommitPromote("block")
  BY Zenon, <1>2, <1>7 DEF CommitPromote, cacheVars
<1>8. CASE CommitSub("block", NewChain)
  BY ZenonT(60), <1>2, <1>8 DEF CommitSub
<1>9. CASE CommitReleaseSub("block") /\ UNCHANGED <<chain, sync>>
  <2>1. PICK k \in 1 .. Len(SubCaches) : k = at["block"][2]
    BY Zenon DEF GuardsFollow, Threads
  <2>2. CASE k < Len(SubCaches)
    <3>1. at' = [at EXCEPT !["block"] = <<"promote", k + 1>>] /\ height' = height
      BY ZenonT(60), <1>9, <2>1, <2>2 DEF CommitReleaseSub, cacheVars
    <3> QED
      BY ZenonT(60), <1>2, <3>1
  <2>3. CASE ~(k < Len(SubCaches))
    <3>1. at' = [at EXCEPT !["block"] = <<"setHeight", 1>>] /\ at["block"][1] = "releaseSub" /\ UNCHANGED <<caches, height>>
      BY ZenonT(60), <1>9, <2>1, <2>3 DEF CommitReleaseSub, At, Goto, cacheVars
    <3>2. at'["block"][1] = "setHeight" /\ NewChain' = NewChain
      BY Zenon, <1>9, <3>1 DEF GuardsFollow, Threads, NewChain
    <3>3. \A i \in 1 .. Len(SubCaches) : i <= Done
      BY SMTT(30), <2>1, <2>3, <3>1, Rounds DEF Done
    <3>4. \A i \in 1 .. Len(SubCaches) : caches[SubCaches[i]].chain = NewChain
      <4>1. \A i \in 1 .. Len(SubCaches) :
                caches[SubCaches[i]] = [commits |-> caches[SubCaches[i]].commits, chain |-> NewChain]
        BY Zenon, <3>3 DEF DeltaInv, CachesInStep
      <4> SUFFICES ASSUME NEW i \in 1 .. Len(SubCaches) PROVE caches[SubCaches[i]].chain = NewChain
        BY Zenon
      <4>2. PICK n : n = caches[SubCaches[i]].commits
        BY Zenon
      <4>3. caches[SubCaches[i]] = [commits |-> n, chain |-> NewChain]
        BY Zenon, <4>1, <4>2
      <4> QED
        BY <4>3
    <3>5. \A s \in Subs : \E i \in 1 .. Len(SubCaches) : s = SubCaches[i]
      BY Zenon, SubCachesType
    <3>6. \A s \in Subs : caches'[s].chain = NewChain'
      BY Zenon, <3>1, <3>2, <3>4, <3>5
    <3> QED
      BY ZenonT(60), <3>1, <3>2, <3>6 DEF HeightMatches
  <2> QED
    BY Zenon, <2>2, <2>3
<1>10. CASE CommitSetHeight("block", NewChain)
  <2>1. /\ at["block"][1] = "setHeight" /\ at' = [at EXCEPT !["block"] = <<"committed", 1>>]
        /\ height' = Len(NewChain) /\ caches' = caches
    BY Zenon, <1>10 DEF CommitSetHeight, At, Goto
  <2>2. at'["block"][1] = "committed"
    BY Zenon, <2>1 DEF GuardsFollow, Threads
  <2>3. \A s \in Subs : height' = Len(caches'[s].chain)
    BY Zenon, <2>1 DEF HeightMatches
  <2>4. height' \in Nat
    BY <2>1, NewChainType
  <2> QED
    BY Zenon, <2>2, <2>3, <2>4 DEF HeightMatches
<1> QED
  BY ZenonT(60), <1>3, <1>4, <1>5, <1>6, <1>7, <1>8, <1>9, <1>10 DEF BlockStep, CommitCache, Commit

\* One step of any thread.
LEMMA HeightAlways ==
    ASSUME HeightMatches, DeltaInv, GuardsFollow, NodeTyped, [Next]_vars
    PROVE  HeightMatches'
<1>1. CASE NewStep \/ \E txs \in NewBatches : NewMarkUt(txs)
  <2>1. at'["block"] = at["block"]
    BY Zenon, <1>1 DEF GuardsFollow, Threads, NewStep, NewMarkUt, NewLockUt, NewTryLock, TryLock, NextSub, NewApply, NewAddAll, Goto
  <2>2. UNCHANGED <<caches, height, chain, sync>>
    BY ZenonT(60), <1>1 DEF NewStep, NewMarkUt, NewLockUt, NewTryLock, TryLock, NewApply, NewAddAll, cacheVars
  <2> QED
    BY Zenon, <2>1, <2>2, QuietHeight
<1>2. CASE ReadLastBlock \/ HarvestStep
  <2>1. at'["block"] = at["block"]
    BY Zenon, <1>2 DEF GuardsFollow, Threads, HarvestStep, ReadLastBlock, OpenFacade, Detach, FacadeTryLock, TryLock, NextSub,
        CheckHeight, SelectTransactions, BuildBlock, ReadImportanceHash, Push, Goto
  <2>2. UNCHANGED <<caches, height, chain, sync>>
    BY Zenon, <1>2 DEF HarvestStep, ReadLastBlock, OpenFacade, Detach, FacadeTryLock, TryLock, CheckHeight, SelectTransactions,
        BuildBlock, ReadImportanceHash, Push, nodeVars, cacheVars
  <2> QED
    BY <2>1, <2>2, QuietHeight
<1>3. CASE AbortHarvested \/ UNCHANGED vars
  <2>1. UNCHANGED <<at, caches, height, chain, sync>>
    BY Zenon, <1>3 DEF AbortHarvested, vars, nodeVars, cacheVars
  <2> QED
    BY Zenon, <2>1, QuietHeight
<1> QED
  BY Zenon, <1>1, <1>2, <1>3, BlockKeepsHeight DEF Next, Step, DispatcherStep, PreprocessPeer, PreprocessHarvested

\* A step of another thread, which leaves the harvester and what the dispatcher has of it alone.
LEMMA QuietHarvested ==
    ASSUME HarvestedInv, UNCHANGED <<parent, facade, element, pending>>, at'["harvest"] = at["harvest"],
           at'["block"][1] = "process" => at["block"][1] = "process" /\ UNCHANGED <<chain, sync>>
    PROVE  HarvestedInv'
<1>1. ValidOnFacade' = ValidOnFacade
  BY Zenon DEF ValidOnFacade
<1>2. \A c : OnFacade(c)' <=> OnFacade(c)
  BY Zenon DEF OnFacade
<1>3. OnFacade(parent)' = OnFacade(parent) /\ OnFacade(element.parent)' = OnFacade(element.parent)
  BY Zenon DEF OnFacade
<1> QED
  BY Zenon, <1>1, <1>3 DEF HarvestedInv

\* The dispatcher is done with the harvested block, which it does not process any more.
LEMMA ElementGone ==
    ASSUME HarvestedInv, UNCHANGED <<parent, facade>>, element' = NoElement, pending' = FALSE, at'["harvest"] = at["harvest"],
           at'["block"][1] # "process"
    PROVE  HarvestedInv'
<1>1. ValidOnFacade' = ValidOnFacade
  BY Zenon DEF ValidOnFacade
<1>2. OnFacade(parent)' = OnFacade(parent)
  BY Zenon DEF OnFacade
<1> QED
  BY Zenon, <1>1, <1>2 DEF HarvestedInv

\* The steps of the block dispatcher.
LEMMA BlockKeepsHarvested ==
    ASSUME HarvestedInv, HarvestTyped, GuardsFollow, DispatcherStep
    PROVE  HarvestedInv'
<1>1. CASE PreprocessHarvested
  <2>1. /\ element # NoElement /\ IsPrefix(element.parent, chain) /\ UNCHANGED <<parent, facade, element, pending, chain>>
        /\ at' = [at EXCEPT !["block"] = <<"process", 1>>]
        /\ sync'.common = Len(element.parent) /\ sync'.blocks = <<element.block>>
    BY Zenon, <1>1 DEF PreprocessHarvested, IsLinked, Preprocess, Goto, harvestVars
  <2>2. at'["harvest"] = at["harvest"]
    BY Zenon, <2>1 DEF GuardsFollow, Threads
  <2>3. SubSeq(chain, 1, Len(element.parent)) = element.parent
    <3>1. PICK p \in Seq(BlockRecords) : p = element.parent
      BY Zenon DEF HarvestTyped
    <3>2. SubSeq(p, 1, Len(p)) = p
      OBVIOUS
    <3> QED
      BY Zenon, <2>1, <3>1, <3>2 DEF IsPrefix
  <2>4. ValidOnFacade' = ValidOnFacade
    BY ZenonT(60), <2>1 DEF ValidOnFacade
  <2>5. OnFacade(parent)' = OnFacade(parent) /\ OnFacade(element.parent)' = OnFacade(element.parent)
    BY Zenon, <2>1 DEF OnFacade
  <2>6. element' # NoElement /\ sync'.blocks = <<element'.block>> /\ SubSeq(chain', 1, sync'.common) = element'.parent
    BY Zenon, <2>1, <2>3
  <2> QED
    BY Zenon, <2>1, <2>2, <2>4, <2>5, <2>6 DEF HarvestedInv
<1>2. CASE AbortHarvested
  <2>1. UNCHANGED <<parent, facade, at>> /\ element' = NoElement /\ pending' = FALSE /\ at["block"][1] = "idle"
    BY Zenon, <1>2 DEF AbortHarvested, At
  <2> QED
    BY Zenon, <2>1, ElementGone
<1>3. CASE BlockStep /\ Completion
  <2>1. at'["harvest"] = at["harvest"]
    BY Zenon, <1>3 DEF GuardsFollow, Threads, BlockStep, Process, Refuse, LockStorage, CommitCache, Commit, CommitMarkHeight,
        CommitLockHeight, CommitPromote, CommitSub, CommitReleaseSub, CommitSetHeight, CommitStorage, UpdateMarkUt, UpdateLockUt,
        RebaseAndLock, UpdateApply, Goto
  <2>2. \E label \in Labels \ {"process"} : \E k : at' = [at EXCEPT !["block"] = <<label, k>>]
    BY ZenonT(60), <1>3 DEF BlockStep, Process, Refuse, LockStorage, CommitCache, Commit, CommitMarkHeight,
        CommitLockHeight, CommitPromote, CommitSub, CommitReleaseSub, CommitSetHeight, CommitStorage, UpdateMarkUt, UpdateLockUt,
        RebaseAndLock, UpdateApply, Goto, Labels
  <2>3. at'["block"][1] # "process"
    BY <2>2 DEF GuardsFollow, Threads
  <2>4. CASE UNCHANGED harvestVars
    BY Zenon, <2>1, <2>3, <2>4, QuietHarvested DEF harvestVars
  <2>5. CASE element' = NoElement /\ pending' = FALSE /\ UNCHANGED <<parent, facade>>
    BY ZenonT(60), <2>1, <2>3, <2>5, ElementGone
  <2> QED
    BY ZenonT(60), <1>3, <2>4, <2>5 DEF Completion
<1> QED
  BY Zenon, <1>1, <1>2, <1>3 DEF DispatcherStep

\* A step of the harvester before its block is in the dispatcher.
LEMMA HarvestMovesOn ==
    ASSUME HarvestedInv, GuardsFollow, NEW label \in Labels, NEW k, at' = [at EXCEPT !["harvest"] = <<label, k>>],
           at["harvest"][1] # "idle" \/ ~pending, UNCHANGED <<chain, sync, element, pending>>,
           label \in {"select", "build", "readImportanceHash", "push"} => OnFacade(parent)',
           label \in {"build", "readImportanceHash", "push"} => ValidOnFacade'
    PROVE  HarvestedInv'
<1>1. at'["harvest"][1] = label /\ at'["block"] = at["block"]
  BY ZenonT(60) DEF GuardsFollow, Threads
<1>2. ~pending /\ element = NoElement
  BY Zenon DEF HarvestedInv
<1> QED
  BY ZenonT(60), <1>1, <1>2 DEF HarvestedInv

\* The steps of the harvester.
LEMMA HarvestKeepsHarvested ==
    ASSUME HarvestedInv, HeightMatches, DeltaInv, GuardsFollow, LocksExclusive, HarvestTyped, ReadLastBlock \/ HarvestStep
    PROVE  HarvestedInv'
<1>0. {"openFacade", "detach", "tryLock", "checkHeight", "select", "build", "readImportanceHash", "push", "idle", "stale"} \subseteq Labels
  BY Zenon DEF Labels
<1>1. CASE ReadLastBlock
  <2>1. at' = [at EXCEPT !["harvest"] = <<"openFacade", 1>>] /\ ~pending /\ UNCHANGED <<chain, sync, element, pending>>
    BY Zenon, <1>1 DEF ReadLastBlock, Goto, nodeVars
  <2> QED
    BY ZenonT(60), <1>0, <2>1, HarvestMovesOn
<1>2. CASE OpenFacade
  <2>1. /\ at' = [at EXCEPT !["harvest"] = <<"detach", 1>>] /\ at["harvest"][1] = "openFacade"
        /\ UNCHANGED <<chain, sync, element, pending>>
    BY Zenon, <1>2 DEF OpenFacade, At, Goto, nodeVars
  <2> QED
    BY ZenonT(60), <1>0, <2>1, HarvestMovesOn
<1>3. CASE Detach \/ FacadeTryLock
  <2>1. at["harvest"][1] \in {"detach", "tryLock"} /\ UNCHANGED <<chain, sync, element, pending>>
    BY Zenon, <1>3 DEF Detach, FacadeTryLock, TryLock, At, nodeVars, harvestVars
  <2>2. PICK label \in {"detach", "tryLock", "checkHeight", "stale"}, k \in Nat : at' = [at EXCEPT !["harvest"] = <<label, k>>]
    <3>1. PICK j \in Nat : j = at["harvest"][2]
      BY ZenonT(60), Rounds DEF GuardsFollow, Threads
    <3>2. at' \in {[at EXCEPT !["harvest"] = <<label, k>>] :
                       label \in {"detach", "tryLock", "checkHeight", "stale"}, k \in {1, j + 1}}
      BY <1>3, <3>1 DEF Detach, FacadeTryLock, TryLock, NextSub, At, Goto, GuardsFollow, Threads
    <3>3. \E label \in {"detach", "tryLock", "checkHeight", "stale"}, k \in {1, j + 1} : at' = [at EXCEPT !["harvest"] = <<label, k>>]
      BY <3>2
    <3>4. {1, j + 1} \subseteq Nat
      BY <3>1
    <3> QED
      BY Zenon, <3>3, <3>4
  <2> QED
    BY Zenon, <1>0, <2>1, <2>2, HarvestMovesOn
<1>4. CASE CheckHeight
  <2>1. PICK label \in {"select", "idle"} : at' = [at EXCEPT !["harvest"] = <<label, 1>>] /\ (label = "select" => HasFacadeHeight)
    BY Zenon, <1>4 DEF CheckHeight, Goto
  <2>2. at["harvest"][1] = "checkHeight" /\ UNCHANGED <<chain, sync, parent, facade, element, pending>>
    BY Zenon, <1>4 DEF CheckHeight, At, nodeVars, harvestVars
  <2>3. ASSUME label = "select" PROVE OnFacade(parent)'
    <3>1. at["block"][1] \notin {"promote", "commitSub", "releaseSub", "setHeight"}
      BY Zenon, <2>2, FacadeStopsCommits
    <3>2. \A s \in Subs : height = Len(caches[s].chain) /\ facade.delta[s] = caches[s]
      BY Zenon, <2>2, <3>1 DEF HeightMatches, DeltaInv, FacadeCurrent
    <3>3. \A s, r \in Subs : caches[s] = caches[r]
      <4>1. \A i \in 1 .. Len(SubCaches) : ~(i <= Done)
        BY <3>1 DEF Done
      <4>2. \A i, j \in 1 .. Len(SubCaches) : caches[SubCaches[i]] = caches[SubCaches[j]]
        BY Zenon, <4>1 DEF DeltaInv, CachesInStep
      <4>3. \A s \in Subs : \E i \in 1 .. Len(SubCaches) : s = SubCaches[i]
        BY Zenon, SubCachesType
      <4> QED
        BY <4>2, <4>3
    <3>4. Len(parent) = height
      <4>1. Len(parent) \in Nat /\ height \in Nat /\ Len(parent) + 1 = height + 1
        BY <2>1, <2>3 DEF HasFacadeHeight, HeightMatches, HarvestTyped
      <4> QED
        BY <4>1
    <3> QED
      BY Zenon, <2>2, <3>2, <3>3, <3>4 DEF OnFacade
  <2> QED
    BY Zenon, <1>0, <2>1, <2>2, <2>3, HarvestMovesOn
<1>5. CASE SelectTransactions
  <2>1. PICK txs \in Selections : facade' = [facade EXCEPT !.applied = txs]
    BY Zenon, <1>5 DEF SelectTransactions
  <2>2. /\ at' = [at EXCEPT !["harvest"] = <<"build", 1>>] /\ at["harvest"][1] = "select"
        /\ UNCHANGED <<chain, sync, parent, element, pending>>
    BY Zenon, <1>5 DEF SelectTransactions, At, Goto, nodeVars
  <2>3. facade'.applied = txs /\ facade'.delta = facade.delta
    BY Zenon, <2>1 DEF DeltaInv, FacadeCurrent
  <2>4. \A i \in 1 .. Len(txs) : IsValidOn(txs[i], facade.delta, SubSeq(txs, 1, i - 1))
    BY Zenon DEF Selections
  <2>5. ValidOnFacade'
    <3>1. \A s \in Subs : AreValid(txs, ToSet(Confirmed(facade.delta[s].chain)))
      BY ZenonT(60), <2>4 DEF IsValidOn, AreValid
    <3> QED
      BY Zenon, <2>3, <3>1 DEF ValidOnFacade
  <2>6. OnFacade(parent)'
    BY <2>2, <2>3 DEF HarvestedInv, OnFacade
  <2> QED
    BY ZenonT(60), <1>0, <2>2, <2>5, <2>6, HarvestMovesOn
<1>6. CASE BuildBlock \/ ReadImportanceHash
  <2>1. PICK label \in {"readImportanceHash", "push", "idle"} : at' = [at EXCEPT !["harvest"] = <<label, 1>>]
    BY Zenon, <1>6 DEF BuildBlock, ReadImportanceHash, Goto
  <2>2. at["harvest"][1] \in {"build", "readImportanceHash"} /\ UNCHANGED <<chain, sync, parent, facade, element, pending>>
    BY Zenon, <1>6 DEF BuildBlock, ReadImportanceHash, At, nodeVars, harvestVars
  <2>3. OnFacade(parent)' /\ ValidOnFacade'
    BY ZenonT(60), <2>2 DEF HarvestedInv, OnFacade, ValidOnFacade
  <2> QED
    BY ZenonT(60), <1>0, <2>1, <2>2, <2>3, HarvestMovesOn
<1>7. CASE Push
  <2>1. /\ at["harvest"][1] = "push" /\ at' = [at EXCEPT !["harvest"] = <<"idle", 1>>] /\ pending' = TRUE
        /\ UNCHANGED <<chain, sync, parent, facade>>
        /\ \/ element' = [parent |-> parent, block |-> [txs |-> facade.applied, score |-> HarvestScore]]
           \/ element' = element
    BY Zenon, <1>7 DEF Push, At, Goto, nodeVars
  <2>2. at'["harvest"][1] = "idle" /\ at'["block"] = at["block"]
    BY ZenonT(60), <2>1 DEF GuardsFollow, Threads
  <2>3. OnFacade(parent) /\ ValidOnFacade /\ element = NoElement
    BY Zenon, <2>1 DEF HarvestedInv
  <2>4. ~(at["block"][1] = "process" /\ sync.isLocal)
    BY Zenon, <2>3 DEF HarvestedInv
  <2>5. ValidOnFacade'
    BY Zenon, <2>1, <2>3 DEF ValidOnFacade
  <2>6. ASSUME element' # NoElement PROVE OnFacade(element.parent)' /\ element'.block.txs = facade'.applied
    <3>1. element'.parent = parent /\ element'.block.txs = facade.applied
      BY <2>1, <2>3, <2>6
    <3> QED
      BY ZenonT(60), <2>1, <2>3, <3>1 DEF OnFacade
  <2> QED
    BY ZenonT(60), <2>1, <2>2, <2>4, <2>5, <2>6 DEF HarvestedInv
<1> QED
  BY ZenonT(60), <1>1, <1>2, <1>3, <1>4, <1>5, <1>6, <1>7 DEF HarvestStep

\* One step of any thread.
LEMMA HarvestedAlways ==
    ASSUME HarvestedInv, HeightMatches, DeltaInv, GuardsFollow, LocksExclusive, NodeTyped, HarvestTyped, [Next]_vars
    PROVE  HarvestedInv'
<1>1. ASSUME NEW common, NEW blocks, PreprocessPeer(common, blocks), UNCHANGED harvestVars PROVE HarvestedInv'
  <2>1. UNCHANGED <<parent, facade, element, pending>> /\ at' = [at EXCEPT !["block"] = <<"process", 1>>]
    BY Zenon, <1>1 DEF PreprocessPeer, Preprocess, Goto, harvestVars
  <2>2. at'["harvest"] = at["harvest"]
    BY Zenon, <2>1 DEF GuardsFollow, Threads
  <2>3. ~sync'.isLocal
    BY Zenon, <1>1 DEF PreprocessPeer, Preprocess
  <2>4. ValidOnFacade' = ValidOnFacade
    BY Zenon, <2>1 DEF ValidOnFacade
  <2>5. OnFacade(parent)' = OnFacade(parent) /\ OnFacade(element.parent)' = OnFacade(element.parent)
    BY Zenon, <2>1 DEF OnFacade
  <2> QED
    BY ZenonT(60), <2>1, <2>2, <2>3, <2>4, <2>5 DEF HarvestedInv
<1>2. CASE UNCHANGED harvestVars /\ (NewStep \/ \E txs \in NewBatches : NewMarkUt(txs))
  <2>1. at'["block"] = at["block"] /\ at'["harvest"] = at["harvest"]
    BY ZenonT(60), <1>2 DEF GuardsFollow, Threads, NewStep, NewMarkUt, NewLockUt, NewTryLock, TryLock, NextSub, NewApply, NewAddAll, Goto
  <2>2. UNCHANGED <<chain, sync>>
    BY Zenon, <1>2 DEF NewStep, NewMarkUt, NewLockUt, NewTryLock, NewApply, NewAddAll
  <2> QED
    BY ZenonT(60), <1>2, <2>1, <2>2, QuietHarvested DEF harvestVars
<1>3. CASE UNCHANGED vars
  BY Zenon, <1>3, QuietHarvested DEF vars, nodeVars, harvestVars
<1> QED
  BY ZenonT(60), <1>1, <1>2, <1>3, BlockKeepsHarvested, HarvestKeepsHarvested DEF Next, Step

\* At boot nothing has been harvested.
LEMMA HarvestedInitially ==
    ASSUME HarvestInit
    PROVE  HeightMatches /\ HarvestedInv
<1>1. /\ at = [t \in Threads |-> <<"idle", 1>>] /\ caches = [s \in Subs |-> [commits |-> 0, chain |-> StartChain]]
      /\ height = Len(StartChain) /\ element = NoElement /\ pending = FALSE
  BY Zenon DEF HarvestInit, Init, CacheInit
<1>2. at["block"][1] = "idle" /\ at["harvest"][1] = "idle"
  BY Zenon, <1>1 DEF Threads
<1>3. HeightMatches
  BY <1>1, <1>2, TransactionsAssumption DEF HeightMatches
<1>4. HarvestedInv
  BY ZenonT(60), <1>1, <1>2 DEF HarvestedInv
<1> QED
  BY Zenon, <1>3, <1>4

\* A block whose transactions are valid on the facade can be processed on the chain the facade is of.
LEMMA HarvestedIsValid ==
    ASSUME HarvestedInv, HarvestTyped
    PROVE  HarvestedBlockValid
<1> SUFFICES ASSUME at["block"][1] = "process", sync.isLocal,
                    ~(\A s \in Subs : Len(facade.delta[s].chain) = Len(element.parent) /\ facade.delta[s].chain # element.parent)
             PROVE  CanProcess
  BY Zenon DEF HarvestedBlockValid, At
<1>1. /\ OnFacade(element.parent) /\ ValidOnFacade /\ element.block.txs = facade.applied
      /\ sync.blocks = <<element.block>> /\ SubSeq(chain, 1, sync.common) = element.parent
  BY Zenon DEF HarvestedInv
<1>2. PICK s \in Subs : facade.delta[s].chain = element.parent
  BY Zenon, <1>1 DEF OnFacade
<1>3. Confirmed(<<element.block>>) = element.block.txs
  BY Zenon, ConfirmedOne DEF HarvestTyped
<1>4. AreValid(facade.applied, ToSet(Confirmed(element.parent)))
  BY Zenon, <1>1, <1>2 DEF ValidOnFacade
<1> QED
  BY Zenon, <1>1, <1>3, <1>4 DEF CanProcess

\* For any transactions, chains and sub caches: a harvested block that the dispatcher comes to process is valid, whatever
\* the other threads did since the harvester read the last block, unless the facade is of another chain of that height.
THEOREM HarvestedBlocksAreValid == Spec => []HarvestedBlockValid
<1>1. HarvestInit => HeightMatches /\ HarvestedInv
  BY Zenon, HarvestedInitially
<1>2. HeightMatches /\ HarvestedInv /\ NodeInv /\ LocksExclusive /\ [Next]_vars => (HeightMatches /\ HarvestedInv)'
  BY Zenon, HeightAlways, HarvestedAlways DEF NodeInv
<1>3. HarvestedInv /\ NodeInv => HarvestedBlockValid
  BY Zenon, HarvestedIsValid DEF NodeInv
<1> QED
  BY <1>1, <1>2, <1>3, NodeInvariant, ThreadsExclude, PTL DEF Spec
=============================================================================
