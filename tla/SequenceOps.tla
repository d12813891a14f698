---------------------------- MODULE SequenceOps ----------------------------
(***************************************************************************)
(* The operators on sequences that the synchronization and the harvesting  *)
(* modules use.  They are the operators of these names of the community    *)
(* module SequencesExt, of which the modules need one tenth: the prover    *)
(* carries every definition in scope through every proof step.             *)
(***************************************************************************)
EXTENDS Integers, Sequences, FiniteSetsExt

ToSet(s) == {s[i] : i \in DOMAIN s}

Contains(s, e) == \E i \in 1..Len(s) : s[i] = e

BoundedSeq(S, n) == UNION {[1..m -> S] : m \in 0..n}

Front(s) == SubSeq(s, 1, Len(s) - 1)

Last(s) == s[Len(s)]

IsPrefix(s, t) == Len(s) <= Len(t) /\ SubSeq(s, 1, Len(s)) = SubSeq(t, 1, Len(s))

IsStrictPrefix(s, t) == IsPrefix(s, t) /\ s # t

\* The number of elements that two sequences have in common before the first difference.
CommonLength(s, t) == Max({n \in 0..Len(s) : IsPrefix(SubSeq(s, 1, n), t)})

\* The first and the last index of an element that passes the test, 0 if there is none.
SelectInSeq(s, Test(_)) ==
    LET I == {i \in 1..Len(s) : Test(s[i])} IN IF I # {} THEN Min(I) ELSE 0

SelectLastInSeq(s, Test(_)) ==
    LET I == {i \in 1..Len(s) : Test(s[i])} IN IF I # {} THEN Max(I) ELSE 0

\* The concatenation of a sequence of sequences.
FlattenSeq(ss) ==
    LET flatten[i \in 1..Len(ss)] == IF i = 1 THEN ss[i] ELSE flatten[i - 1] \o ss[i]
    IN  IF Len(ss) = 0 THEN ss ELSE flatten[Len(ss)]
=============================================================================
