----------------------- MODULE ChainSynchronizerProofs -----------------------
(***************************************************************************)
(* What the chain synchronizer and the sync consumer promise for all       *)
(* chains, batch sizes and limits: the list of unprocessed elements is     *)
(* that of the ranges in the dispatcher; blocks that were pulled on top of *)
(* a range are not handed over once that range was aborted; the block that *)
(* is finalized locally survives every change of the local chain, which    *)
(* has a higher score each time or gains the network's finalized block;    *)
(* and a comparison with a peer finds the last block in common.            *)
(***************************************************************************)
EXTENDS ChainSynchronizer, WellFoundedInduction, TLAPS

\* Sequences, whatever their elements are.
IsSequence(s) == Len(s) \in Nat /\ s = [i \in 1 .. Len(s) |-> s[i]]

\* A sequence is a sequence of its elements.
LEMMA SequenceHasType ==
    ASSUME NEW s, IsSequence(s)
    PROVE  s \in Seq({s[i] : i \in 1 .. Len(s)})
<1> DEFINE S == {s[i] : i \in 1 .. Len(s)}
<1>1. s \in [1 .. Len(s) -> S]
  BY Zenon DEF IsSequence
<1> QED
  BY <1>1 DEF IsSequence

\* The members of Seq are sequences.
LEMMA TypeIsSequence ==
    ASSUME NEW S, NEW s \in Seq(S)
    PROVE  IsSequence(s)
<1>1. Len(s) \in Nat /\ s \in [1 .. Len(s) -> S]
  OBVIOUS
<1> QED
  BY Zenon, <1>1 DEF IsSequence

\* What is pushed comes last.
LEMMA AppendSequence ==
    ASSUME NEW s, IsSequence(s), NEW e
    PROVE  /\ IsSequence(Append(s, e)) /\ Len(Append(s, e)) = Len(s) + 1
           /\ \A i \in 1 .. Len(s) : Append(s, e)[i] = s[i]
           /\ Append(s, e)[Len(s) + 1] = e
           /\ Append(s, e) # <<>>
<1> DEFINE S == {s[i] : i \in 1 .. Len(s)} \union {e}
<1>1. s \in Seq(S) /\ e \in S
  <2>1. s \in Seq({s[i] : i \in 1 .. Len(s)})
    BY Zenon, SequenceHasType
  <2> QED
    BY <2>1
<1> HIDE DEF S
<1>2. Append(s, e) \in Seq(S)
  BY <1>1
<1>3. IsSequence(Append(s, e))
  BY Zenon, <1>2, TypeIsSequence
<1>4. /\ Len(Append(s, e)) = Len(s) + 1
      /\ \A i \in 1 .. Len(s) : Append(s, e)[i] = s[i]
      /\ Append(s, e)[Len(s) + 1] = e
      /\ Append(s, e) # <<>>
  BY <1>1
<1> QED
  BY Zenon, <1>3, <1>4

\* What is removed came first.
LEMMA TailSequence ==
    ASSUME NEW s, IsSequence(s), s # <<>>
    PROVE  /\ Len(s) \in Nat \ {0} /\ IsSequence(Tail(s)) /\ Len(Tail(s)) = Len(s) - 1
           /\ \A i \in 1 .. Len(s) - 1 : Tail(s)[i] = s[i + 1]
           /\ Head(s) = s[1]
           /\ Tail(s) # <<>> => Last(Tail(s)) = Last(s)
<1> DEFINE S == {s[i] : i \in 1 .. Len(s)}
<1>1. s \in Seq(S)
  BY Zenon, SequenceHasType
<1> HIDE DEF S
<1>2. /\ Len(s) \in Nat \ {0} /\ Tail(s) \in Seq(S) /\ Len(Tail(s)) = Len(s) - 1
      /\ \A i \in 1 .. Len(s) - 1 : Tail(s)[i] = s[i + 1]
      /\ Head(s) = s[1]
  BY <1>1
<1>3. Tail(s) # <<>> => Last(Tail(s)) = Last(s)
  BY <1>1, <1>2 DEF Last
<1>4. IsSequence(Tail(s))
  BY Zenon, <1>2, TypeIsSequence
<1> QED
  BY Zenon, <1>2, <1>3, <1>4

-----------------------------------------------------------------------------

\* What the synchronizer notes of the blocks that it hands over.
ElementOf(blocks) == [endHeight |-> Len(Last(blocks)), size |-> Len(blocks)]

\* The places of the synchronizer's ranges in the dispatcher, in their order.
Places(f) ==
    /\ f \in [1 .. Len(elements) -> 1 .. Len(queue)]
    /\ \A i, j \in 1 .. Len(elements) : i < j => f[i] < f[j]
    /\ \A k \in 1 .. Len(queue) : queue[k].own <=> \E i \in 1 .. Len(elements) : f[i] = k
    /\ \A i \in 1 .. Len(elements) : elements[i] = ElementOf(queue[f[i]].blocks)

\* The ranges that the synchronizer knows are those it has in the dispatcher.
RangesInQueue ==
    /\ IsSequence(elements) /\ IsSequence(queue)
    /\ \A k \in 1 .. Len(queue) : {"own", "source", "blocks", "status"} \subseteq DOMAIN queue[k]
    /\ \E f : Places(f)

\* What a task has that the flag is about.
TaskShape ==
    /\ "stage" \in DOMAIN task
    /\ task.stage = "Pull" => {"isCompared", "common"} \subseteq DOMAIN task
    /\ task.stage # "Idle" => pendingSync = TRUE

\* A task that continues a range continues the last one that waits, or else the last one that was removed; in that case
\* the state is dirty unless it was completed normally.
Continues ==
    /\ task.stage = "MaxHeight" /\ elements = <<>> /\ ~dirty => removed.status = "Normal"
    /\ task.stage = "Pull" /\ ~task.isCompared =>
        /\ elements # <<>> => Last(elements).endHeight = task.common
        /\ elements = <<>> /\ ~dirty => removed.status = "Normal"

IInv == RangesInQueue /\ TaskShape /\ Continues

\* Nothing is pushed and no task runs.
LEMMA InitHolds == Init => IInv
<1> SUFFICES ASSUME Init PROVE IInv
  BY Zenon
<1> USE DEF Init, SyncInit, NoTask
<1>1. IsSequence(<<>>) /\ Len(<<>>) = 0
  BY DEF IsSequence
<1>2. RangesInQueue
  <2>1. Places([i \in 1 .. 0 |-> 0])
    BY <1>1 DEF Places
  <2> QED
    BY <1>1, <2>1 DEF RangesInQueue
<1>3. TaskShape /\ Continues
  BY Zenon DEF TaskShape, Continues
<1> QED
  BY Zenon, <1>2, <1>3 DEF IInv

-----------------------------------------------------------------------------
(* The dispatcher and the elements. *)

\* An input of another source is appended.
LEMMA OtherInput ==
    ASSUME RangesInQueue, NEW source, NEW blocks, ProcessElement(source, blocks, FALSE), UNCHANGED elements
    PROVE  RangesInQueue'
<1> DEFINE input == [own |-> FALSE, source |-> source, blocks |-> blocks, status |-> "Pending"]
<1>1. PICK f : Places(f)
  BY Zenon DEF RangesInQueue
<1>2. queue' = Append(queue, input) /\ IsSequence(queue) /\ input.own = FALSE /\ {"own", "source", "blocks", "status"} \subseteq DOMAIN input
  BY Zenon DEF ProcessElement, RangesInQueue
<1> HIDE DEF input
<1>3. /\ IsSequence(queue') /\ Len(queue') = Len(queue) + 1 /\ Len(queue) \in Nat
      /\ \A k \in 1 .. Len(queue) : queue'[k] = queue[k]
      /\ queue'[Len(queue) + 1] = input
  BY <1>2, AppendSequence DEF IsSequence
<1>4. \A k \in 1 .. Len(queue') : k \in 1 .. Len(queue) \/ k = Len(queue) + 1
  BY <1>3
<1>5. \A k \in 1 .. Len(queue') : {"own", "source", "blocks", "status"} \subseteq DOMAIN queue'[k]
  BY Zenon, <1>2, <1>3, <1>4 DEF RangesInQueue
<1>6. Places(f)'
  <2>1. f \in [1 .. Len(elements) -> 1 .. Len(queue')]
    BY <1>1, <1>3 DEF Places
  <2>2. ASSUME NEW k \in 1 .. Len(queue')
        PROVE  queue'[k].own <=> \E i \in 1 .. Len(elements) : f[i] = k
    <3>1. CASE k \in 1 .. Len(queue)
      BY Zenon, <1>1, <1>3, <3>1 DEF Places
    <3>2. CASE k = Len(queue) + 1
      BY SMTT(30), <1>1, <1>2, <1>3, <3>2 DEF Places
    <3> QED
      BY Zenon, <1>4, <3>1, <3>2
  <2>3. \A i \in 1 .. Len(elements) : elements[i] = ElementOf(queue'[f[i]].blocks)
    BY Zenon, <1>1, <1>3 DEF Places
  <2> QED
    BY Zenon, <1>1, <2>1, <2>2, <2>3 DEF Places
<1> QED
  BY Zenon, <1>3, <1>5, <1>6 DEF RangesInQueue

\* A range of the synchronizer is appended to both.
LEMMA OwnInput ==
    ASSUME RangesInQueue, NEW source, NEW blocks, ProcessElement(source, blocks, TRUE),
           elements' = Append(elements, ElementOf(blocks))
    PROVE  RangesInQueue'
<1> DEFINE input == [own |-> TRUE, source |-> source, blocks |-> blocks, status |-> "Pending"]
<1>1. PICK f : Places(f)
  BY Zenon DEF RangesInQueue
<1>2. queue' = Append(queue, input) /\ IsSequence(queue) /\ IsSequence(elements) /\ input.own = TRUE
      /\ input.blocks = blocks /\ {"own", "source", "blocks", "status"} \subseteq DOMAIN input
  BY Zenon DEF ProcessElement, RangesInQueue
<1> HIDE DEF input
<1>3. /\ IsSequence(queue') /\ Len(queue') = Len(queue) + 1 /\ Len(queue) \in Nat
      /\ \A k \in 1 .. Len(queue) : queue'[k] = queue[k]
      /\ queue'[Len(queue) + 1] = input
  BY SMTT(30), <1>2, AppendSequence DEF IsSequence
<1>4. /\ IsSequence(elements') /\ Len(elements') = Len(elements) + 1 /\ Len(elements) \in Nat
      /\ \A i \in 1 .. Len(elements) : elements'[i] = elements[i]
      /\ elements'[Len(elements) + 1] = ElementOf(blocks)
  BY SMTT(30), <1>2, AppendSequence DEF IsSequence
<1>5. /\ \A k \in 1 .. Len(queue') : k \in 1 .. Len(queue) \/ k = Len(queue) + 1
      /\ \A i \in 1 .. Len(elements') : i \in 1 .. Len(elements) \/ i = Len(elements) + 1
  BY <1>3, <1>4
<1>6. \A k \in 1 .. Len(queue') : {"own", "source", "blocks", "status"} \subseteq DOMAIN queue'[k]
  BY Zenon, <1>2, <1>3, <1>5 DEF RangesInQueue
<1>g. PICK g : g = [i \in 1 .. Len(elements') |-> IF i = Len(elements) + 1 THEN Len(queue) + 1 ELSE f[i]]
  BY Zenon
<1>7. \A i \in 1 .. Len(elements) : g[i] = f[i] /\ f[i] \in 1 .. Len(queue)
  BY SMTT(30), <1>1, <1>4, <1>g DEF Places
<1>8. g[Len(elements) + 1] = Len(queue) + 1 /\ g \in [1 .. Len(elements') -> 1 .. Len(queue')]
  <2>1. Len(elements) + 1 \in 1 .. Len(elements') /\ Len(queue) + 1 \in 1 .. Len(queue')
    BY <1>3, <1>4
  <2>2. \A k \in 1 .. Len(queue) : k \in 1 .. Len(queue')
    BY <1>3
  <2> QED
    BY Zenon, <1>5, <1>7, <1>g, <2>1, <2>2
<1>9. Places(g)'
  <2>1. ASSUME NEW i \in 1 .. Len(elements'), NEW j \in 1 .. Len(elements'), i < j
        PROVE  g[i] < g[j]
    <3>1. CASE j \in 1 .. Len(elements)
      <4>1. i \in 1 .. Len(elements)
        BY <1>4, <2>1, <3>1
      <4> QED
        BY Zenon, <1>1, <1>7, <2>1, <3>1, <4>1 DEF Places
    <3>2. CASE j = Len(elements) + 1
      <4>1. i \in 1 .. Len(elements)
        BY <1>4, <2>1, <3>2
      <4>2. g[i] \in 1 .. Len(queue)
        BY Zenon, <1>7, <4>1
      <4> QED
        BY <1>3, <1>8, <3>2, <4>2
    <3> QED
      BY Zenon, <1>5, <3>1, <3>2
  <2>2. ASSUME NEW k \in 1 .. Len(queue')
        PROVE  queue'[k].own <=> \E i \in 1 .. Len(elements') : g[i] = k
    <3>1. CASE k \in 1 .. Len(queue)
      <4>1. queue'[k].own <=> \E i \in 1 .. Len(elements) : f[i] = k
        BY Zenon, <1>1, <1>3, <3>1 DEF Places
      <4>2. (\E i \in 1 .. Len(elements') : g[i] = k) <=> (\E i \in 1 .. Len(elements) : f[i] = k)
        <5>1. \A i \in 1 .. Len(elements) : i \in 1 .. Len(elements')
          BY <1>4
        <5>2. g[Len(elements) + 1] # k
          BY <1>3, <1>8, <3>1
        <5> QED
          BY Zenon, <1>5, <1>7, <5>1, <5>2
      <4> QED
        BY Zenon, <4>1, <4>2
    <3>2. CASE k = Len(queue) + 1
      <4>1. Len(elements) + 1 \in 1 .. Len(elements')
        BY <1>4
      <4> QED
        BY Zenon, <1>2, <1>3, <1>8, <3>2, <4>1
    <3> QED
      BY Zenon, <1>5, <3>1, <3>2
  <2>3. g \in [1 .. Len(elements') -> 1 .. Len(queue')]
    BY Zenon, <1>8
  <2>4. ASSUME NEW i \in 1 .. Len(elements')
        PROVE  elements'[i] = ElementOf(queue'[g[i]].blocks)
    <3>1. CASE i \in 1 .. Len(elements)
      BY <1>1, <1>3, <1>4, <1>7, <3>1 DEF Places
    <3>2. CASE i = Len(elements) + 1
      BY Zenon, <1>2, <1>3, <1>4, <1>8, <3>2
    <3> QED
      BY Zenon, <1>5, <3>1, <3>2
  <2> QED
    BY Zenon, <2>1, <2>2, <2>3, <2>4 DEF Places
<1> QED
  BY <1>3, <1>4, <1>6, <1>9 DEF RangesInQueue

\* A consumer sets the status of an input.
LEMMA StatusSet ==
    ASSUME RangesInQueue, NEW i, NEW status, SetStatus(i, status), UNCHANGED elements
    PROVE  RangesInQueue'
<1>1. PICK f : Places(f)
  BY Zenon DEF RangesInQueue
<1>2. IsSequence(queue) /\ Len(queue) \in Nat /\ queue = [k \in 1 .. Len(queue) |-> queue[k]]
  BY Zenon DEF RangesInQueue, IsSequence
<1>3. queue' = [k \in 1 .. Len(queue) |-> IF k = i THEN [queue[i] EXCEPT !.status = status] ELSE queue[k]]
  BY Zenon, <1>2 DEF SetStatus
<1>4. Len(queue') = Len(queue)
  BY <1>2, <1>3
<1>5. IsSequence(queue')
  BY Zenon, <1>2, <1>3, <1>4 DEF IsSequence
<1>6. \A k \in 1 .. Len(queue) :
        queue'[k].own = queue[k].own /\ queue'[k].blocks = queue[k].blocks /\ DOMAIN queue'[k] = DOMAIN queue[k]
  BY Zenon, <1>3 DEF RangesInQueue
<1>7. Places(f)'
  BY Zenon, <1>1, <1>4, <1>6 DEF Places
<1> QED
  BY Zenon, <1>4, <1>5, <1>6, <1>7 DEF RangesInQueue

\* remove is called for the first of the elements, and there is one.
LEMMA FirstOwn ==
    ASSUME RangesInQueue, queue # <<>>, queue[1].own, NEW f, Places(f)
    PROVE  elements # <<>> /\ Len(elements) \in Nat \ {0} /\ f[1] = 1
<1>1. Len(queue) \in Nat \ {0} /\ Len(elements) \in Nat
  BY Zenon, TailSequence DEF RangesInQueue, IsSequence
<1>2. PICK i \in 1 .. Len(elements) : f[i] = 1
  <2>1. 1 \in 1 .. Len(queue)
    BY <1>1
  <2> QED
    BY Zenon, <2>1 DEF Places
<1>3. 1 \in 1 .. Len(elements) /\ Len(elements) \in Nat \ {0} /\ (i = 1 \/ 1 < i)
  BY <1>1, <1>2
<1>4. f[1] \in 1 .. Len(queue)
  BY Zenon, <1>3 DEF Places
<1>5. 1 < i => f[1] < f[i]
  BY Zenon, <1>3 DEF Places
<1>6. f[1] = 1
  BY <1>1, <1>2, <1>3, <1>4, <1>5
<1>7. elements # <<>>
  BY <1>3
<1> QED
  BY Zenon, <1>3, <1>6, <1>7

\* The completion of one of the synchronizer's ranges takes the first element of both.
LEMMA OwnCompleted ==
    ASSUME RangesInQueue, queue # <<>>, queue[1].own, queue' = Tail(queue), elements' = Tail(elements)
    PROVE  RangesInQueue'
<1>1. PICK f : Places(f)
  BY Zenon DEF RangesInQueue
<1>2. elements # <<>> /\ Len(elements) \in Nat \ {0} /\ f[1] = 1
  BY Zenon, <1>1, FirstOwn
<1>3. /\ IsSequence(queue') /\ Len(queue') = Len(queue) - 1 /\ Len(queue) \in Nat \ {0}
      /\ \A k \in 1 .. Len(queue) - 1 : queue'[k] = queue[k + 1]
  BY Zenon, TailSequence DEF RangesInQueue
<1>4. /\ IsSequence(elements') /\ Len(elements') = Len(elements) - 1
      /\ \A i \in 1 .. Len(elements') : elements'[i] = elements[i + 1]
  BY Zenon, <1>2, TailSequence DEF RangesInQueue
<1>5. \A k \in 1 .. Len(queue') : k + 1 \in 1 .. Len(queue) /\ queue'[k] = queue[k + 1]
  BY <1>3
<1>6. \A k \in 1 .. Len(queue') : {"own", "source", "blocks", "status"} \subseteq DOMAIN queue'[k]
  BY Zenon, <1>5 DEF RangesInQueue
<1>g. PICK g : g = [i \in 1 .. Len(elements') |-> f[i + 1] - 1]
  BY Zenon
<1>7. ASSUME NEW i \in 1 .. Len(elements')
      PROVE  i + 1 \in 1 .. Len(elements) /\ g[i] = f[i + 1] - 1 /\ f[i + 1] \in 1 .. Len(queue) /\ 1 < f[i + 1]
  <2>1. i + 1 \in 1 .. Len(elements) /\ 1 \in 1 .. Len(elements) /\ 1 < i + 1
    BY <1>2, <1>4
  <2> QED
    BY Zenon, <1>1, <1>2, <1>g, <2>1 DEF Places
<1>8. \A i \in 1 .. Len(elements') : g[i] \in 1 .. Len(queue')
  BY <1>3, <1>7
<1>9. Places(g)'
  <2>1. g \in [1 .. Len(elements') -> 1 .. Len(queue')]
    BY Zenon, <1>8, <1>g
  <2>2. ASSUME NEW i \in 1 .. Len(elements'), NEW j \in 1 .. Len(elements'), i < j
        PROVE  g[i] < g[j]
    <3>1. i + 1 < j + 1
      BY <1>2, <1>4, <2>2
    <3>2. f[i + 1] < f[j + 1]
      BY Zenon, <1>1, <1>7, <3>1 DEF Places
    <3> QED
      BY SMTT(30), <1>3, <1>7, <3>2
  <2>3. ASSUME NEW k \in 1 .. Len(queue')
        PROVE  queue'[k].own <=> \E i \in 1 .. Len(elements') : g[i] = k
    <3>1. queue'[k].own <=> \E i \in 1 .. Len(elements) : f[i] = k + 1
      BY Zenon, <1>1, <1>5 DEF Places
    <3>2. ASSUME NEW i \in 1 .. Len(elements), f[i] = k + 1
          PROVE  \E j \in 1 .. Len(elements') : g[j] = k
      <4>1. i # 1
        BY <1>2, <1>3, <3>2
      <4>2. i - 1 \in 1 .. Len(elements') /\ (i - 1) + 1 = i
        BY <1>2, <1>4, <4>1
      <4>3. g[i - 1] = f[i] - 1
        BY Zenon, <1>7, <4>2
      <4> QED
        BY <1>3, <3>2, <4>2, <4>3
    <3>3. ASSUME NEW j \in 1 .. Len(elements'), g[j] = k
          PROVE  \E i \in 1 .. Len(elements) : f[i] = k + 1
      <4>1. f[j + 1] = k + 1 /\ j + 1 \in 1 .. Len(elements)
        BY <1>3, <1>7, <3>3
      <4> QED
        BY Zenon, <4>1
    <3> QED
      BY Zenon, <3>1, <3>2, <3>3
  <2>4. ASSUME NEW i \in 1 .. Len(elements')
        PROVE  elements'[i] = ElementOf(queue'[g[i]].blocks)
    <3>1. elements'[i] = ElementOf(queue[f[i + 1]].blocks)
      BY Zenon, <1>1, <1>4, <1>7 DEF Places
    <3>2. g[i] \in 1 .. Len(queue') /\ g[i] + 1 = f[i + 1]
      BY SMTT(30), <1>3, <1>7, <1>8
    <3> QED
      BY Zenon, <1>5, <3>1, <3>2
  <2> QED
    BY Zenon, <2>1, <2>2, <2>3, <2>4 DEF Places
<1> QED
  BY Zenon, <1>3, <1>4, <1>6, <1>9 DEF RangesInQueue

\* The completion of an input of another source.
LEMMA OtherCompleted ==
    ASSUME RangesInQueue, queue # <<>>, ~queue[1].own, queue' = Tail(queue), UNCHANGED elements
    PROVE  RangesInQueue'
<1>1. PICK f : Places(f)
  BY Zenon DEF RangesInQueue
<1>2. Len(elements) \in Nat
  BY Zenon DEF RangesInQueue, IsSequence
<1>3. /\ IsSequence(queue') /\ Len(queue') = Len(queue) - 1 /\ Len(queue) \in Nat \ {0}
      /\ \A k \in 1 .. Len(queue) - 1 : queue'[k] = queue[k + 1]
  BY Zenon, TailSequence DEF RangesInQueue
<1>4. \A k \in 1 .. Len(queue') : k + 1 \in 1 .. Len(queue) /\ queue'[k] = queue[k + 1]
  BY <1>3
<1>5. \A k \in 1 .. Len(queue') : {"own", "source", "blocks", "status"} \subseteq DOMAIN queue'[k]
  BY Zenon, <1>4 DEF RangesInQueue
<1>g. PICK g : g = [i \in 1 .. Len(elements) |-> f[i] - 1]
  BY Zenon
<1>6. \A i \in 1 .. Len(elements) : g[i] = f[i] - 1 /\ f[i] \in 1 .. Len(queue) /\ f[i] # 1
  <2>1. 1 \in 1 .. Len(queue)
    BY <1>3
  <2> QED
    BY Zenon, <1>1, <1>g, <2>1 DEF Places
<1>7. \A i \in 1 .. Len(elements) : g[i] \in 1 .. Len(queue')
  BY <1>3, <1>6
<1>8. Places(g)'
  <2>1. g \in [1 .. Len(elements) -> 1 .. Len(queue')]
    BY Zenon, <1>7, <1>g
  <2>2. ASSUME NEW i \in 1 .. Len(elements), NEW j \in 1 .. Len(elements), i < j
        PROVE  g[i] < g[j]
    <3>1. f[i] < f[j]
      BY Zenon, <1>1, <2>2 DEF Places
    <3> QED
      BY <1>3, <1>6, <3>1
  <2>3. ASSUME NEW k \in 1 .. Len(queue')
        PROVE  queue'[k].own <=> \E i \in 1 .. Len(elements) : g[i] = k
    <3>1. queue'[k].own <=> \E i \in 1 .. Len(elements) : f[i] = k + 1
      BY Zenon, <1>1, <1>4 DEF Places
    <3>2. \A i \in 1 .. Len(elements) : f[i] = k + 1 <=> g[i] = k
      BY <1>3, <1>6
    <3> QED
      BY Zenon, <3>1, <3>2
  <2>4. ASSUME NEW i \in 1 .. Len(elements)
        PROVE  elements[i] = ElementOf(queue'[g[i]].blocks)
    <3>1. elements[i] = ElementOf(queue[f[i]].blocks)
      BY Zenon, <1>1 DEF Places
    <3>2. g[i] \in 1 .. Len(queue') /\ g[i] + 1 = f[i]
      BY <1>3, <1>6, <1>7
    <3> QED
      BY Zenon, <1>4, <3>1, <3>2
  <2> QED
    BY Zenon, <2>1, <2>2, <2>3, <2>4 DEF Places
<1> QED
  BY Zenon, <1>3, <1>5, <1>8 DEF RangesInQueue

-----------------------------------------------------------------------------
(* The task. *)

\* The task does not move, though a history field of it may change.
SameTask ==
    /\ "stage" \in DOMAIN task' /\ task'.stage = task.stage
    /\ task.stage = "Pull" =>
        /\ {"isCompared", "common"} \subseteq DOMAIN task'
        /\ task'.isCompared = task.isCompared /\ task'.common = task.common

\* The task moves to a stage in which it does not continue a range.
OtherStage ==
    /\ task.stage # "Idle"
    /\ "stage" \in DOMAIN task' /\ task'.stage # "MaxHeight"
    /\ task'.stage = "Pull" => {"isCompared", "common"} \subseteq DOMAIN task' /\ task'.isCompared = TRUE

\* A step during which the task stays where it is.
LEMMA SameTaskKeeps ==
    ASSUME TaskShape, Continues, SameTask, UNCHANGED unprocessedVars
    PROVE  TaskShape' /\ Continues'
BY Zenon DEF TaskShape, Continues, SameTask, unprocessedVars

\* A step after which the task does not continue a range.
LEMMA OtherStageKeeps ==
    ASSUME TaskShape, OtherStage, UNCHANGED pendingSync
    PROVE  TaskShape' /\ Continues'
BY Zenon DEF TaskShape, Continues, OtherStage

\* Taking notes of what happens during a comparison does not move the task.
LEMMA DisturbKeeps ==
    ASSUME TaskShape, Disturb \/ UNCHANGED task
    PROVE  SameTask
BY Zenon DEF TaskShape, Disturb, SameTask

\* The steps of a comparison with a peer (CompareChains).
LEMMA CompareKeeps ==
    ASSUME IInv, CompareStep
    PROVE  IInv'
<1> USE DEF IInv
<1>1. UNCHANGED <<queue, elements, pendingSync, dirty, removed>>
  BY Zenon DEF CompareStep, CheckEmpty, ReadMaxHeight, ReadLowerBound, ReadLocalHeight, ReadLocalScore,
      CompareChainStatistics, ReadLocalHashes, ReceiveHashes, CompareLocalScore, TaskStep, unprocessedVars
<1>2. RangesInQueue'
  BY ZenonT(60), <1>1 DEF RangesInQueue, Places
<1>3. CASE CheckEmpty
  BY <1>1, <1>2, <1>3 DEF CheckEmpty, TaskStep, TaskShape, Continues
<1>4. CASE ReadMaxHeight
  BY Zenon, <1>1, <1>2, <1>4 DEF ReadMaxHeight, TaskStep, SyncWithPeer, TaskShape, Continues
<1>5. CASE \/ ReadLowerBound \/ ReadLocalHeight \/ ReadLocalScore \/ CompareChainStatistics
           \/ ReadLocalHashes \/ ReceiveHashes \/ CompareLocalScore
  <2> SUFFICES OtherStage
    BY Zenon, <1>1, <1>2, OtherStageKeeps
  <2> USE DEF TaskStep, OtherStage, TaskShape, Done
  <2>1. CASE ReadLowerBound
    BY Zenon, <2>1 DEF ReadLowerBound
  <2>2. CASE ReadLocalHeight
    BY Zenon, <2>2 DEF ReadLocalHeight
  <2>3. CASE ReadLocalScore
    BY Zenon, <2>3 DEF ReadLocalScore
  <2>4. CASE CompareChainStatistics
    BY Zenon, <2>4 DEF CompareChainStatistics
  <2>5. CASE ReadLocalHashes
    BY Zenon, <2>5 DEF ReadLocalHashes
  <2>6. CASE ReceiveHashes
    BY Zenon, <2>6 DEF ReceiveHashes, CompareHashes, TryContinue, SyncWithPeer
  <2>7. CASE CompareLocalScore
    BY Zenon, <2>7 DEF CompareLocalScore
  <2> QED
    BY Zenon, <1>5, <2>1, <2>2, <2>3, <2>4, <2>5, <2>6, <2>7
<1> QED
  BY Zenon, <1>3, <1>4, <1>5 DEF CompareStep

\* One answer to a pull, the last of which hands the range over.
LEMMA PullKeeps ==
    ASSUME IInv, ChainBlocksFrom
    PROVE  IInv'
<1> USE DEF IInv
<1> DEFINE range == BlocksFrom(Remote, task.common + Len(task.blocks) + 1)
           blocks == task.blocks \o range
<1>1. CASE ~IsComplete(range, blocks)
  <2>1. SameTask /\ UNCHANGED <<queue, unprocessedVars>>
    BY Zenon, <1>1 DEF ChainBlocksFrom, TaskShape, SameTask, unprocessedVars
  <2>2. RangesInQueue'
    BY ZenonT(60), <2>1 DEF RangesInQueue, Places, unprocessedVars
  <2> QED
    BY Zenon, <2>1, <2>2, SameTaskKeeps
<1>2. CASE IsComplete(range, blocks)
  <2>1. OtherStage /\ UNCHANGED pendingSync /\ (UNCHANGED <<queue, elements>> \/ AddElement(blocks))
    BY <1>2 DEF ChainBlocksFrom, OtherStage, Done
  <2> HIDE DEF blocks
  <2>2. RangesInQueue'
    <3>1. CASE UNCHANGED <<queue, elements>>
      BY Zenon, <3>1 DEF RangesInQueue, Places
    <3>2. CASE CanAdd /\ AddElement(blocks)
      BY Zenon, <3>2, OwnInput DEF AddElement, ElementOf
    <3> QED
      BY Zenon, <2>1, <3>1, <3>2 DEF AddElement
  <2> QED
    BY Zenon, <2>1, <2>2, OtherStageKeeps
<1> QED
  BY Zenon, <1>1, <1>2

\* remove sets the flag for a range that the task continues.
LEMMA CompleteKeeps ==
    ASSUME IInv, Complete
    PROVE  IInv'
<1> USE DEF IInv
<1>1. queue # <<>> /\ queue' = Tail(queue) /\ Head(queue) = queue[1] /\ UNCHANGED <<pendingSync, task>>
  BY Zenon, TailSequence DEF Complete, IsProcessed, RangesInQueue
<1>2. CASE queue[1].own
  <2>1. /\ elements' = Tail(elements)
        /\ dirty' = (HasPendingOperation' /\ queue[1].status # "Normal")
        /\ removed'.status = queue[1].status
    BY <1>1, <1>2 DEF Complete, RemoveElement
  <2>2. elements # <<>>
    BY Zenon, <1>1, <1>2, FirstOwn DEF RangesInQueue
  <2>3. elements' # <<>> => Last(elements') = Last(elements)
    BY Zenon, <2>1, <2>2, TailSequence DEF RangesInQueue
  <2>4. task.stage # "Idle" /\ ~dirty' => removed'.status = "Normal"
    BY ZenonT(60), <1>1, <2>1 DEF HasPendingOperation, TaskShape
  <2>5. RangesInQueue'
    BY Zenon, <1>1, <1>2, <2>1, OwnCompleted
  <2>6. TaskShape' /\ Continues'
    BY Zenon, <1>1, <2>2, <2>3, <2>4 DEF TaskShape, Continues
  <2> QED
    BY Zenon, <2>5, <2>6
<1>3. CASE ~queue[1].own
  <2>1. UNCHANGED <<elements, dirty, removed>>
    BY Zenon, <1>1, <1>3 DEF Complete
  <2>2. RangesInQueue'
    BY Zenon, <1>1, <1>3, <2>1, OtherCompleted
  <2> QED
    BY Zenon, <1>1, <2>1, <2>2 DEF TaskShape, Continues
<1> QED
  BY Zenon, <1>2, <1>3

\* Steps of the dispatcher.
LEMMA DispatcherKeeps ==
    ASSUME IInv, DispatcherStep
    PROVE  IInv'
<1> USE DEF IInv
<1>1. CASE Consume /\ UNCHANGED <<peers, unprocessedVars, task>>
  <2>1. UNCHANGED queue \/ SetStatus(NextPending, "Aborted")
    BY Zenon, <1>1 DEF Consume, Refuse, ReadLocalFinalized, ReadNetworkFinalized, Advance
  <2>2. RangesInQueue'
    <3>1. CASE UNCHANGED queue
      BY ZenonT(60), <1>1, <3>1 DEF unprocessedVars, RangesInQueue, Places
    <3>2. CASE SetStatus(NextPending, "Aborted")
      BY Zenon, <1>1, <3>2, StatusSet DEF unprocessedVars
    <3> QED
      BY Zenon, <2>1, <3>1, <3>2
  <2> QED
    BY Zenon, <1>1, <2>2, DisturbKeeps, SameTaskKeeps
<1>2. CASE Sync /\ Disturb /\ UNCHANGED <<peers, unprocessedVars>>
  <2>1. SetStatus(NextPending, "Normal") \/ SetStatus(NextPending, "Aborted")
    BY Zenon, <1>2 DEF Sync
  <2>2. RangesInQueue'
    BY Zenon, <1>2, <2>1, StatusSet DEF unprocessedVars
  <2> QED
    BY Zenon, <1>2, <2>2, DisturbKeeps, SameTaskKeeps
<1>3. CASE Complete
  BY Zenon, <1>3, CompleteKeeps
<1> QED
  BY Zenon, <1>1, <1>2, <1>3 DEF DispatcherStep

\* One step of the synchronizer, the dispatcher or the peers.
LEMMA StepKeeps ==
    ASSUME IInv, [Next]_vars
    PROVE  IInv'
<1> USE DEF IInv
<1>1. CASE Input /\ UNCHANGED <<peers, unprocessedVars, task>>
  <2>1. PICK source, blocks : ProcessElement(source, blocks, FALSE)
    BY Zenon, <1>1 DEF Input, Harvest, PushBlock
  <2>2. RangesInQueue'
    BY Zenon, <1>1, <2>1, OtherInput DEF unprocessedVars
  <2> QED
    BY Zenon, <1>1, <2>2, DisturbKeeps, SameTaskKeeps
<1>2. ASSUME NEW block \in Chains, NEW isNewEpoch \in BOOLEAN,
             SaveProof(block, isNewEpoch) /\ Disturb /\ UNCHANGED <<peers, unprocessedVars>>
      PROVE  IInv'
  <2>1. RangesInQueue'
    BY Zenon, <1>2 DEF SaveProof, unprocessedVars, RangesInQueue, Places
  <2> QED
    BY Zenon, <1>2, <2>1, DisturbKeeps, SameTaskKeeps
<1>3. ASSUME NEW p \in Peers, PeerChange(p)
      PROVE  IInv'
  <2>1. (Disturb \/ UNCHANGED task) /\ UNCHANGED <<queue, unprocessedVars>>
    BY Zenon, <1>3 DEF PeerChange
  <2>2. RangesInQueue'
    BY ZenonT(60), <2>1 DEF unprocessedVars, RangesInQueue, Places
  <2> QED
    BY <2>1, <2>2, DisturbKeeps, SameTaskKeeps
<1>4. CASE DispatcherStep
  BY <1>4, DispatcherKeeps
<1>5. ASSUME NEW p \in Peers, ShouldStartSync(p)
      PROVE  IInv'
  BY ZenonT(60), <1>5 DEF ShouldStartSync, RangesInQueue, Places, TaskShape, Continues
<1>6. CASE CompareStep
  BY <1>6, CompareKeeps
<1>7. CASE ChainBlocksFrom
  BY <1>7, PullKeeps
<1>8. CASE ClearPendingSync
  BY <1>8 DEF ClearPendingSync, RangesInQueue, Places, TaskShape, Continues, NoTask
<1>9. CASE RequestFails
  <2>1. OtherStage /\ UNCHANGED <<queue, unprocessedVars>>
    BY Zenon, <1>9 DEF RequestFails, OtherStage, Done
  <2>2. RangesInQueue'
    BY ZenonT(60), <2>1 DEF unprocessedVars, RangesInQueue, Places
  <2> QED
    BY <2>1, <2>2, OtherStageKeeps DEF unprocessedVars
<1>10. CASE UNCHANGED vars
  BY <1>10 DEF vars, unprocessedVars, RangesInQueue, Places, TaskShape, Continues
<1> QED
  BY Zenon, <1>1, <1>2, <1>3, <1>4, <1>5, <1>6, <1>7, <1>8, <1>9, <1>10 DEF Next, SyncStep

\* The inductive invariant holds in every state.
LEMMA Inductive == Spec => []IInv
BY InitHolds, StepKeeps, PTL DEF Spec

-----------------------------------------------------------------------------

\* The completion of a range always finds it first in the list of the unprocessed elements, with its end height and its
\* size, for all chains, batch sizes and limits: the bytes that are counted are those that wait in the dispatcher.
THEOREM ElementsStayMatched == Spec => []ElementsMatchQueue
<1>1. IInv => ElementsMatchQueue
  <2> SUFFICES ASSUME IInv PROVE ElementsMatchQueue
    BY Zenon
  <2>1. PICK f : Places(f)
    BY Zenon DEF IInv, RangesInQueue
  <2>2. DOMAIN elements = 1 .. Len(elements) /\ DOMAIN queue = 1 .. Len(queue)
    BY Zenon DEF IInv, RangesInQueue, IsSequence
  <2>3. f \in [DOMAIN elements -> DOMAIN queue]
    BY Zenon, <2>1, <2>2 DEF Places
  <2>4. /\ \A i, j \in DOMAIN elements : i < j => f[i] < f[j]
        /\ \A k \in DOMAIN queue : queue[k].own <=> \E i \in DOMAIN elements : f[i] = k
    BY Zenon, <2>1, <2>2 DEF Places
  <2>5. \A i \in DOMAIN elements : elements[i] = ElementOf(queue[f[i]].blocks)
    BY Zenon, <2>1, <2>2 DEF Places
  <2> QED
    BY Zenon, <2>3, <2>4, <2>5 DEF ElementsMatchQueue, ElementOf
<1> QED
  BY <1>1, Inductive, PTL

\* Only an answer to a pull hands a range over, and only while the state is not dirty.
LEMMA HandsOver ==
    ASSUME IInv, [Next]_vars, Len(elements') > Len(elements)
    PROVE  task.stage = "Pull" /\ ~dirty
<1>1. Len(elements) \in Nat
  BY Zenon DEF IInv, RangesInQueue, IsSequence
<1>2. elements' # elements
  BY <1>1
<1>3. ~Complete
  <2> SUFFICES ASSUME Complete PROVE FALSE
    BY Zenon
  <2>1. queue # <<>> /\ Head(queue) = queue[1]
    BY Zenon, TailSequence DEF Complete, IsProcessed, IInv, RangesInQueue
  <2>2. queue[1].own /\ elements' = Tail(elements)
    BY Zenon, <1>2, <2>1 DEF Complete, RemoveElement
  <2>3. elements # <<>>
    BY Zenon, <2>1, <2>2, FirstOwn DEF IInv, RangesInQueue
  <2>4. Len(elements') = Len(elements) - 1
    BY Zenon, <2>2, <2>3, TailSequence DEF IInv, RangesInQueue
  <2> QED
    BY <1>1, <2>4
<1>4. ~CompareStep
  BY Zenon, <1>2 DEF CompareStep, CheckEmpty, ReadMaxHeight, ReadLowerBound, ReadLocalHeight, ReadLocalScore,
      CompareChainStatistics, ReadLocalHashes, ReceiveHashes, CompareLocalScore, TaskStep, unprocessedVars
<1>5. ChainBlocksFrom
  BY Zenon, <1>2, <1>3, <1>4 DEF Next, DispatcherStep, SyncStep, PeerChange, ShouldStartSync, ClearPendingSync, RequestFails,
      unprocessedVars, vars
<1> QED
  BY Zenon, <1>2, <1>5 DEF ChainBlocksFrom, AddElement, CanAdd

\* Blocks that were pulled on top of a range are handed over only while that range waits in the dispatcher or after it
\* was completed normally, however completions, the end of a synchronization and the reading of maxHeight interleave.
THEOREM ContinuesOnlyAccepted == Spec => ContinuesAcceptedRange
<1>1. ASSUME IInv, [Next]_vars
      PROVE  [Len(elements') > Len(elements) =>
                \/ task.isCompared
                \/ elements # <<>> /\ Last(elements).endHeight = task.common
                \/ elements = <<>> /\ removed.status = "Normal"]_vars
  <2>1. IInv /\ [Next]_vars
    BY Zenon, <1>1
  <2> QED
    BY Zenon, <2>1, HandsOver DEF IInv, Continues
<1> QED
  BY <1>1, Inductive, PTL DEF Spec, ContinuesAcceptedRange

-----------------------------------------------------------------------------
(* Numbers, chains and scores. *)

\* A set of numbers has a least one.
LEMMA LeastExists ==
    ASSUME NEW T \in SUBSET Nat, T # {}
    PROVE  \E x \in T : \A y \in T : x <= y
<1> DEFINE Less == OpToRel(<, Nat)
<1>1. \A m, n \in Nat : m < n => <<m, n>> \in Less
  BY Zenon DEF OpToRel
<1>2. IsWellFoundedOn(Less, Nat)
  BY Zenon, NatLessThanWellFounded
<1> HIDE DEF Less
<1>3. PICK x \in T : \A y \in T : <<y, x>> \notin Less
  BY Zenon, <1>2, WFMin
<1>4. \A y \in T : ~(y < x)
  BY Zenon, <1>1, <1>3
<1> QED
  BY <1>4

\* Induction up to a bound.
LEMMA Induct ==
    ASSUME NEW n \in Nat, NEW S, 0 \in S, \A m \in 0 .. n - 1 : m \in S => m + 1 \in S
    PROVE  \A m \in 0 .. n : m \in S
<1> DEFINE T == {m \in 0 .. n : m \notin S}
<1> SUFFICES ASSUME T # {} PROVE FALSE
  BY Zenon
<1>1. PICK x \in T : \A y \in T : x <= y
  <2>1. T \in SUBSET Nat
    OBVIOUS
  <2> HIDE DEF T
  <2> QED
    BY Zenon, <2>1, LeastExists
<1>2. x \in 0 .. n /\ x \notin S /\ x # 0
  BY Zenon, <1>1
<1>3. x - 1 \in 0 .. n - 1 /\ (x - 1) + 1 = x
  BY <1>2
<1>4. x - 1 \in S
  BY <1>1, <1>2, <1>3
<1> QED
  BY Zenon, <1>2, <1>3, <1>4

\* The first of a set of places.
LEMMA MinIs ==
    ASSUME NEW T \in SUBSET Nat, T # {}
    PROVE  Min(T) \in T /\ \A y \in T : Min(T) <= y
BY Zenon, LeastExists DEF Min

\* The last of a set of places.
LEMMA MaxIs ==
    ASSUME NEW n \in Nat, NEW T \in SUBSET (0 .. n), T # {}
    PROVE  Max(T) \in T /\ \A y \in T : Max(T) >= y
<1> DEFINE D == {n - y : y \in T}
<1>1. D \in SUBSET Nat /\ D # {}
  <2>1. \A y \in T : n - y \in Nat
    OBVIOUS
  <2> QED
    BY Zenon, <2>1
<1>2. PICK x \in D : \A z \in D : x <= z
  <2> HIDE DEF D
  <2> QED
    BY Zenon, <1>1, LeastExists
<1>3. PICK y \in T : x = n - y
  BY Zenon, <1>2
<1>4. ASSUME NEW z \in T PROVE y >= z
  <2>1. n - y <= n - z
    BY Zenon, <1>2, <1>3
  <2> QED
    BY <1>3, <2>1
<1> QED
  BY Zenon, <1>3, <1>4 DEF Max

\* The smaller one of two numbers.
LEMMA MinOfTwo ==
    ASSUME NEW a \in Int, NEW b \in Int
    PROVE  Min({a, b}) \in {a, b} /\ Min({a, b}) <= a /\ Min({a, b}) <= b
<1>1. \E x \in {a, b} : \A y \in {a, b} : x <= y
  <2>1. CASE a <= b
    BY <2>1
  <2>2. CASE b <= a
    BY <2>2
  <2> QED
    BY <2>1, <2>2
<1>2. Min({a, b}) \in {a, b} /\ \A y \in {a, b} : Min({a, b}) <= y
  BY Zenon, <1>1 DEF Min
<1> QED
  BY Zenon, <1>2

\* The chains of the proofs: scores of blocks that begin with the nemesis block.
AnyChain == {c \in Seq(Nat) : IsPrefix(Nemesis, c)}

\* The blocks of a prefix.
LEMMA PrefixIs ==
    ASSUME NEW s \in Seq(Int), NEW t \in Seq(Int)
    PROVE  IsPrefix(s, t) <=> Len(s) <= Len(t) /\ \A i \in 1 .. Len(s) : s[i] = t[i]
<1>1. Len(s) \in Nat /\ Len(t) \in Nat
  OBVIOUS
<1>2. SubSeq(s, 1, Len(s)) \in Seq(Int) /\ Len(SubSeq(s, 1, Len(s))) = Len(s)
      /\ \A i \in 1 .. Len(s) : SubSeq(s, 1, Len(s))[i] = s[i]
  BY <1>1
<1>3. Len(s) <= Len(t) => /\ SubSeq(t, 1, Len(s)) \in Seq(Int) /\ Len(SubSeq(t, 1, Len(s))) = Len(s)
                          /\ \A i \in 1 .. Len(s) : SubSeq(t, 1, Len(s))[i] = t[i]
  BY <1>1
<1>4. ASSUME IsPrefix(s, t) PROVE Len(s) <= Len(t) /\ \A i \in 1 .. Len(s) : s[i] = t[i]
  BY Zenon, <1>2, <1>3, <1>4 DEF IsPrefix
<1>5. ASSUME Len(s) <= Len(t), \A i \in 1 .. Len(s) : s[i] = t[i] PROVE IsPrefix(s, t)
  <2>1. SubSeq(s, 1, Len(s)) = SubSeq(t, 1, Len(s))
    BY <1>2, <1>3, <1>5
  <2> QED
    BY Zenon, <1>5, <2>1 DEF IsPrefix
<1> QED
  BY Zenon, <1>4, <1>5

\* What continues a continuation continues the chain.
LEMMA PrefixTransitive ==
    ASSUME NEW s \in Seq(Int), NEW t \in Seq(Int), NEW u \in Seq(Int), IsPrefix(s, t), IsPrefix(t, u)
    PROVE  IsPrefix(s, u)
<1>1. Len(s) \in Nat /\ Len(t) \in Nat /\ Len(u) \in Nat
  OBVIOUS
<1> QED
  BY <1>1, PrefixIs

\* A chain is a prefix of itself.
LEMMA PrefixReflexive ==
    ASSUME NEW s \in Seq(Int)
    PROVE  IsPrefix(s, s)
BY PrefixIs

\* Of two prefixes of one chain, the shorter one is a prefix of the other.
LEMMA PrefixesNest ==
    ASSUME NEW s \in Seq(Int), NEW t \in Seq(Int), NEW u \in Seq(Int), IsPrefix(s, u), IsPrefix(t, u), Len(s) <= Len(t)
    PROVE  IsPrefix(s, t)
<1>1. Len(s) \in Nat /\ Len(t) \in Nat /\ Len(u) \in Nat
  OBVIOUS
<1> QED
  BY <1>1, PrefixIs

\* A sequence without its last element.
LEMMA FrontHas ==
    ASSUME NEW S, NEW s \in Seq(S), Len(s) >= 1
    PROVE  Front(s) \in Seq(S) /\ Len(Front(s)) = Len(s) - 1 /\ \A i \in 1 .. Len(s) - 1 : Front(s)[i] = s[i]
<1>1. Len(s) \in Nat /\ Len(s) - 1 \in 0 .. Len(s)
  OBVIOUS
<1>2. \A n \in 0 .. Len(s) : SubSeq(s, 1, n) \in Seq(S) /\ Len(SubSeq(s, 1, n)) = n
  BY <1>1
<1>3. \A n \in 0 .. Len(s) : \A i \in 1 .. n : SubSeq(s, 1, n)[i] = s[i]
  BY <1>1
<1> QED
  BY Zenon, <1>1, <1>2, <1>3 DEF Front

\* A chain without its last block.
LEMMA FrontIs ==
    ASSUME NEW s \in Seq(Int), Len(s) >= 1
    PROVE  Front(s) \in Seq(Int) /\ Len(Front(s)) = Len(s) - 1 /\ IsPrefix(Front(s), s)
<1>1. Front(s) \in Seq(Int) /\ Len(Front(s)) = Len(s) - 1 /\ \A i \in 1 .. Len(s) - 1 : Front(s)[i] = s[i]
  BY Zenon, FrontHas
<1>2. Len(Front(s)) <= Len(s) /\ \A i \in 1 .. Len(Front(s)) : Front(s)[i] = s[i]
  BY <1>1
<1>3. IsPrefix(Front(s), s)
  BY Zenon, <1>1, <1>2, PrefixIs
<1> QED
  BY Zenon, <1>1, <1>3

\* A chain has blocks.
LEMMA ChainHasBlocks ==
    ASSUME NEW c \in AnyChain
    PROVE  c \in Seq(Int) /\ Len(c) \in Nat /\ Len(c) >= 1
<1>1. c \in Seq(Nat) /\ c \in Seq(Int) /\ IsPrefix(Nemesis, c)
  BY DEF AnyChain
<1>2. Nemesis \in Seq(Int) /\ Len(Nemesis) = 1
  BY DEF Nemesis
<1> QED
  BY <1>1, <1>2 DEF IsPrefix

\* The first blocks of a chain are a chain.
LEMMA PrefixIsChain ==
    ASSUME NEW c \in AnyChain, NEW n \in 1 .. Len(c)
    PROVE  SubSeq(c, 1, n) \in AnyChain
<1>1. c \in Seq(Int) /\ Len(c) \in Nat /\ IsPrefix(Nemesis, c)
  BY Zenon, ChainHasBlocks DEF AnyChain
<1>2. Nemesis \in Seq(Int) /\ Len(Nemesis) = 1
  BY DEF Nemesis
<1>3. SubSeq(c, 1, n) \in Seq(Int) /\ Len(SubSeq(c, 1, n)) = n /\ \A i \in 1 .. n : SubSeq(c, 1, n)[i] = c[i]
  BY <1>1
<1>4. \A i \in 1 .. 1 : Nemesis[i] = c[i]
  BY Zenon, <1>1, <1>2, PrefixIs
<1>5. IsPrefix(Nemesis, SubSeq(c, 1, n))
  <2>1. 1 <= n
    OBVIOUS
  <2>2. \A i \in 1 .. 1 : Nemesis[i] = SubSeq(c, 1, n)[i]
    BY <1>3, <1>4
  <2> QED
    BY Zenon, <1>2, <1>3, <2>1, <2>2, PrefixIs
<1>6. SubSeq(c, 1, n) \in Seq(Nat)
  <2>1. c \in Seq(Nat)
    BY Zenon DEF AnyChain
  <2> QED
    BY <1>1, <2>1
<1> QED
  BY Zenon, <1>5, <1>6 DEF AnyChain

\* Linked blocks end in a chain that contains all of them.
LEMMA LinkedBlocks ==
    ASSUME NEW blocks \in Seq(AnyChain), Len(blocks) >= 1, IsChain(blocks)
    PROVE  \A i \in 1 .. Len(blocks) : IsPrefix(blocks[i], Last(blocks))
<1> DEFINE n == Len(blocks)
           S == {k \in Nat : k <= n - 1 => IsPrefix(blocks[n - k], blocks[n])}
<1>1. n \in Nat /\ n >= 1
  OBVIOUS
<1>2. \A i \in 1 .. n : blocks[i] \in AnyChain
  OBVIOUS
<1>3. \A i \in 1 .. n - 1 : Front(blocks[i + 1]) = blocks[i]
  BY Zenon DEF IsChain, IsChainLink
<1> HIDE DEF n
<1>4. 0 \in S
  <2>1. n - 0 = n /\ n \in 1 .. n
    BY <1>1
  <2>2. IsPrefix(blocks[n], blocks[n])
    BY Zenon, <1>2, <2>1, ChainHasBlocks, PrefixReflexive
  <2> QED
    BY Zenon, <2>1, <2>2
<1>5. ASSUME NEW m \in 0 .. n - 2, m \in S PROVE m + 1 \in S
  <2> DEFINE i == n - (m + 1)
  <2>1. i \in 1 .. n - 1 /\ i + 1 = n - m /\ i \in 1 .. n /\ i + 1 \in 1 .. n /\ n \in 1 .. n /\ m <= n - 1
    BY <1>1
  <2> HIDE DEF i
  <2>2. blocks[i] \in Seq(Int) /\ blocks[i + 1] \in Seq(Int) /\ Len(blocks[i + 1]) >= 1 /\ blocks[n] \in Seq(Int)
    BY Zenon, <1>2, <2>1, ChainHasBlocks
  <2>3. IsPrefix(blocks[i], blocks[i + 1])
    BY Zenon, <1>3, <2>1, <2>2, FrontIs
  <2>4. IsPrefix(blocks[i + 1], blocks[n])
    BY Zenon, <1>5, <2>1
  <2>5. IsPrefix(blocks[i], blocks[n])
    BY Zenon, <2>2, <2>3, <2>4, PrefixTransitive
  <2> QED
    BY <2>5 DEF i
<1>6. \A m \in 0 .. n - 1 : m \in S
  <2>1. n - 1 \in Nat /\ (n - 1) - 1 = n - 2
    BY <1>1
  <2> HIDE DEF S
  <2> QED
    BY Zenon, <1>4, <1>5, <2>1, Induct
<1>7. ASSUME NEW i \in 1 .. n PROVE IsPrefix(blocks[i], blocks[n])
  <2>1. n - i \in 0 .. n - 1 /\ n - (n - i) = i /\ n - i <= n - 1
    BY <1>1
  <2>2. n - i \in S
    BY Zenon, <1>6, <2>1
  <2> QED
    BY Zenon, <2>1, <2>2
<1> QED
  BY Zenon, <1>7 DEF Last, n

\* f is the function of the first sums of s.
IsSumUpTo(f, s, n) ==
    /\ f \in [0 .. n -> Int]
    /\ f[0] = 0
    /\ \A i \in 1 .. n : f[i] = f[i - 1] + s[i]
IsSum(f, s) == IsSumUpTo(f, s, Len(s))

\* The partial sums exist.
LEMMA SumExists ==
    ASSUME NEW s \in Seq(Int)
    PROVE  \E f : IsSum(f, s)
<1> DEFINE n == Len(s)
           S == {m \in Nat : m <= n => \E f : IsSumUpTo(f, s, m)}
<1>1. n \in Nat /\ \A i \in 1 .. n : s[i] \in Int
  OBVIOUS
<1> HIDE DEF n
<1>2. 0 \in S
  <2>1. IsSumUpTo([i \in 0 .. 0 |-> 0], s, 0)
    BY DEF IsSumUpTo
  <2> QED
    BY Zenon, <2>1
<1>3. ASSUME NEW m \in 0 .. n - 1, m \in S PROVE m + 1 \in S
  <2>f. PICK f : IsSumUpTo(f, s, m)
    BY <1>1, <1>3
  <2>1. f \in [0 .. m -> Int] /\ f[0] = 0 /\ \A i \in 1 .. m : f[i] = f[i - 1] + s[i]
    BY Zenon, <2>f DEF IsSumUpTo
  <2>g. PICK g : g = [i \in 0 .. m + 1 |-> IF i = m + 1 THEN f[m] + s[m + 1] ELSE f[i]]
    BY Zenon
  <2>2. m + 1 \in 1 .. n /\ m \in 0 .. m /\ m \in Nat
    BY <1>1
  <2>3. f[m] + s[m + 1] \in Int
    BY <1>1, <2>1, <2>2
  <2>4. \A i \in 0 .. m + 1 : i \in 0 .. m \/ i = m + 1
    BY <2>2
  <2>5. g \in [0 .. m + 1 -> Int]
    BY Zenon, <2>1, <2>g, <2>3, <2>4
  <2>6. g[0] = 0
    BY <2>1, <2>2, <2>g
  <2>7. ASSUME NEW i \in 1 .. m + 1 PROVE g[i] = g[i - 1] + s[i]
    <3>1. i \in 0 .. m + 1 /\ i - 1 \in 0 .. m + 1 /\ i - 1 # m + 1
      BY <2>2
    <3>2. CASE i = m + 1
      <4>1. g[i] = f[m] + s[m + 1] /\ g[i - 1] = f[i - 1] /\ i - 1 = m
        BY <2>2, <2>g, <3>1, <3>2
      <4> QED
        BY Zenon, <3>2, <4>1
    <3>3. CASE i # m + 1
      <4>1. i \in 1 .. m
        BY <2>2, <3>3
      <4>2. g[i] = f[i] /\ g[i - 1] = f[i - 1]
        BY Zenon, <2>g, <3>1, <3>3
      <4> QED
        BY Zenon, <2>1, <4>1, <4>2
    <3> QED
      BY Zenon, <3>2, <3>3
  <2>8. IsSumUpTo(g, s, m + 1)
    BY Zenon, <2>5, <2>6, <2>7 DEF IsSumUpTo
  <2> QED
    BY <2>2, <2>8
<1>4. n \in S
  <2>1. n \in 0 .. n
    BY <1>1
  <2> HIDE DEF S
  <2> QED
    BY Zenon, <1>1, <1>2, <1>3, <2>1, Induct
<1> QED
  BY <1>1, <1>4 DEF IsSum, n

\* The score of a chain is the last of the partial sums.
LEMMA ScoreIs ==
    ASSUME NEW s \in Seq(Int), NEW f, IsSum(f, s)
    PROVE  Score(s) = f[Len(s)]
<1> DEFINE c == CHOOSE h : h = [i \in 0 .. Len(s) |-> IF i = 0 THEN 0 ELSE h[i - 1] + s[i]]
           S == {m \in Nat : m <= Len(s) => c[m] = f[m]}
<1>1. f = [i \in 0 .. Len(s) |-> IF i = 0 THEN 0 ELSE f[i - 1] + s[i]]
  BY DEF IsSum, IsSumUpTo
<1>2. c = [i \in 0 .. Len(s) |-> IF i = 0 THEN 0 ELSE c[i - 1] + s[i]]
  BY Zenon, <1>1
<1>3. Score(s) = c[Len(s)]
  BY Zenon DEF Score
<1> HIDE DEF c
<1>4. Len(s) \in Nat
  OBVIOUS
<1>5. 0 \in S
  BY <1>1, <1>2, <1>4
<1>6. ASSUME NEW m \in 0 .. Len(s) - 1, m \in S PROVE m + 1 \in S
  <2>1. m + 1 \in 0 .. Len(s) /\ m + 1 # 0 /\ (m + 1) - 1 = m /\ m <= Len(s)
    BY <1>4
  <2>2. c[m + 1] = c[m] + s[m + 1]
    BY Zenon, <1>2, <2>1
  <2>3. f[m + 1] = f[m] + s[m + 1]
    BY Zenon, <1>1, <2>1
  <2> QED
    BY <1>6, <2>1, <2>2, <2>3
<1>7. Len(s) \in S
  <2>1. Len(s) \in 0 .. Len(s)
    BY <1>4
  <2> HIDE DEF S
  <2> QED
    BY ZenonT(60), <1>4, <1>5, <1>6, <2>1, Induct
<1> QED
  BY <1>3, <1>7

\* A chain has the score of its first blocks and of those above them.
LEMMA ScoreSplits ==
    ASSUME NEW s \in Seq(Int), NEW n \in 0 .. Len(s)
    PROVE  /\ Score(s) = Score(SubSeq(s, 1, n)) + ScoreAbove(s, n)
           /\ Score(s) \in Int /\ Score(SubSeq(s, 1, n)) \in Int /\ ScoreAbove(s, n) \in Int
<1> DEFINE p == SubSeq(s, 1, n)
           r == SubSeq(s, n + 1, Len(s))
<1>1. Len(s) \in Nat /\ n \in Nat /\ n <= Len(s)
  OBVIOUS
<1>2. p \in Seq(Int) /\ Len(p) = n /\ \A i \in 1 .. n : p[i] = s[i]
  BY <1>1
<1>3. r \in Seq(Int) /\ Len(r) = Len(s) - n /\ \A i \in 1 .. Len(s) - n : r[i] = s[n + i]
  BY <1>1
<1> HIDE DEF p, r
<1>4. PICK f : IsSum(f, s)
  BY Zenon, SumExists
<1>5. PICK g : IsSum(g, p)
  BY Zenon, <1>2, SumExists
<1>6. PICK h : IsSum(h, r)
  BY Zenon, <1>3, SumExists
<1>7. f[n] = g[n]
  <2> DEFINE S == {m \in Nat : m <= n => f[m] = g[m]}
  <2>1. 0 \in S
    BY Zenon, <1>4, <1>5 DEF IsSum, IsSumUpTo
  <2>2. ASSUME NEW m \in 0 .. n - 1, m \in S PROVE m + 1 \in S
    <3>1. m + 1 \in 1 .. n /\ m + 1 \in 1 .. Len(s) /\ (m + 1) - 1 = m /\ m <= n
      BY <1>1
    <3>2. f[m + 1] = f[m] + s[m + 1] /\ g[m + 1] = g[m] + p[m + 1]
      BY Zenon, <1>2, <1>4, <1>5, <3>1 DEF IsSum, IsSumUpTo
    <3> QED
      BY <1>2, <2>2, <3>1, <3>2
  <2>3. n \in S
    <3>1. n \in 0 .. n
      BY <1>1
    <3> HIDE DEF S
    <3> QED
      BY Zenon, <1>1, <2>1, <2>2, <3>1, Induct
  <2> QED
    BY <2>3
<1>8. f[Len(s)] = g[n] + h[Len(s) - n]
  <2> DEFINE S == {m \in Nat : m <= Len(s) - n => f[n + m] = g[n] + h[m]}
  <2>1. 0 \in S
    <3>1. h[0] = 0 /\ n + 0 = n /\ g[n] \in Int /\ g[n] + 0 = g[n]
      BY <1>1, <1>2, <1>5, <1>6 DEF IsSum, IsSumUpTo
    <3> QED
      BY Zenon, <1>7, <3>1
  <2>2. ASSUME NEW m \in 0 .. (Len(s) - n) - 1, m \in S PROVE m + 1 \in S
    <3>1. /\ m + 1 \in 1 .. Len(s) - n /\ (m + 1) - 1 = m /\ m <= Len(s) - n
          /\ n + (m + 1) \in 1 .. Len(s) /\ (n + (m + 1)) - 1 = n + m /\ m \in 0 .. Len(s) - n
      BY <1>1
    <3>2. h[m + 1] = h[m] + r[m + 1] /\ h[m] \in Int
      BY Zenon, <1>3, <1>6, <3>1 DEF IsSum, IsSumUpTo
    <3>3. f[n + (m + 1)] = f[n + m] + s[n + (m + 1)] /\ s[n + (m + 1)] \in Int
      BY <1>4, <3>1 DEF IsSum, IsSumUpTo
    <3>4. g[n] \in Int
      BY <1>1, <1>2, <1>5 DEF IsSum, IsSumUpTo
    <3>5. f[n + m] = g[n] + h[m]
      BY Zenon, <2>2, <3>1
    <3>6. r[m + 1] = s[n + (m + 1)]
      BY Zenon, <1>3, <3>1
    <3> QED
      BY <3>2, <3>3, <3>4, <3>5, <3>6
  <2>3. Len(s) - n \in S
    <3>1. Len(s) - n \in Nat /\ Len(s) - n \in 0 .. Len(s) - n
      BY <1>1
    <3> HIDE DEF S
    <3> QED
      BY Zenon, <2>1, <2>2, <3>1, Induct
  <2> QED
    BY <1>1, <2>3
<1>9. Score(s) = f[Len(s)] /\ Score(p) = g[n] /\ Score(r) = h[Len(s) - n]
  BY ZenonT(60), <1>2, <1>3, <1>4, <1>5, <1>6, ScoreIs
<1>10. f[Len(s)] \in Int
  BY <1>1, <1>4 DEF IsSum, IsSumUpTo
<1>11. g[n] \in Int
  BY <1>1, <1>2, <1>5 DEF IsSum, IsSumUpTo
<1>12. h[Len(s) - n] \in Int
  <2>1. h \in [0 .. Len(s) - n -> Int] /\ Len(s) - n \in 0 .. Len(s) - n
    BY <1>1, <1>3, <1>6 DEF IsSum, IsSumUpTo
  <2> QED
    BY Zenon, <2>1
<1> QED
  BY Zenon, <1>8, <1>9, <1>10, <1>11, <1>12 DEF p, r, ScoreAbove

\* Two chains that have their first blocks in common differ by the score of the blocks above.
LEMMA ScoresCompare ==
    ASSUME NEW s \in Seq(Int), NEW t \in Seq(Int), NEW p \in Seq(Int), IsPrefix(p, s), IsPrefix(p, t),
           ScoreAbove(s, Len(p)) > ScoreAbove(t, Len(p))
    PROVE  Score(s) > Score(t)
<1>1. Len(p) \in 0 .. Len(s) /\ Len(p) \in 0 .. Len(t)
  BY DEF IsPrefix
<1>2. SubSeq(s, 1, Len(p)) = SubSeq(t, 1, Len(p))
  BY Zenon DEF IsPrefix
<1>3. /\ Score(s) = Score(SubSeq(s, 1, Len(p))) + ScoreAbove(s, Len(p))
      /\ Score(SubSeq(s, 1, Len(p))) \in Int /\ ScoreAbove(s, Len(p)) \in Int
  BY Zenon, <1>1, ScoreSplits
<1>4. Score(t) = Score(SubSeq(t, 1, Len(p))) + ScoreAbove(t, Len(p)) /\ ScoreAbove(t, Len(p)) \in Int
  BY Zenon, <1>1, ScoreSplits
<1>5. \A a, b, c \in Int : b > c => a + b > a + c
  OBVIOUS
<1> QED
  BY Zenon, <1>2, <1>3, <1>4, <1>5

-----------------------------------------------------------------------------
(* The chains that the node stores, receives and compares. *)

\* The node, its peers and the proof storage hold chains; the finalized blocks are on one of them.
StoredChains ==
    /\ local \in AnyChain
    /\ peers \in [Peers -> AnyChain]
    /\ proofs \in Seq(AnyChain) /\ Len(proofs) >= 1 /\ proofs[1] = Nemesis
    /\ \A i \in 1 .. Len(proofs) : IsPrefix(proofs[i], Last(proofs))

\* What waits in the dispatcher are blocks, whether they are linked or not.
QueuedBlocks == \A k \in 1 .. Len(queue) : queue[k].blocks \in Seq(AnyChain) /\ Len(queue[k].blocks) >= 1

\* A task has a peer, and blocks while it pulls.
TaskBlocks ==
    /\ task.stage # "Idle" => "peer" \in DOMAIN task /\ task.peer \in Peers
    /\ task.stage = "Pull" => "blocks" \in DOMAIN task /\ task.blocks \in Seq(AnyChain)

\* The first element that is not finished has linked blocks.
LinkedElement(k) ==
    /\ k \in 1 .. Len(queue) /\ queue[k].status = "Pending"
    /\ \A j \in 1 .. k - 1 : queue[j].status # "Pending"
    /\ IsChain(queue[k].blocks)

\* What the sync consumer has read: the local finalized block is in the local chain, however far the proof storage is by
\* now, and the network's finalized block that was read after it is on top of it.
ConsumerInv ==
    /\ work \in Seq(AnyChain)
    /\ Len(work) >= 1 => IsPrefix(work[1], local) /\ \E k : LinkedElement(k)
    /\ Len(work) = 1 => IsPrefix(work[1], Last(proofs))
    /\ Len(work) = 2 => IsPrefix(work[1], work[2])

ChainInv == StoredChains /\ QueuedBlocks /\ TaskBlocks /\ ConsumerInv

\* The chains of the network are chains.
LEMMA ChainsAreChains == Chains \subseteq AnyChain /\ StartChains \subseteq AnyChain
BY Zenon, ChainsAssumption DEF AnyChain

\* The nemesis block is a chain.
LEMMA NemesisIsChain == Nemesis \in AnyChain /\ Len(Nemesis) = 1
<1>1. Nemesis \in Seq(Nat) /\ Nemesis \in Seq(Int) /\ Len(Nemesis) = 1
  BY DEF Nemesis
<1> QED
  BY Zenon, <1>1, PrefixReflexive DEF AnyChain

\* The local finalized block: the newest proof that is in the storage, the nemesis block's at least.
LEMMA LocalFinalizedIs ==
    ASSUME StoredChains
    PROVE  LocalFinalized \in AnyChain /\ IsPrefix(LocalFinalized, local) /\ IsPrefix(LocalFinalized, Last(proofs))
<1> DEFINE I == {i \in 1 .. Len(proofs) : IsPrefix(proofs[i], local)}
<1>1. Len(proofs) \in Nat /\ 1 \in I
  BY DEF StoredChains, AnyChain
<1>2. LocalFinalized = proofs[Max(I)]
  BY Zenon, <1>1 DEF LocalFinalized, SelectLastInSeq
<1>3. Max(I) \in I
  <2>1. I \in SUBSET (0 .. Len(proofs)) /\ I # {}
    BY <1>1
  <2> HIDE DEF I
  <2> QED
    BY ZenonT(60), <1>1, <2>1, MaxIs
<1>4. Max(I) \in 1 .. Len(proofs) /\ IsPrefix(proofs[Max(I)], local)
  BY Zenon, <1>3
<1> HIDE DEF I
<1> QED
  BY <1>2, <1>4 DEF StoredChains

\* The sync consumer is at the first element that is not finished.
LEMMA NextPendingIs ==
    ASSUME RangesInQueue, NEW k, LinkedElement(k)
    PROVE  NextPending = k
<1> DEFINE I == {i \in 1 .. Len(queue) : queue[i].status = "Pending"}
<1>1. Len(queue) \in Nat
  BY Zenon DEF RangesInQueue, IsSequence
<1>2. k \in I /\ I \in SUBSET Nat
  BY <1>1 DEF LinkedElement
<1>3. NextPending = Min(I)
  BY Zenon, <1>2 DEF NextPending, SelectInSeq
<1>4. Min(I) \in I /\ Min(I) <= k
  <2> HIDE DEF I
  <2> QED
    BY Zenon, <1>2, MinIs
<1>5. \A j \in I : ~(j \in 1 .. k - 1)
  BY Zenon DEF LinkedElement
<1>6. Min(I) \in Nat /\ Min(I) >= 1 /\ k \in Nat
  BY <1>1, <1>2, <1>4
<1>7. ~(Min(I) \in 1 .. k - 1)
  BY Zenon, <1>4, <1>5
<1> HIDE DEF I
<1> QED
  BY <1>3, <1>4, <1>6, <1>7

\* The element that the sync consumer begins with.
LEMMA PendingIsFirst ==
    ASSUME RangesInQueue, NextPending # 0, IsChain(queue[NextPending].blocks)
    PROVE  LinkedElement(NextPending)
<1> DEFINE I == {i \in 1 .. Len(queue) : queue[i].status = "Pending"}
<1>1. Len(queue) \in Nat /\ I \in SUBSET Nat
  BY DEF RangesInQueue, IsSequence
<1>2. I # {} /\ NextPending = Min(I)
  BY Zenon DEF NextPending, SelectInSeq
<1>3. Min(I) \in I /\ \A y \in I : Min(I) <= y
  <2> HIDE DEF I
  <2> QED
    BY Zenon, <1>1, <1>2, MinIs
<1>4. NextPending \in 1 .. Len(queue) /\ queue[NextPending].status = "Pending"
  BY Zenon, <1>2, <1>3
<1>5. ASSUME NEW j \in 1 .. NextPending - 1, queue[j].status = "Pending" PROVE FALSE
  <2>1. j \in 1 .. Len(queue) /\ j < NextPending
    BY <1>1, <1>4
  <2>2. NextPending <= j
    BY Zenon, <1>2, <1>3, <1>5, <2>1
  <2> QED
    BY <1>1, <1>4, <2>1, <2>2
<1> QED
  BY Zenon, <1>4, <1>5 DEF LinkedElement

\* An element is pushed.
LEMMA PushKeeps ==
    ASSUME RangesInQueue, QueuedBlocks, NEW source, NEW own, NEW blocks \in Seq(AnyChain), Len(blocks) >= 1,
           ProcessElement(source, blocks, own)
    PROVE  QueuedBlocks' /\ ((\E k : LinkedElement(k)) => (\E k : LinkedElement(k)'))
<1> DEFINE input == [own |-> own, source |-> source, blocks |-> blocks, status |-> "Pending"]
<1>1. queue' = Append(queue, input) /\ IsSequence(queue) /\ input.blocks = blocks
  BY Zenon DEF ProcessElement, RangesInQueue
<1> HIDE DEF input
<1>2. /\ Len(queue') = Len(queue) + 1 /\ Len(queue) \in Nat
      /\ \A k \in 1 .. Len(queue) : queue'[k] = queue[k]
      /\ queue'[Len(queue) + 1] = input
  BY <1>1, AppendSequence DEF IsSequence
<1>3. \A k \in 1 .. Len(queue') : k \in 1 .. Len(queue) \/ k = Len(queue) + 1
  BY <1>2
<1>4. QueuedBlocks'
  BY Zenon, <1>1, <1>2, <1>3 DEF QueuedBlocks
<1>5. ASSUME NEW k, LinkedElement(k) PROVE LinkedElement(k)'
  <2>1. k \in 1 .. Len(queue) /\ k \in 1 .. Len(queue') /\ \A j \in 1 .. k - 1 : j \in 1 .. Len(queue)
    BY <1>2, <1>5 DEF LinkedElement
  <2> QED
    BY Zenon, <1>2, <1>5, <2>1 DEF LinkedElement
<1> QED
  BY Zenon, <1>4, <1>5

\* The first element is completed.
LEMMA TailKeeps ==
    ASSUME RangesInQueue, QueuedBlocks, queue # <<>>, queue[1].status # "Pending", queue' = Tail(queue)
    PROVE  QueuedBlocks' /\ ((\E k : LinkedElement(k)) => (\E k : LinkedElement(k)'))
<1>1. /\ Len(queue') = Len(queue) - 1 /\ Len(queue) \in Nat \ {0}
      /\ \A k \in 1 .. Len(queue) - 1 : queue'[k] = queue[k + 1]
  BY Zenon, TailSequence DEF RangesInQueue
<1>2. \A k \in 1 .. Len(queue') : k + 1 \in 1 .. Len(queue) /\ queue'[k] = queue[k + 1]
  BY <1>1
<1>3. QueuedBlocks'
  BY Zenon, <1>2 DEF QueuedBlocks
<1>4. ASSUME NEW k, LinkedElement(k) PROVE LinkedElement(k - 1)'
  <2>1. k \in 1 .. Len(queue) /\ k # 1
    BY Zenon, <1>4 DEF LinkedElement
  <2>2. k - 1 \in 1 .. Len(queue') /\ (k - 1) + 1 = k
    BY <1>1, <2>1
  <2>3. \A j \in 1 .. (k - 1) - 1 : j \in 1 .. Len(queue') /\ j + 1 \in 1 .. k - 1
    BY <1>1, <2>1
  <2>4. queue'[k - 1] = queue[k]
    BY Zenon, <1>2, <2>2
  <2>5. \A j \in 1 .. (k - 1) - 1 : queue'[j].status # "Pending"
    BY Zenon, <1>2, <1>4, <2>3 DEF LinkedElement
  <2> QED
    BY Zenon, <1>4, <2>2, <2>4, <2>5 DEF LinkedElement
<1> QED
  BY Zenon, <1>3, <1>4

\* A consumer finishes an element.
LEMMA StatusKeeps ==
    ASSUME RangesInQueue, QueuedBlocks, NEW i, NEW status, SetStatus(i, status)
    PROVE  QueuedBlocks'
<1>1. Len(queue) \in Nat /\ queue = [k \in 1 .. Len(queue) |-> queue[k]]
  BY Zenon DEF RangesInQueue, IsSequence
<1>2. queue' = [k \in 1 .. Len(queue) |-> IF k = i THEN [queue[i] EXCEPT !.status = status] ELSE queue[k]]
  BY Zenon, <1>1 DEF SetStatus
<1>3. Len(queue') = Len(queue)
  BY <1>1, <1>2
<1>4. \A k \in 1 .. Len(queue) : queue'[k].blocks = queue[k].blocks
  BY Zenon, <1>2 DEF RangesInQueue
<1> QED
  BY Zenon, <1>3, <1>4 DEF QueuedBlocks

\* The blocks that a peer returns.
LEMMA BlocksAreChains ==
    ASSUME NEW chain \in AnyChain, NEW height
    PROVE  BlocksFrom(chain, height) \in Seq(AnyChain)
<1> DEFINE last == Min({Len(chain), height + BlocksPerPull - 1})
<1>1. CASE height \in 1 .. Len(chain)
  <2>1. Len(chain) \in Nat /\ height \in Nat /\ height >= 1 /\ BlocksPerPull \in Nat /\ BlocksPerPull >= 1
    BY <1>1, ChainHasBlocks, SynchronizerAssumption
  <2>2. last \in {Len(chain), height + BlocksPerPull - 1} /\ last <= Len(chain)
    BY <2>1, MinOfTwo
  <2>3. last \in Nat /\ height <= last /\ last <= Len(chain)
    BY <1>1, <2>1, <2>2
  <2> HIDE DEF last
  <2>4. last - height + 1 \in Nat /\ \A i \in 1 .. last - height + 1 : height + i - 1 \in 1 .. Len(chain)
    BY <2>1, <2>3
  <2>5. \A i \in 1 .. last - height + 1 : SubSeq(chain, 1, height + i - 1) \in AnyChain
    BY Zenon, <2>4, PrefixIsChain
  <2>6. Blocks(chain, height, last) \in Seq(AnyChain)
    <3>1. Blocks(chain, height, last) \in [1 .. last - height + 1 -> AnyChain]
      BY Zenon, <2>5 DEF Blocks
    <3> QED
      BY <2>4, <3>1
  <2> QED
    BY Zenon, <1>1, <2>6 DEF BlocksFrom, last
<1>2. CASE ~(height \in 1 .. Len(chain))
  BY <1>2 DEF BlocksFrom
<1> QED
  BY Zenon, <1>1, <1>2

\* At the start there are only the chain of the node, those of the peers and the nemesis block's proof.
LEMMA ChainsInit == Init => ChainInv
<1> SUFFICES ASSUME Init PROVE ChainInv
  BY Zenon
<1> USE DEF Init, SyncInit, NoTask
<1>1. StoredChains
  <2>1. proofs = <<Nemesis>> /\ proofs \in Seq(AnyChain) /\ Len(proofs) = 1 /\ proofs[1] = Nemesis
    BY NemesisIsChain
  <2>2. \A i \in 1 .. Len(proofs) : IsPrefix(proofs[i], Last(proofs))
    BY <2>1, NemesisIsChain, ChainHasBlocks, PrefixReflexive DEF Last
  <2>3. local \in AnyChain /\ peers \in [Peers -> AnyChain]
    BY Zenon, ChainsAreChains
  <2> QED
    BY <2>1, <2>2, <2>3 DEF StoredChains
<1>2. QueuedBlocks /\ TaskBlocks /\ ConsumerInv
  <2>1. Len(<<>>) = 0 /\ <<>> \in Seq(AnyChain)
    OBVIOUS
  <2> QED
    BY <2>1 DEF QueuedBlocks, TaskBlocks, ConsumerInv
<1> QED
  BY Zenon, <1>1, <1>2 DEF ChainInv

\* The second block that the sync consumer reads.
LEMMA SecondIs ==
    ASSUME NEW S, NEW s \in Seq(S), Len(s) = 1, NEW e \in S
    PROVE  Append(s, e) \in Seq(S) /\ Len(Append(s, e)) = 2 /\ Append(s, e)[1] = s[1] /\ Append(s, e)[2] = e
<1>1. Append(s, e) \in Seq(S)
  OBVIOUS
<1>2. /\ Len(Append(s, e)) = Len(s) + 1
      /\ \A i \in 1 .. Len(s) : Append(s, e)[i] = s[i]
      /\ Append(s, e)[Len(s) + 1] = e
  BY ZenonT(60), TypeIsSequence, AppendSequence
<1>3. Len(s) + 1 = 2 /\ 1 \in 1 .. Len(s)
  OBVIOUS
<1> QED
  BY Zenon, <1>1, <1>2, <1>3

\* A step that leaves the chains, the dispatcher and the sync consumer alone.
LEMMA QuietKeepsChains ==
    ASSUME ChainInv, UNCHANGED <<local, peers, proofs, queue, work>>
    PROVE  StoredChains' /\ QueuedBlocks' /\ ConsumerInv'
BY Zenon DEF ChainInv, StoredChains, QueuedBlocks, ConsumerInv, LinkedElement

\* Taking notes of what happens during a comparison changes neither the peer nor the blocks of the task.
LEMMA DisturbKeepsBlocks ==
    ASSUME TaskShape, TaskBlocks, Disturb \/ UNCHANGED task
    PROVE  TaskBlocks'
BY Zenon DEF TaskShape, TaskBlocks, Disturb

\* A step of a comparison keeps the peer; a pull begins without blocks.
LEMMA CompareKeepsChains ==
    ASSUME IInv, ChainInv, CompareStep
    PROVE  ChainInv'
<1>1. UNCHANGED <<local, peers, proofs, queue, work>>
  BY ZenonT(60) DEF CompareStep, CheckEmpty, ReadMaxHeight, ReadLowerBound, ReadLocalHeight, ReadLocalScore,
      CompareChainStatistics, ReadLocalHashes, ReceiveHashes, CompareLocalScore, TaskStep
<1>2. TaskBlocks'
  <2> DEFINE Kept == /\ "stage" \in DOMAIN task' /\ "peer" \in DOMAIN task' /\ task'.peer = task.peer
                     /\ task'.stage = "Pull" => "blocks" \in DOMAIN task' /\ task'.blocks = <<>>
  <2>1. task.stage # "Idle" /\ "stage" \in DOMAIN task
    BY Zenon DEF CompareStep, CheckEmpty, ReadMaxHeight, ReadLowerBound, ReadLocalHeight, ReadLocalScore, IInv, TaskShape,
      CompareChainStatistics, ReadLocalHashes, ReceiveHashes, CompareLocalScore, TaskStep
  <2>2. "peer" \in DOMAIN task /\ task.peer \in Peers
    BY Zenon, <2>1 DEF ChainInv, TaskBlocks
  <2> SUFFICES Kept
    <3>1. <<>> \in Seq(AnyChain)
      OBVIOUS
    <3> QED
      BY Zenon, <2>2, <3>1 DEF TaskBlocks
  <2> USE <2>1, <2>2 DEF TaskStep, Done, SyncWithPeer
  <2>3. CASE CheckEmpty
    BY Zenon, <2>3 DEF CheckEmpty
  <2>4. CASE ReadMaxHeight
    BY Zenon, <2>4 DEF ReadMaxHeight
  <2>5. CASE ReadLowerBound
    BY Zenon, <2>5 DEF ReadLowerBound
  <2>6. CASE ReadLocalHeight
    BY Zenon, <2>6 DEF ReadLocalHeight
  <2>7. CASE ReadLocalScore
    BY Zenon, <2>7 DEF ReadLocalScore
  <2>8. CASE CompareChainStatistics
    BY Zenon, <2>8 DEF CompareChainStatistics
  <2>9. CASE ReadLocalHashes
    BY Zenon, <2>9 DEF ReadLocalHashes
  <2>10. CASE ReceiveHashes
    BY Zenon, <2>10 DEF ReceiveHashes, CompareHashes, TryContinue
  <2>11. CASE CompareLocalScore
    BY Zenon, <2>11 DEF CompareLocalScore
  <2> HIDE DEF Kept
  <2> QED
    BY ZenonT(60), <2>3, <2>4, <2>5, <2>6, <2>7, <2>8, <2>9, <2>10, <2>11 DEF CompareStep
<1> QED
  BY Zenon, <1>1, <1>2, QuietKeepsChains DEF ChainInv

\* An answer to a pull brings blocks, and the last one hands them over.
LEMMA PullKeepsChains ==
    ASSUME IInv, ChainInv, ChainBlocksFrom
    PROVE  ChainInv'
<1> DEFINE range == BlocksFrom(Remote, task.common + Len(task.blocks) + 1)
           blocks == task.blocks \o range
<1>1. /\ "peer" \in DOMAIN task /\ task.peer \in Peers /\ "blocks" \in DOMAIN task /\ task.blocks \in Seq(AnyChain)
      /\ "stage" \in DOMAIN task /\ task.stage = "Pull"
  BY Zenon DEF ChainBlocksFrom, IInv, TaskShape, ChainInv, TaskBlocks
<1>2. Remote \in AnyChain
  BY Zenon, <1>1 DEF Remote, ChainInv, StoredChains
<1>3. range \in Seq(AnyChain)
  BY Zenon, <1>2, BlocksAreChains
<1>4. blocks \in Seq(AnyChain)
  <2> HIDE DEF range
  <2> QED
    BY <1>1, <1>3
<1>5. UNCHANGED <<local, peers, proofs, work>>
  BY Zenon DEF ChainBlocksFrom
<1>6. CASE ~IsComplete(range, blocks)
  <2>1. task' = [task EXCEPT !.blocks = blocks, !.stable = FALSE] /\ UNCHANGED queue
    BY Zenon, <1>6 DEF ChainBlocksFrom
  <2> HIDE DEF blocks, range
  <2>2. TaskBlocks'
    BY Zenon, <1>1, <1>4, <2>1 DEF TaskBlocks
  <2> QED
    BY Zenon, <1>5, <2>1, <2>2, QuietKeepsChains DEF ChainInv
<1>7. CASE IsComplete(range, blocks)
  <2>1. task' = Done("Pulled", FALSE)
    BY Zenon, <1>7 DEF ChainBlocksFrom
  <2>2. TaskBlocks'
    BY Zenon, <1>1, <2>1 DEF TaskBlocks, Done
  <2>3. UNCHANGED queue \/ (blocks # <<>> /\ ProcessElement("Remote_Pull", blocks, TRUE))
    BY ZenonT(60), <1>7 DEF ChainBlocksFrom, AddElement
  <2> HIDE DEF blocks, range
  <2>4. CASE UNCHANGED queue
    BY Zenon, <1>5, <2>2, <2>4, QuietKeepsChains DEF ChainInv
  <2>5. CASE blocks # <<>> /\ ProcessElement("Remote_Pull", blocks, TRUE)
    <3>1. Len(blocks) >= 1
      BY <1>4, <2>5
    <3>2. QueuedBlocks' /\ ((\E k : LinkedElement(k)) => (\E k : LinkedElement(k)'))
      BY Zenon, <1>4, <2>5, <3>1, PushKeeps DEF IInv, ChainInv
    <3>3. ConsumerInv'
      BY Zenon, <1>5, <3>2 DEF ChainInv, ConsumerInv
    <3>4. StoredChains'
      BY Zenon, <1>5 DEF ChainInv, StoredChains
    <3> QED
      BY Zenon, <2>2, <3>2, <3>3, <3>4 DEF ChainInv
  <2> QED
    BY Zenon, <2>3, <2>4, <2>5
<1> QED
  BY Zenon, <1>6, <1>7

\* A block is harvested or pushed by a peer.
LEMMA InputKeepsChains ==
    ASSUME IInv, ChainInv, Input, UNCHANGED <<peers, unprocessedVars, task>>
    PROVE  ChainInv'
<1>1. UNCHANGED <<local, proofs, work, peers, task>>
  BY Zenon DEF Input, Harvest, PushBlock
<1>2. PICK source \in Sources, chain \in AnyChain : ProcessElement(source, <<chain>>, FALSE)
  <2>1. CASE Harvest
    BY Zenon, <2>1, ChainsAreChains DEF Harvest, Sources
  <2>2. ASSUME NEW p \in Peers, PushBlock(peers[p])
        PROVE  \E source \in Sources, chain \in AnyChain : ProcessElement(source, <<chain>>, FALSE)
    <3>1. peers[p] \in AnyChain
      BY Zenon DEF ChainInv, StoredChains
    <3> QED
      BY Zenon, <2>2, <3>1 DEF PushBlock, Sources
  <2> QED
    BY Zenon, <2>1, <2>2 DEF Input
<1>3. <<chain>> \in Seq(AnyChain) /\ Len(<<chain>>) >= 1
  OBVIOUS
<1>4. QueuedBlocks' /\ ((\E k : LinkedElement(k)) => (\E k : LinkedElement(k)'))
  BY Zenon, <1>2, <1>3, PushKeeps DEF IInv, ChainInv
<1>5. ConsumerInv'
  BY Zenon, <1>1, <1>4 DEF ChainInv, ConsumerInv
<1>6. StoredChains' /\ TaskBlocks'
  BY Zenon, <1>1 DEF ChainInv, StoredChains, TaskBlocks
<1> QED
  BY Zenon, <1>4, <1>5, <1>6 DEF ChainInv

\* A proof is saved: its block continues the network's finalized block.
LEMMA ProofKeepsChains ==
    ASSUME IInv, ChainInv, NEW block \in Chains, NEW isNewEpoch \in BOOLEAN, SaveProof(block, isNewEpoch), Disturb,
           UNCHANGED <<peers, unprocessedVars>>
    PROVE  ChainInv'
<1>1. UNCHANGED <<local, queue, work, peers>>
  BY Zenon DEF SaveProof
<1>2. TaskBlocks'
  BY Zenon, DisturbKeepsBlocks DEF IInv, ChainInv
<1>3. block \in AnyChain /\ block \in Seq(Int)
  BY Zenon, ChainsAreChains, ChainHasBlocks
<1>4. /\ proofs \in Seq(AnyChain) /\ Len(proofs) \in Nat /\ Len(proofs) >= 1 /\ proofs[1] = Nemesis
      /\ \A i \in 1 .. Len(proofs) : IsPrefix(proofs[i], Last(proofs)) /\ proofs[i] \in Seq(Int)
  BY SMTT(30), ChainHasBlocks DEF ChainInv, StoredChains
<1>5. IsPrefix(Last(proofs), block) /\ Last(proofs) \in Seq(Int)
  BY <1>4 DEF SaveProof, IsStrictPrefix, NetworkFinalized, Last
<1>6. \A i \in 1 .. Len(proofs) : IsPrefix(proofs[i], block)
  BY Zenon, <1>3, <1>4, <1>5, PrefixTransitive
<1>7. PICK kept : /\ kept \in Seq(AnyChain) /\ Len(kept) \in Nat /\ Len(kept) >= 1 /\ Len(kept) <= Len(proofs)
                  /\ \A i \in 1 .. Len(kept) : kept[i] = proofs[i]
                  /\ proofs' = Append(kept, block)
  <2>1. CASE isNewEpoch
    BY SMTT(30), <1>4, <2>1 DEF SaveProof
  <2>2. CASE ~isNewEpoch
    <3>1. Len(proofs) > 1 /\ proofs' = Append(Front(proofs), block)
      BY Zenon, <2>2 DEF SaveProof
    <3>2. /\ Front(proofs) \in Seq(AnyChain) /\ Len(Front(proofs)) = Len(proofs) - 1
          /\ \A i \in 1 .. Len(proofs) - 1 : Front(proofs)[i] = proofs[i]
      BY Zenon, <1>4, FrontHas
    <3>3. Len(Front(proofs)) \in Nat /\ Len(Front(proofs)) >= 1 /\ Len(Front(proofs)) <= Len(proofs)
      BY <1>4, <3>1, <3>2
    <3>4. \A i \in 1 .. Len(Front(proofs)) : Front(proofs)[i] = proofs[i]
      BY Zenon, <3>2
    <3> QED
      BY <3>1, <3>2, <3>3, <3>4, Zenon
  <2> QED
    BY Zenon, <2>1, <2>2
<1>8. /\ proofs' \in Seq(AnyChain) /\ Len(proofs') = Len(kept) + 1
      /\ \A i \in 1 .. Len(kept) : proofs'[i] = kept[i]
      /\ proofs'[Len(kept) + 1] = block
  BY <1>3, <1>7
<1>9. Last(proofs') = block
  BY Zenon, <1>8 DEF Last
<1>10. \A i \in 1 .. Len(proofs') : IsPrefix(proofs'[i], block)
  <2> SUFFICES ASSUME NEW i \in 1 .. Len(proofs') PROVE IsPrefix(proofs'[i], block)
    BY Zenon
  <2>1. CASE i \in 1 .. Len(kept)
    <3>1. i \in 1 .. Len(proofs) /\ proofs'[i] = proofs[i]
      BY <1>4, <1>7, <1>8, <2>1
    <3> QED
      BY Zenon, <1>6, <3>1
  <2>2. CASE i = Len(kept) + 1
    BY Zenon, <1>3, <1>8, <2>2, PrefixReflexive
  <2> QED
    BY <1>7, <1>8, <2>1, <2>2
<1>11. proofs'[1] = Nemesis /\ Len(proofs') >= 1
  BY <1>4, <1>7, <1>8
<1>12. StoredChains'
  BY Zenon, <1>1, <1>8, <1>9, <1>10, <1>11 DEF ChainInv, StoredChains
<1>13. ConsumerInv'
  <2>1. Len(work) = 1 => IsPrefix(work[1], block)
    <3> SUFFICES ASSUME Len(work) = 1 PROVE IsPrefix(work[1], block)
      BY Zenon
    <3>1. work[1] \in AnyChain /\ IsPrefix(work[1], Last(proofs))
      BY DEF ChainInv, ConsumerInv
    <3> QED
      BY Zenon, <1>3, <1>5, <3>1, ChainHasBlocks, PrefixTransitive
  <2>2. (\E k : LinkedElement(k)) => (\E k : LinkedElement(k)')
    BY Zenon, <1>1 DEF LinkedElement
  <2> QED
    BY Zenon, <1>1, <1>9, <2>1, <2>2 DEF ChainInv, ConsumerInv
<1>14. QueuedBlocks'
  BY Zenon, <1>1 DEF ChainInv, QueuedBlocks
<1> QED
  BY Zenon, <1>2, <1>12, <1>13, <1>14 DEF ChainInv

\* The sync consumer takes a chain only on top of what it has read: the local finalized block stays, and the score grows
\* unless the network's finalized block is gained.
LEMMA SyncTakes ==
    ASSUME IInv, ChainInv, Sync, local' # local
    PROVE  /\ local' \in AnyChain
           /\ IsPrefix(work[1], local')
           /\ Score(local') > Score(local) \/ (~IsPrefix(work[2], local) /\ IsPrefix(work[2], local'))
<1>1. PICK k : LinkedElement(k)
  BY DEF Sync, ChainInv, ConsumerInv
<1>2. NextPending = k /\ k \in 1 .. Len(queue)
  BY Zenon, <1>1, NextPendingIs DEF IInv, LinkedElement
<1> DEFINE blocks == queue[k].blocks
           first == blocks[1]
           tip == Last(blocks)
           front == Front(first)
<1>3. CanPreprocess(queue[k]) /\ CanProcess(queue[k]) /\ local' = tip
  BY Zenon, <1>2 DEF Sync
<1>4. blocks \in Seq(AnyChain) /\ Len(blocks) \in Nat /\ Len(blocks) >= 1 /\ IsChain(blocks)
  BY <1>1, <1>2 DEF ChainInv, QueuedBlocks, LinkedElement
<1>5. \A i \in 1 .. Len(blocks) : IsPrefix(blocks[i], tip)
  <2> HIDE DEF blocks
  <2> QED
    BY Zenon, <1>4, LinkedBlocks
<1>6. first \in AnyChain /\ tip \in AnyChain /\ IsPrefix(first, tip)
  BY <1>4, <1>5 DEF Last
<1>7. first \in Seq(Int) /\ tip \in Seq(Int) /\ local \in Seq(Int) /\ Len(first) \in Nat /\ Len(first) >= 1
  BY Zenon, <1>6, ChainHasBlocks DEF ChainInv, StoredChains
<1>8. /\ work[1] \in Seq(Int) /\ work[2] \in Seq(Int) /\ IsPrefix(work[1], local) /\ IsPrefix(work[1], work[2])
      /\ Len(work[1]) \in Nat
  <2>1. work \in Seq(AnyChain) /\ Len(work) = 2 /\ IsPrefix(work[1], local) /\ IsPrefix(work[1], work[2])
    BY DEF Sync, ChainInv, ConsumerInv
  <2>2. work[1] \in AnyChain /\ work[2] \in AnyChain
    BY <2>1
  <2> QED
    BY <2>1, <2>2, ChainHasBlocks
<1>9. front \in Seq(Int) /\ Len(front) = Len(first) - 1 /\ IsPrefix(front, first) /\ IsPrefix(front, local)
  BY ZenonT(60), <1>3, <1>7, FrontIs DEF CanProcess
<1>10. \/ /\ Len(first) > Len(work[1]) /\ ScoreAbove(tip, Len(first) - 1) > ScoreAbove(local, Len(first) - 1)
       \/ IsFinalizedBlockUpdate(blocks)
  BY Zenon, <1>3 DEF CanPreprocess
<1> HIDE DEF first, tip, front
<1>11. CASE Len(first) > Len(work[1]) /\ ScoreAbove(tip, Len(first) - 1) > ScoreAbove(local, Len(first) - 1)
  <2>1. Len(work[1]) <= Len(front)
    BY <1>7, <1>8, <1>9, <1>11
  <2>2. IsPrefix(work[1], front)
    BY Zenon, <1>7, <1>8, <1>9, <2>1, PrefixesNest
  <2>3. IsPrefix(front, tip)
    BY Zenon, <1>6, <1>7, <1>9, PrefixTransitive
  <2>4. IsPrefix(work[1], tip)
    BY Zenon, <1>7, <1>8, <1>9, <2>2, <2>3, PrefixTransitive
  <2>5. ScoreAbove(tip, Len(front)) > ScoreAbove(local, Len(front))
    BY Zenon, <1>9, <1>11
  <2>6. Score(tip) > Score(local)
    BY ZenonT(60), <1>7, <1>9, <2>3, <2>5, ScoresCompare
  <2> QED
    BY Zenon, <1>3, <1>6, <2>4, <2>6
<1>12. CASE IsFinalizedBlockUpdate(blocks)
  <2>1. ~IsPrefix(work[2], local) /\ work[2] \in ToSet(blocks)
    BY Zenon, <1>12 DEF IsFinalizedBlockUpdate
  <2>2. IsPrefix(work[2], tip)
    <3> HIDE DEF blocks
    <3>1. PICK i \in DOMAIN blocks : work[2] = blocks[i]
      BY Zenon, <2>1 DEF ToSet
    <3>2. i \in 1 .. Len(blocks)
      BY <1>4
    <3> QED
      BY Zenon, <1>5, <3>1, <3>2
  <2>3. IsPrefix(work[1], tip)
    BY Zenon, <1>7, <1>8, <2>2, PrefixTransitive
  <2> QED
    BY Zenon, <1>3, <1>6, <2>1, <2>2, <2>3
<1> QED
  BY Zenon, <1>10, <1>11, <1>12

\* Steps of the dispatcher.
LEMMA DispatcherKeepsChains ==
    ASSUME IInv, ChainInv, DispatcherStep
    PROVE  ChainInv'
<1>1. ASSUME Consume, UNCHANGED <<peers, unprocessedVars, task>> PROVE ChainInv'
  <2>1. UNCHANGED <<local, proofs, peers, task>>
    BY Zenon, <1>1 DEF Consume, Refuse, ReadLocalFinalized, ReadNetworkFinalized, Advance
  <2>2. StoredChains' /\ TaskBlocks'
    BY Zenon, <2>1 DEF ChainInv, StoredChains, TaskBlocks
  <2>3. CASE Refuse
    <3>1. QueuedBlocks'
      BY Zenon, <2>3, StatusKeeps DEF Refuse, IInv, ChainInv
    <3>2. ConsumerInv'
      <4>1. work' = <<>> /\ Len(<<>>) = 0 /\ <<>> \in Seq(AnyChain)
        BY <2>3 DEF Refuse
      <4> QED
        BY <4>1 DEF ConsumerInv
    <3> QED
      BY Zenon, <2>2, <3>1, <3>2 DEF ChainInv
  <2>4. CASE ReadLocalFinalized
    <3>1. UNCHANGED queue /\ work' = <<LocalFinalized>>
      BY Zenon, <2>4 DEF ReadLocalFinalized
    <3>2. QueuedBlocks'
      BY Zenon, <3>1 DEF ChainInv, QueuedBlocks
    <3>3. LocalFinalized \in AnyChain /\ IsPrefix(LocalFinalized, local) /\ IsPrefix(LocalFinalized, Last(proofs))
      BY Zenon, LocalFinalizedIs DEF ChainInv
    <3>4. \E k : LinkedElement(k)
      BY Zenon, <2>4, PendingIsFirst DEF ReadLocalFinalized, IInv
    <3>5. \E k : LinkedElement(k)'
      BY Zenon, <3>1, <3>4 DEF LinkedElement
    <3>6. work' \in Seq(AnyChain) /\ Len(work') = 1 /\ work'[1] = LocalFinalized
      BY <3>1, <3>3
    <3>7. ConsumerInv'
      BY <2>1, <3>3, <3>5, <3>6 DEF ConsumerInv
    <3> QED
      BY <2>2, <3>2, <3>7 DEF ChainInv
  <2>5. CASE ReadNetworkFinalized
    <3>1. UNCHANGED queue /\ work' = Append(work, Last(proofs)) /\ Len(work) = 1
      BY Zenon, <2>5 DEF ReadNetworkFinalized, NetworkFinalized
    <3>2. QueuedBlocks'
      BY Zenon, <3>1 DEF ChainInv, QueuedBlocks
    <3>3. Last(proofs) \in AnyChain
      BY DEF ChainInv, StoredChains, Last
    <3>4. work \in Seq(AnyChain) /\ IsPrefix(work[1], local) /\ IsPrefix(work[1], Last(proofs)) /\ \E k : LinkedElement(k)
      BY <3>1 DEF ChainInv, ConsumerInv
    <3>5. \E k : LinkedElement(k)'
      BY Zenon, <3>1, <3>4 DEF LinkedElement
    <3>6. work' \in Seq(AnyChain) /\ Len(work') = 2 /\ work'[1] = work[1] /\ work'[2] = Last(proofs)
      BY <3>1, <3>3, <3>4, SecondIs
    <3>7. ConsumerInv'
      BY Zenon, <2>1, <3>4, <3>5, <3>6 DEF ConsumerInv
    <3> QED
      BY <2>2, <3>2, <3>7 DEF ChainInv
  <2>6. CASE Advance
    <3>1. UNCHANGED <<local, proofs, queue, work>>
      BY Zenon, <2>6 DEF Advance
    <3>2. QueuedBlocks' /\ ConsumerInv'
      BY Zenon, <3>1 DEF ChainInv, QueuedBlocks, ConsumerInv, LinkedElement
    <3> QED
      BY Zenon, <2>2, <3>2 DEF ChainInv
  <2> QED
    BY Zenon, <1>1, <2>3, <2>4, <2>5, <2>6 DEF Consume
<1>2. ASSUME Sync, Disturb, UNCHANGED <<peers, unprocessedVars>> PROVE ChainInv'
  <2>1. TaskBlocks'
    BY Zenon, <1>2, DisturbKeepsBlocks DEF IInv, ChainInv
  <2>2. SetStatus(NextPending, "Normal") \/ SetStatus(NextPending, "Aborted")
    BY Zenon, <1>2 DEF Sync
  <2>3. QueuedBlocks'
    BY Zenon, <2>2, StatusKeeps DEF IInv, ChainInv
  <2>4. ConsumerInv'
    <3>1. work' = <<>> /\ Len(<<>>) = 0 /\ <<>> \in Seq(AnyChain)
      BY <1>2 DEF Sync
    <3> QED
      BY <3>1 DEF ConsumerInv
  <2>5. local' \in AnyChain
    BY Zenon, <1>2, SyncTakes DEF ChainInv, StoredChains
  <2>6. StoredChains'
    BY Zenon, <1>2, <2>5 DEF Sync, ChainInv, StoredChains
  <2> QED
    BY Zenon, <2>1, <2>3, <2>4, <2>6 DEF ChainInv
<1>3. CASE Complete
  <2>1. /\ queue # <<>> /\ queue' = Tail(queue) /\ queue[1].status # "Pending"
        /\ UNCHANGED <<local, proofs, work, peers, task>>
    BY ZenonT(60), <1>3, TailSequence DEF Complete, IsProcessed, IInv, RangesInQueue
  <2>2. QueuedBlocks' /\ ((\E k : LinkedElement(k)) => (\E k : LinkedElement(k)'))
    BY Zenon, <2>1, TailKeeps DEF IInv, ChainInv
  <2>3. ConsumerInv'
    BY Zenon, <2>1, <2>2 DEF ChainInv, ConsumerInv
  <2>4. StoredChains' /\ TaskBlocks'
    BY Zenon, <2>1 DEF ChainInv, StoredChains, TaskBlocks
  <2> QED
    BY Zenon, <2>2, <2>3, <2>4 DEF ChainInv
<1> QED
  BY Zenon, <1>1, <1>2, <1>3 DEF DispatcherStep

\* One step of the node or of its peers.
LEMMA StepKeepsChains ==
    ASSUME IInv, ChainInv, [Next]_vars
    PROVE  ChainInv'
<1>1. CASE Input /\ UNCHANGED <<peers, unprocessedVars, task>>
  BY Zenon, <1>1, InputKeepsChains
<1>2. ASSUME NEW block \in Chains, NEW isNewEpoch \in BOOLEAN,
             SaveProof(block, isNewEpoch) /\ Disturb /\ UNCHANGED <<peers, unprocessedVars>>
      PROVE  ChainInv'
  BY Zenon, <1>2, ProofKeepsChains
<1>3. ASSUME NEW p \in Peers, PeerChange(p) PROVE ChainInv'
  <2>1. UNCHANGED <<local, proofs, queue, work>> /\ (Disturb \/ UNCHANGED task)
    BY Zenon, <1>3 DEF PeerChange
  <2>2. TaskBlocks'
    BY Zenon, <2>1, DisturbKeepsBlocks DEF IInv, ChainInv
  <2>3. PICK chain \in AnyChain : peers' = [peers EXCEPT ![p] = chain]
    BY Zenon, <1>3, ChainsAreChains DEF PeerChange
  <2>4. peers' \in [Peers -> AnyChain]
    BY Zenon, <2>3 DEF ChainInv, StoredChains
  <2>5. StoredChains'
    BY Zenon, <2>1, <2>4 DEF ChainInv, StoredChains
  <2>6. QueuedBlocks' /\ ConsumerInv'
    BY Zenon, <2>1 DEF ChainInv, QueuedBlocks, ConsumerInv, LinkedElement
  <2> QED
    BY Zenon, <2>2, <2>5, <2>6 DEF ChainInv
<1>4. CASE DispatcherStep
  BY Zenon, <1>4, DispatcherKeepsChains
<1>5. ASSUME NEW p \in Peers, ShouldStartSync(p) PROVE ChainInv'
  <2>1. UNCHANGED <<local, peers, proofs, queue, work>> /\ task' = [stage |-> "Start", peer |-> p]
    BY Zenon, <1>5 DEF ShouldStartSync
  <2>2. TaskBlocks'
    BY Zenon, <2>1 DEF TaskBlocks
  <2> QED
    BY Zenon, <2>1, <2>2, QuietKeepsChains DEF ChainInv
<1>6. CASE CompareStep
  BY <1>6, CompareKeepsChains
<1>7. CASE ChainBlocksFrom
  BY <1>7, PullKeepsChains
<1>8. CASE ClearPendingSync
  <2>1. UNCHANGED <<local, peers, proofs, queue, work>> /\ task' = NoTask
    BY Zenon, <1>8 DEF ClearPendingSync
  <2>2. TaskBlocks'
    BY Zenon, <2>1 DEF TaskBlocks, NoTask
  <2> QED
    BY Zenon, <2>1, <2>2, QuietKeepsChains DEF ChainInv
<1>9. CASE RequestFails
  <2>1. UNCHANGED <<local, peers, proofs, queue, work>> /\ task' = Done("Exception", FALSE) /\ task.stage # "Idle"
    BY Zenon, <1>9 DEF RequestFails
  <2>2. TaskBlocks'
    BY Zenon, <2>1 DEF TaskBlocks, Done, ChainInv
  <2> QED
    BY Zenon, <2>1, <2>2, QuietKeepsChains DEF ChainInv
<1>10. CASE UNCHANGED vars
  <2>1. UNCHANGED <<local, peers, proofs, queue, work, task>>
    BY Zenon, <1>10 DEF vars
  <2>2. TaskBlocks'
    BY Zenon, <2>1 DEF TaskBlocks, ChainInv
  <2> QED
    BY Zenon, <2>1, <2>2, QuietKeepsChains DEF ChainInv
<1> QED
  BY Zenon, <1>1, <1>2, <1>3, <1>4, <1>5, <1>6, <1>7, <1>8, <1>9, <1>10 DEF Next, SyncStep

\* The chains and what the sync consumer has read stay as described.
LEMMA ChainsInductive == Spec => [](IInv /\ ChainInv)
<1>1. Init => IInv /\ ChainInv
  BY Zenon, InitHolds, ChainsInit
<1>2. IInv /\ ChainInv /\ [Next]_vars => (IInv /\ ChainInv)'
  BY Zenon, StepKeeps, StepKeepsChains
<1> QED
  BY <1>1, <1>2, PTL DEF Spec

\* Nothing but the sync consumer changes the local chain.
LEMMA OnlySync ==
    ASSUME [Next]_vars, local' # local
    PROVE  Sync
BY Zenon DEF Next, Input, Harvest, PushBlock, SaveProof, PeerChange, DispatcherStep, Consume, Refuse, ReadLocalFinalized,
    ReadNetworkFinalized, Advance, Complete, ShouldStartSync, SyncStep, CompareStep, CheckEmpty, ReadMaxHeight, ReadLowerBound,
    ReadLocalHeight, ReadLocalScore, CompareChainStatistics, ReadLocalHashes, ReceiveHashes, CompareLocalScore, TaskStep,
    ChainBlocksFrom, ClearPendingSync, RequestFails, vars

\* The block that was finalized locally when the sync consumer began with an element is still there after it, for all
\* chains, whatever is pulled, pushed and harvested, and whatever proofs are saved while the element is processed.
THEOREM FinalizedBlockStays == Spec => FinalizedKept
<1>1. ASSUME IInv /\ ChainInv, [Next]_vars
      PROVE  [local' # local => IsPrefix(work[1], local')]_vars
  BY Zenon, <1>1, OnlySync, SyncTakes
<1> QED
  BY <1>1, ChainsInductive, PTL DEF Spec, FinalizedKept

\* The local chain changes only to one with a higher score or to one that gains the block the network has finalized, for
\* all chains: the scores that preprocess compares above the common block decide for the scores of the whole chains.
THEOREM ChainOnlyImproves == Spec => OnlyBetterChains
<1>1. ASSUME IInv /\ ChainInv, [Next]_vars
      PROVE  [local' # local =>
                \/ Score(local') > Score(local)
                \/ ~IsPrefix(work[2], local) /\ IsPrefix(work[2], local')]_vars
  BY Zenon, <1>1, OnlySync, SyncTakes
<1> QED
  BY <1>1, ChainsInductive, PTL DEF Spec, OnlyBetterChains

-----------------------------------------------------------------------------
(* The search for the common block. *)

\* The larger one of two numbers.
LEMMA MaxOfTwo ==
    ASSUME NEW a \in Nat, NEW b \in Nat
    PROVE  Max({a, b}) = IF a >= b THEN a ELSE b
<1>1. \E x \in {a, b} : \A y \in {a, b} : x >= y
  <2>1. CASE a >= b
    BY <2>1
  <2>2. CASE b >= a
    BY <2>2
  <2> QED
    BY <2>1, <2>2
<1>2. Max({a, b}) \in {a, b} /\ \A y \in {a, b} : Max({a, b}) >= y
  BY Zenon, <1>1 DEF Max
<1> QED
  BY <1>2

\* Where two sequences differ first.
LEMMA CommonIs ==
    ASSUME NEW S, NEW s \in Seq(S), NEW t \in Seq(S)
    PROVE  /\ CommonLength(s, t) \in Nat /\ CommonLength(s, t) <= Len(s) /\ CommonLength(s, t) <= Len(t)
           /\ \A i \in 1 .. CommonLength(s, t) : s[i] = t[i]
           /\ \A n \in 0 .. Len(s) : n <= Len(t) /\ (\A i \in 1 .. n : s[i] = t[i]) => n <= CommonLength(s, t)
<1>1. Len(s) \in Nat /\ Len(t) \in Nat
  OBVIOUS
<1>2. ASSUME NEW n \in 0 .. Len(s)
      PROVE  IsPrefix(SubSeq(s, 1, n), t) <=> n <= Len(t) /\ \A i \in 1 .. n : s[i] = t[i]
  <2>1. PICK p : p = SubSeq(s, 1, n)
    BY Zenon
  <2>2. p \in Seq(S) /\ Len(p) = n /\ \A i \in 1 .. n : p[i] = s[i]
    BY <1>1, <2>1
  <2>3. SubSeq(p, 1, n) \in Seq(S) /\ Len(SubSeq(p, 1, n)) = n /\ \A i \in 1 .. n : SubSeq(p, 1, n)[i] = p[i]
    BY <1>1, <2>2
  <2>4. n <= Len(t) =>
            SubSeq(t, 1, n) \in Seq(S) /\ Len(SubSeq(t, 1, n)) = n /\ \A i \in 1 .. n : SubSeq(t, 1, n)[i] = t[i]
    BY <1>1
  <2>5. n <= Len(t) => (SubSeq(p, 1, n) = SubSeq(t, 1, n) <=> \A i \in 1 .. n : s[i] = t[i])
    BY <2>2, <2>3, <2>4
  <2> QED
    BY Zenon, <2>1, <2>2, <2>5 DEF IsPrefix
<1>3. PICK T : T = {n \in 0 .. Len(s) : IsPrefix(SubSeq(s, 1, n), t)}
  BY Zenon
<1>4. 0 \in T /\ T \in SUBSET (0 .. Len(s))
  <2>1. 0 \in 0 .. Len(s) /\ 0 <= Len(t) /\ \A i \in 1 .. 0 : s[i] = t[i]
    BY <1>1
  <2> QED
    BY Zenon, <1>2, <1>3, <2>1
<1>5. Max(T) \in T /\ \A y \in T : Max(T) >= y
  BY Zenon, <1>1, <1>4, MaxIs
<1>6. CommonLength(s, t) = Max(T)
  BY Zenon, <1>3 DEF CommonLength
<1>7. PICK c \in T : c = CommonLength(s, t) /\ \A y \in T : c >= y
  BY Zenon, <1>5, <1>6
<1>8. c \in Nat /\ c <= Len(s) /\ c <= Len(t) /\ \A i \in 1 .. c : s[i] = t[i]
  BY <1>1, <1>2, <1>3
<1>9. \A n \in 0 .. Len(s) : n <= Len(t) /\ (\A i \in 1 .. n : s[i] = t[i]) => n <= c
  <2>1. \A n \in 0 .. Len(s) : n <= Len(t) /\ (\A i \in 1 .. n : s[i] = t[i]) => n \in T
    BY Zenon, <1>2, <1>3
  <2>2. \A n \in T : n <= c
    BY Zenon, <1>4, <1>7
  <2> QED
    BY Zenon, <2>1, <2>2
<1> QED
  BY Zenon, <1>7, <1>8, <1>9

\* Blocks of two chains are the same up to the last common block and no further.
LEMMA ChainsMeet ==
    ASSUME NEW l \in AnyChain, NEW r \in AnyChain
    PROVE  /\ CommonLength(l, r) \in Nat /\ CommonLength(l, r) <= Len(l) /\ CommonLength(l, r) <= Len(r)
           /\ \A h \in 1 .. Len(l) :
                h <= Len(r) => (SubSeq(l, 1, h) = SubSeq(r, 1, h) <=> h <= CommonLength(l, r))
<1>1. l \in Seq(Int) /\ r \in Seq(Int)
  BY Zenon, ChainHasBlocks
<1>2. PICK c : c = CommonLength(l, r)
  BY Zenon
<1>3. /\ c \in Nat /\ c <= Len(l) /\ c <= Len(r)
      /\ \A i \in 1 .. c : l[i] = r[i]
      /\ \A n \in 0 .. Len(l) : n <= Len(r) /\ (\A i \in 1 .. n : l[i] = r[i]) => n <= c
  BY Zenon, <1>1, <1>2, CommonIs
<1>4. ASSUME NEW h \in 1 .. Len(l), h <= Len(r)
      PROVE  SubSeq(l, 1, h) = SubSeq(r, 1, h) <=> h <= c
  <2>1. Len(l) \in Nat /\ Len(r) \in Nat
    BY <1>1
  <2>2. SubSeq(l, 1, h) \in Seq(Int) /\ Len(SubSeq(l, 1, h)) = h /\ \A i \in 1 .. h : SubSeq(l, 1, h)[i] = l[i]
    BY <1>1, <2>1
  <2>3. SubSeq(r, 1, h) \in Seq(Int) /\ Len(SubSeq(r, 1, h)) = h /\ \A i \in 1 .. h : SubSeq(r, 1, h)[i] = r[i]
    BY <1>1, <1>4, <2>1
  <2>4. SubSeq(l, 1, h) = SubSeq(r, 1, h) <=> \A i \in 1 .. h : l[i] = r[i]
    BY <2>2, <2>3
  <2>5. h <= c => \A i \in 1 .. h : i \in 1 .. c
    BY <1>3, <2>1
  <2>6. h \in 0 .. Len(l)
    BY <2>1
  <2> QED
    BY Zenon, <1>3, <1>4, <2>4, <2>5, <2>6
<1> QED
  BY Zenon, <1>2, <1>3, <1>4

\* Scores are not negative.
LEMMA ScoreIsNat ==
    ASSUME NEW s \in Seq(Nat)
    PROVE  Score(s) \in Nat
<1>1. s \in Seq(Int) /\ Len(s) \in Nat /\ \A i \in 1 .. Len(s) : s[i] \in Nat
  OBVIOUS
<1>2. PICK f : IsSum(f, s)
  BY Zenon, <1>1, SumExists
<1>3. PICK S : S = {m \in Nat : m <= Len(s) => f[m] \in Nat}
  BY Zenon
<1>4. 0 \in S
  BY <1>2, <1>3 DEF IsSum, IsSumUpTo
<1>5. ASSUME NEW m \in 0 .. Len(s) - 1, m \in S PROVE m + 1 \in S
  <2>1. m + 1 \in 1 .. Len(s) /\ (m + 1) - 1 = m /\ m <= Len(s) /\ m + 1 \in Nat
    BY <1>1
  <2>2. f[m + 1] = f[(m + 1) - 1] + s[m + 1]
    BY Zenon, <1>2, <2>1 DEF IsSum, IsSumUpTo
  <2>3. f[m] \in Nat /\ s[m + 1] \in Nat
    BY Zenon, <1>1, <1>3, <1>5, <2>1
  <2>4. f[m + 1] \in Nat
    BY <2>1, <2>2, <2>3
  <2> QED
    BY Zenon, <1>3, <2>1, <2>4
<1>6. Len(s) \in S
  <2>1. Len(s) \in 0 .. Len(s)
    BY <1>1
  <2> QED
    BY Zenon, <1>1, <1>4, <1>5, <2>1, Induct
<1>7. f[Len(s)] \in Nat
  BY <1>1, <1>3, <1>6
<1> QED
  BY Zenon, <1>1, <1>2, <1>7, ScoreIs

\* A chain that is contained in another one does not have a higher score.
LEMMA ContainedScore ==
    ASSUME NEW l \in AnyChain, NEW r \in AnyChain, CommonLength(l, r) >= Len(r)
    PROVE  ~(Score(r) > Score(l))
<1>1. /\ l \in Seq(Int) /\ r \in Seq(Int) /\ l \in Seq(Nat) /\ r \in Seq(Nat)
      /\ Len(l) \in Nat /\ Len(r) \in Nat /\ Len(r) >= 1
  BY Zenon, ChainHasBlocks DEF AnyChain
<1>2. CommonLength(l, r) \in Nat /\ CommonLength(l, r) <= Len(l) /\ CommonLength(l, r) <= Len(r)
  BY Zenon, ChainsMeet
<1>3. Len(r) \in 1 .. Len(l) /\ Len(r) \in 0 .. Len(l) /\ Len(r) <= Len(r) /\ Len(r) <= CommonLength(l, r)
  BY <1>1, <1>2
<1>4. SubSeq(l, 1, Len(r)) = SubSeq(r, 1, Len(r))
  BY Zenon, <1>3, ChainsMeet
<1>5. SubSeq(r, 1, Len(r)) = r
  BY <1>1
<1>6. Score(l) = Score(r) + ScoreAbove(l, Len(r)) /\ Score(r) \in Int
  BY Zenon, <1>1, <1>3, <1>4, <1>5, ScoreSplits
<1>7. ScoreAbove(l, Len(r)) \in Nat
  <2>1. SubSeq(l, Len(r) + 1, Len(l)) \in Seq(Nat)
    BY <1>1, <1>3
  <2> QED
    BY Zenon, <2>1, ScoreIsNat DEF ScoreAbove
<1>8. \A a \in Int, b \in Nat : ~(a > a + b)
  OBVIOUS
<1> QED
  BY Zenon, <1>6, <1>7, <1>8

\* A batch of hashes: as many as there are from the height on, at most HashesPerBatch.
LEMMA BatchIs ==
    ASSUME NEW chain \in AnyChain, NEW height \in 1 .. Len(chain), NEW hashes, hashes = HashesFrom(chain, height)
    PROVE  /\ hashes \in Seq(AnyChain) /\ Len(hashes) \in Nat /\ Len(hashes) >= 1
           /\ \/ Len(hashes) = Len(chain) - height + 1 /\ Len(hashes) <= HashesPerBatch
              \/ Len(hashes) = HashesPerBatch /\ Len(hashes) <= Len(chain) - height + 1
           /\ \A i \in 1 .. Len(hashes) : hashes[i] = SubSeq(chain, 1, height + i - 1)
<1>1. Len(chain) \in Nat /\ HashesPerBatch \in Nat /\ HashesPerBatch >= 1 /\ height \in Nat /\ height >= 1
  BY ChainHasBlocks, SynchronizerAssumption
<1>2. PICK last : last = Min({Len(chain), height + HashesPerBatch - 1})
  BY Zenon
<1>3. /\ last \in {Len(chain), height + HashesPerBatch - 1}
      /\ last <= Len(chain) /\ last <= height + HashesPerBatch - 1
  <2>1. Len(chain) \in Int /\ height + HashesPerBatch - 1 \in Int
    BY <1>1
  <2> QED
    BY Zenon, <1>2, <2>1, MinOfTwo
<1>4. last \in Nat /\ height <= last
  BY <1>1, <1>3
<1>5. PICK n : n = last - height + 1
  BY Zenon
<1>6. /\ n \in Nat /\ n >= 1
      /\ \/ n = Len(chain) - height + 1 /\ n <= HashesPerBatch
         \/ n = HashesPerBatch /\ n <= Len(chain) - height + 1
      /\ \A i \in 1 .. n : height + i - 1 \in 1 .. Len(chain)
  BY <1>1, <1>3, <1>4, <1>5
<1>7. hashes = [i \in 1 .. n |-> SubSeq(chain, 1, height + i - 1)]
  BY Zenon, <1>2, <1>5 DEF HashesFrom, Blocks
<1>8. \A i \in 1 .. n : SubSeq(chain, 1, height + i - 1) \in AnyChain
  BY Zenon, <1>6, PrefixIsChain
<1>9. hashes \in [1 .. n -> AnyChain]
  BY Zenon, <1>7, <1>8
<1>10. hashes \in Seq(AnyChain) /\ Len(hashes) = n
  BY <1>6, <1>9
<1> QED
  BY Zenon, <1>6, <1>7, <1>10

\* Two batches agree up to the last common block, or all along the shorter one.
LEMMA BatchesMeet ==
    ASSUME NEW l \in AnyChain, NEW r \in AnyChain, NEW start \in 1 .. Len(l), start <= Len(r),
           NEW hashes, hashes = HashesFrom(l, start), NEW others, others = HashesFrom(r, start),
           NEW c, c = CommonLength(l, r), NEW d, d = CommonLength(hashes, others)
    PROVE  /\ d \in Nat /\ d <= Len(hashes) /\ d <= Len(others)
           /\ start > c => d = 0
           /\ start <= c => /\ d >= 1 /\ start + d - 1 <= c
                            /\ d = Len(hashes) \/ d = Len(others) \/ start + d - 1 = c
<1>1. Len(l) \in Nat /\ Len(r) \in Nat /\ start \in 1 .. Len(r) /\ start \in Nat /\ start >= 1
  BY ChainHasBlocks
<1>2. /\ hashes \in Seq(AnyChain) /\ Len(hashes) \in Nat /\ Len(hashes) >= 1 /\ Len(hashes) <= Len(l) - start + 1
      /\ \A i \in 1 .. Len(hashes) : hashes[i] = SubSeq(l, 1, start + i - 1)
  <2>1. /\ hashes \in Seq(AnyChain) /\ Len(hashes) \in Nat /\ Len(hashes) >= 1
        /\ \/ Len(hashes) = Len(l) - start + 1 /\ Len(hashes) <= HashesPerBatch
           \/ Len(hashes) = HashesPerBatch /\ Len(hashes) <= Len(l) - start + 1
        /\ \A i \in 1 .. Len(hashes) : hashes[i] = SubSeq(l, 1, start + i - 1)
    BY Zenon, <1>1, BatchIs
  <2>2. Len(hashes) <= Len(l) - start + 1
    BY <1>1, <2>1
  <2> QED
    BY Zenon, <2>1, <2>2
<1>3. /\ others \in Seq(AnyChain) /\ Len(others) \in Nat /\ Len(others) >= 1 /\ Len(others) <= Len(r) - start + 1
      /\ \A i \in 1 .. Len(others) : others[i] = SubSeq(r, 1, start + i - 1)
  <2>1. /\ others \in Seq(AnyChain) /\ Len(others) \in Nat /\ Len(others) >= 1
        /\ \/ Len(others) = Len(r) - start + 1 /\ Len(others) <= HashesPerBatch
           \/ Len(others) = HashesPerBatch /\ Len(others) <= Len(r) - start + 1
        /\ \A i \in 1 .. Len(others) : others[i] = SubSeq(r, 1, start + i - 1)
    BY Zenon, <1>1, BatchIs
  <2>2. Len(others) <= Len(r) - start + 1
    BY <1>1, <2>1
  <2> QED
    BY Zenon, <2>1, <2>2
<1>4. /\ d \in Nat /\ d <= Len(hashes) /\ d <= Len(others)
      /\ \A i \in 1 .. d : hashes[i] = others[i]
      /\ \A n \in 0 .. Len(hashes) : n <= Len(others) /\ (\A i \in 1 .. n : hashes[i] = others[i]) => n <= d
  <2>1. hashes \in Seq(AnyChain) /\ others \in Seq(AnyChain)
    BY Zenon, <1>2, <1>3
  <2>2. /\ CommonLength(hashes, others) \in Nat
        /\ CommonLength(hashes, others) <= Len(hashes) /\ CommonLength(hashes, others) <= Len(others)
        /\ \A i \in 1 .. CommonLength(hashes, others) : hashes[i] = others[i]
        /\ \A n \in 0 .. Len(hashes) :
             n <= Len(others) /\ (\A i \in 1 .. n : hashes[i] = others[i]) => n <= CommonLength(hashes, others)
    BY Zenon, <2>1, CommonIs
  <2> QED
    BY Zenon, <2>2
<1>5. c \in Nat
  BY Zenon, ChainsMeet
<1>6. ASSUME NEW i \in Nat, i >= 1, i <= Len(hashes), i <= Len(others)
      PROVE  hashes[i] = others[i] <=> start + i - 1 <= c
  <2>1. i \in 1 .. Len(hashes) /\ i \in 1 .. Len(others) /\ start + i - 1 \in 1 .. Len(l) /\ start + i - 1 <= Len(r)
    BY <1>1, <1>2, <1>3, <1>6
  <2> QED
    BY Zenon, <1>2, <1>3, <2>1, ChainsMeet
<1>7. d >= 1 => start + d - 1 <= c
  <2>1. d >= 1 => d \in 1 .. d
    BY <1>4
  <2> QED
    BY Zenon, <1>4, <1>6, <2>1
<1>8. start > c => d = 0
  BY <1>1, <1>4, <1>5, <1>7
<1>9. start + d <= c => d = Len(hashes) \/ d = Len(others)
  <2> SUFFICES ASSUME start + d <= c, d # Len(hashes), d # Len(others) PROVE FALSE
    BY Zenon
  <2>1. d + 1 \in 0 .. Len(hashes) /\ d + 1 <= Len(others) /\ ~(d + 1 <= d)
    BY SMTT(30), <1>2, <1>3, <1>4
  <2>2. ASSUME NEW i \in 1 .. d + 1 PROVE hashes[i] = others[i]
    <3>1. start \in Nat /\ d \in Nat /\ c \in Nat /\ Len(hashes) \in Nat /\ Len(others) \in Nat
      BY Zenon, <1>1, <1>2, <1>3, <1>4, <1>5
    <3>2. i \in Nat /\ i >= 1 /\ i <= d + 1
      BY <3>1
    <3>3. i <= Len(hashes) /\ i <= Len(others)
      BY SMTT(30), <2>1, <3>1, <3>2
    <3>4. start + i - 1 <= c
      BY SMTT(30), <3>1, <3>2
    <3> QED
      BY Zenon, <1>6, <3>2, <3>3, <3>4
  <2> QED
    BY Zenon, <1>4, <2>1, <2>2
<1>10. start <= c => d >= 1
  BY SMTT(30), <1>1, <1>2, <1>3, <1>4, <1>5, <1>9
<1>11. start <= c => start + d - 1 <= c /\ (d = Len(hashes) \/ d = Len(others) \/ start + d - 1 = c)
  <2>1. start <= c /\ ~(start + d <= c) => start + d - 1 = c
    <3>1. start \in Nat /\ d \in Nat /\ c \in Nat
      BY Zenon, <1>1, <1>4, <1>5
    <3> QED
      BY <1>7, <1>10, <3>1
  <2> QED
    BY Zenon, <1>7, <1>9, <1>10, <2>1
<1> QED
  BY Zenon, <1>4, <1>8, <1>10, <1>11

\* The middle of a range.
LEMMA Half == \A x \in Nat : x \div 2 \in Nat /\ 2 * (x \div 2) <= x /\ x <= 2 * (x \div 2) + 1
OBVIOUS

\* The heights of a search: the common block is not below the lower bound and not above the upper one, unless that is
\* the end of the local chain, and the peer has the block at which the next batch starts.
Bounded(common, L, R, lower, start, upper) ==
    /\ 1 <= lower /\ lower <= common /\ lower <= start /\ start <= L /\ start <= R
    /\ upper <= L /\ (upper = L \/ upper > common)

\* The three ways a search continues, for batches with a and b hashes that agree in the first d ones: each one starts
\* at another height and keeps the common block within the bounds.
LEMMA SearchMoves ==
    ASSUME NEW L \in Nat, NEW R \in Nat, NEW B \in Nat, B > 2, L <= R + B,
           NEW common \in Nat, common <= L, common < R,
           NEW lower \in Nat, NEW start \in Nat, NEW upper \in Nat, Bounded(common, L, R, lower, start, upper),
           NEW b \in Nat, (b = R - start + 1 /\ b <= B) \/ (b = B /\ b <= R - start + 1)
    PROVE  /\ start > common =>
                /\ (lower + start) \div 2 # start
                /\ Bounded(common, L, R, lower, (lower + start) \div 2, start)
           /\ start <= common /\ start + b - 1 <= common /\ start + b - 1 < L =>
                /\ (start + upper) \div 2 # start
                /\ Bounded(common, L, R, start, (start + upper) \div 2, upper)
           /\ start <= common /\ start + b - 1 <= common /\ ~(start + b - 1 < L) =>
                /\ start + b - 2 # start
                /\ Bounded(common, L, R, lower, start + b - 2, upper)
<1> USE DEF Bounded
<1>1. ASSUME start > common
      PROVE  /\ (lower + start) \div 2 # start
             /\ Bounded(common, L, R, lower, (lower + start) \div 2, start)
  <2>1. PICK h \in Nat : h = (lower + start) \div 2 /\ 2 * h <= lower + start /\ lower + start <= 2 * h + 1
    BY Half
  <2>2. h < start /\ lower <= h
    BY <1>1, <2>1
  <2> QED
    BY <1>1, <2>1, <2>2
<1>2. ASSUME start <= common, start + b - 1 <= common
      PROVE  b = B /\ start + B <= R
  BY <1>2
<1>3. ASSUME start <= common, start + b - 1 <= common, start + b - 1 < L
      PROVE  /\ (start + upper) \div 2 # start
             /\ Bounded(common, L, R, start, (start + upper) \div 2, upper)
  <2>1. PICK h \in Nat : h = (start + upper) \div 2 /\ 2 * h <= start + upper /\ start + upper <= 2 * h + 1
    BY Half
  <2>2. upper >= start + 2
    BY <1>2, <1>3
  <2>3. h >= start + 1 /\ h <= L
    BY <2>1, <2>2
  <2>4. h <= R
    BY <1>2, <1>3, <2>1
  <2> QED
    BY <1>3, <2>1, <2>3, <2>4
<1>4. ASSUME start <= common, start + b - 1 <= common, ~(start + b - 1 < L)
      PROVE  /\ start + b - 2 # start
             /\ Bounded(common, L, R, lower, start + b - 2, upper)
  BY <1>2, <1>4
<1> QED
  BY Zenon, <1>1, <1>3, <1>4

SearchStages == {"LocalHeight", "LocalScore", "Statistics", "LocalHashes", "Hashes", "LocalScoreAgain"}

\* The fields of CompareChains.
SearchTask ==
    [stage : SearchStages, peer : Peers, stable : BOOLEAN, lower : Int, start : Int, upper : Int, isFirst : BOOLEAN,
     localHeight : Nat, localScore : Int, remoteHeight : Nat, hashes : Seq(AnyChain)]

\* A peer that a comparison may not reject.
Comparable == IsPrefix(LocalFinalized, Remote) /\ Len(local) <= Len(Remote) + HashesPerBatch

\* What a search that nothing disturbed has read is still true.
ReadCurrent ==
    /\ task.stage # "LocalHeight" => task.localHeight = Len(local)
    /\ task.stage \notin {"LocalHeight", "LocalScore"} => task.localScore = Score(local)
    /\ task.stage \in {"LocalHashes", "Hashes", "LocalScoreAgain"} =>
        task.remoteHeight = Len(Remote) /\ Score(Remote) > Score(local)
    /\ task.stage = "Hashes" => task.hashes = HashesFrom(local, task.start) /\ task.start \in 1 .. Len(local)

\* The bounds of a search for the last block in common with a comparable peer; it never ends without one.
SearchBounded ==
    Comparable =>
        /\ task.stage # "LocalScoreAgain"
        /\ task.isFirst => task.start = task.lower
        /\ Bounded(CommonLength(local, Remote), Len(local), Len(Remote), task.lower, task.start,
                   IF task.stage = "LocalHeight" THEN Len(local) ELSE task.upper)

\* The task of a comparison, while it searches and when it has a result.
SearchInv ==
    /\ task.stage \in SearchStages => task \in SearchTask /\ (task.stable => ReadCurrent /\ SearchBounded)
    /\ task.stage = "Pull" => {"stable", "common", "forkDepth"} \subseteq DOMAIN task
    /\ task.stage = "Done" => {"stable", "code"} \subseteq DOMAIN task
    /\ CompareExact

\* The local finalized block is below the last block in common with a comparable peer.
LEMMA FinalizedIsCommon ==
    ASSUME StoredChains, Remote \in AnyChain, IsPrefix(LocalFinalized, Remote)
    PROVE  /\ Len(LocalFinalized) \in Nat /\ Len(LocalFinalized) >= 1
           /\ Len(LocalFinalized) <= CommonLength(local, Remote)
<1>1. /\ LocalFinalized \in AnyChain /\ IsPrefix(LocalFinalized, local) /\ local \in AnyChain
  BY Zenon, LocalFinalizedIs DEF StoredChains
<1>2. PICK F : F = Len(LocalFinalized)
  BY Zenon
<1>3. F \in Nat /\ F >= 1 /\ Len(local) \in Nat
  BY Zenon, <1>1, <1>2, ChainHasBlocks
<1>4. F <= Len(local) /\ F <= Len(Remote) /\ SubSeq(local, 1, F) = SubSeq(Remote, 1, F)
  BY Zenon, <1>1, <1>2 DEF IsPrefix
<1>5. F \in 1 .. Len(local)
  BY <1>3, <1>4
<1> QED
  BY Zenon, <1>1, <1>2, <1>3, <1>4, <1>5, ChainsMeet

\* A search that something disturbed claims nothing any more.
LEMMA DisturbKeepsSearch ==
    ASSUME TaskShape, SearchInv, Disturb
    PROVE  SearchInv'
<1>1. CASE "stable" \in DOMAIN task
  <2>1. task' = [task EXCEPT !.stable = FALSE]
    BY Zenon, <1>1 DEF Disturb
  <2>2. task'.stage = task.stage /\ DOMAIN task' = DOMAIN task /\ task'.stable = FALSE
    BY Zenon, <1>1, <2>1 DEF TaskShape
  <2>3. task \in SearchTask => task' \in SearchTask
    BY Zenon, <2>1 DEF SearchTask
  <2> QED
    BY Zenon, <2>2, <2>3 DEF SearchInv, CompareExact
<1>2. CASE "stable" \notin DOMAIN task
  <2>1. task' = task
    BY Zenon, <1>2 DEF Disturb
  <2>2. task \notin SearchTask
    BY Zenon, <1>2 DEF SearchTask
  <2>3. task.stage \notin SearchStages /\ task.stage # "Pull" /\ task.stage # "Done"
    BY Zenon, <1>2, <2>2 DEF SearchInv
  <2> QED
    BY Zenon, <2>1, <2>3 DEF SearchInv, CompareExact
<1> QED
  BY Zenon, <1>1, <1>2

\* A step that changes neither the chains of the comparison nor the task.
LEMMA QuietKeepsSearch ==
    ASSUME SearchInv, UNCHANGED <<local, proofs, task>>, task.stage # "Idle" => Remote' = Remote
    PROVE  SearchInv'
<1>1. LocalFinalized' = LocalFinalized
  BY Zenon DEF LocalFinalized, SelectLastInSeq
<1>2. CASE task.stage = "Idle"
  BY Zenon, <1>2 DEF SearchInv, CompareExact, SearchStages
<1>3. CASE task.stage # "Idle"
  <2>1. Remote' = Remote
    BY Zenon, <1>3
  <2>2. CompareExact'
    BY Zenon, <1>1, <2>1 DEF SearchInv, CompareExact
  <2>3. task.stable /\ task.stage \in SearchStages => ReadCurrent' /\ SearchBounded'
    BY Zenon, <1>1, <2>1 DEF SearchInv, ReadCurrent, SearchBounded, Comparable
  <2> QED
    BY Zenon, <2>2, <2>3 DEF SearchInv
<1> QED
  BY Zenon, <1>2, <1>3

\* What a step of the comparison works with.
LEMMA SearchContext ==
    ASSUME IInv, ChainInv, SearchInv, task.stage \in SearchStages
    PROVE  /\ task \in SearchTask /\ Remote \in AnyChain /\ local \in AnyChain
           /\ Len(local) \in Nat /\ Len(Remote) \in Nat /\ Score(local) \in Int
           /\ task.stable => ReadCurrent /\ SearchBounded
<1>1. task \in SearchTask /\ (task.stable => ReadCurrent /\ SearchBounded)
  BY Zenon DEF SearchInv
<1>2. task.peer \in Peers
  BY Zenon, <1>1 DEF SearchTask
<1>3. local \in AnyChain /\ Remote \in AnyChain
  BY Zenon, <1>2 DEF Remote, ChainInv, StoredChains
<1>4. Score(local) \in Nat
  BY Zenon, <1>3, ScoreIsNat DEF AnyChain
<1>5. Score(local) \in Int
  BY <1>4
<1> QED
  BY Zenon, <1>1, <1>3, <1>5, ChainHasBlocks

\* The search goes on with the same peer and the same chains.
LEMMA SearchGoesOn ==
    ASSUME UNCHANGED <<local, proofs, peers>>, task' \in SearchTask, task'.peer = task.peer,
           task'.stable => ReadCurrent' /\ SearchBounded'
    PROVE  SearchInv'
<1>1. task'.stage \in SearchStages
  BY Zenon DEF SearchTask
<1>2. task'.stage # "Pull" /\ task'.stage # "Done"
  BY Zenon, <1>1 DEF SearchStages
<1> QED
  BY Zenon, <1>1, <1>2 DEF SearchInv, CompareExact

\* The first lower bound is the local finalized block.
LEMMA LowerBoundKeepsSearch ==
    ASSUME IInv, ChainInv, SearchInv, ReadLowerBound
    PROVE  SearchInv'
<1>1. PICK F : F = Len(LocalFinalized)
  BY Zenon
<1>2. /\ task.stage = "Compare" /\ UNCHANGED <<local, proofs, peers>>
      /\ task' = [stage |-> "LocalHeight", peer |-> task.peer, stable |-> TRUE,
                  lower |-> F, start |-> F, upper |-> 0, isFirst |-> TRUE,
                  localHeight |-> 0, localScore |-> 0, remoteHeight |-> 0, hashes |-> <<>>]
  BY Zenon, <1>1 DEF ReadLowerBound, TaskStep
<1>3. task.peer \in Peers
  BY Zenon, <1>2 DEF ChainInv, TaskBlocks
<1>4. /\ Remote \in AnyChain /\ local \in AnyChain /\ StoredChains
  BY Zenon, <1>3 DEF Remote, ChainInv, StoredChains
<1>5. F \in Nat
  BY Zenon, <1>1, <1>4, LocalFinalizedIs, ChainHasBlocks
<1>6. task' \in SearchTask
  BY <1>2, <1>3, <1>5 DEF SearchTask, SearchStages
<1>7. LocalFinalized' = LocalFinalized
  BY Zenon, <1>2 DEF LocalFinalized, SelectLastInSeq
<1>8. Remote' = Remote /\ task'.peer = task.peer /\ task'.stage = "LocalHeight" /\ task'.lower = F /\ task'.start = F
  BY Zenon, <1>2 DEF Remote
<1>9. ReadCurrent'
  BY Zenon, <1>8 DEF ReadCurrent
<1>10. SearchBounded'
  <2> SUFFICES ASSUME Comparable PROVE Bounded(CommonLength(local, Remote), Len(local), Len(Remote), F, F, Len(local))
    BY Zenon, <1>2, <1>7, <1>8 DEF SearchBounded, Comparable
  <2>1. F >= 1 /\ F <= CommonLength(local, Remote)
    BY Zenon, <1>1, <1>4, FinalizedIsCommon DEF Comparable
  <2>2. PICK c \in Nat : c = CommonLength(local, Remote) /\ c <= Len(local) /\ c <= Len(Remote)
    BY Zenon, <1>4, ChainsMeet
  <2>3. Len(local) \in Nat /\ Len(Remote) \in Nat
    BY Zenon, <1>4, ChainHasBlocks
  <2> QED
    BY <1>5, <2>1, <2>2, <2>3 DEF Bounded
<1> QED
  BY Zenon, <1>2, <1>6, <1>8, <1>9, <1>10, SearchGoesOn

\* The height and the score of the local chain are read.
LEMMA LocalKeepsSearch ==
    ASSUME IInv, ChainInv, SearchInv, ReadLocalHeight \/ ReadLocalScore
    PROVE  SearchInv'
<1>1. task.stage \in {"LocalHeight", "LocalScore"} /\ UNCHANGED <<local, proofs, peers>>
  BY Zenon DEF ReadLocalHeight, ReadLocalScore, TaskStep
<1>2. /\ task \in SearchTask /\ Len(local) \in Nat /\ Score(local) \in Int
      /\ task.stable => ReadCurrent /\ SearchBounded
  <2>1. task.stage \in SearchStages
    BY Zenon, <1>1 DEF SearchStages
  <2> QED
    BY Zenon, <2>1, SearchContext
<1>3. LocalFinalized' = LocalFinalized
  BY Zenon, <1>1 DEF LocalFinalized, SelectLastInSeq
<1>4. CASE ReadLocalHeight
  <2>1. task.stage = "LocalHeight"
        /\ task' = [task EXCEPT !.stage = "LocalScore", !.localHeight = Len(local), !.upper = Len(local)]
    BY Zenon, <1>4 DEF ReadLocalHeight, TaskStep
  <2>2. task' \in SearchTask
    <3>1. Len(local) \in Int
      BY <1>2
    <3> QED
      BY Zenon, <1>2, <2>1, <3>1 DEF SearchTask, SearchStages
  <2>3. /\ task'.stage = "LocalScore" /\ task'.localHeight = Len(local) /\ task'.upper = Len(local)
        /\ task'.peer = task.peer /\ task'.stable = task.stable /\ task'.isFirst = task.isFirst
        /\ task'.lower = task.lower /\ task'.start = task.start
    BY Zenon, <1>2, <2>1 DEF SearchTask
  <2>4. Remote' = Remote
    BY Zenon, <1>1, <2>3 DEF Remote
  <2>5. ReadCurrent'
    BY Zenon, <1>1, <2>3 DEF ReadCurrent
  <2>6. SearchBounded => SearchBounded'
    BY Zenon, <1>1, <1>3, <2>1, <2>3, <2>4 DEF SearchBounded, Comparable
  <2> QED
    BY Zenon, <1>1, <1>2, <2>2, <2>3, <2>5, <2>6, SearchGoesOn
<1>5. CASE ReadLocalScore
  <2>1. task.stage = "LocalScore" /\ task' = [task EXCEPT !.stage = "Statistics", !.localScore = Score(local)]
    BY Zenon, <1>5 DEF ReadLocalScore, TaskStep
  <2>2. task' \in SearchTask
    BY Zenon, <1>2, <2>1 DEF SearchTask, SearchStages
  <2>3. /\ task'.stage = "Statistics" /\ task'.localScore = Score(local)
        /\ task'.localHeight = task.localHeight /\ task'.upper = task.upper
        /\ task'.peer = task.peer /\ task'.stable = task.stable /\ task'.isFirst = task.isFirst
        /\ task'.lower = task.lower /\ task'.start = task.start
    BY Zenon, <1>2, <2>1 DEF SearchTask
  <2>4. Remote' = Remote
    BY Zenon, <1>1, <2>3 DEF Remote
  <2>5. ReadCurrent => ReadCurrent'
    BY Zenon, <1>1, <2>1, <2>3 DEF ReadCurrent
  <2>6. SearchBounded => SearchBounded'
    BY Zenon, <1>1, <1>3, <2>1, <2>3, <2>4 DEF SearchBounded, Comparable
  <2> QED
    BY Zenon, <1>1, <1>2, <2>2, <2>3, <2>5, <2>6, SearchGoesOn
<1> QED
  BY Zenon, <1>4, <1>5

\* A comparison that ends without a code that blames a comparable peer.
LEMMA EndKeepsSearch ==
    ASSUME NEW code, task' = Done(code, task.stable), UNCHANGED <<local, proofs, peers>>,
           task.stable /\ Comparable =>
               code \notin {"Remote_Returned_Too_Many_Hashes", "Remote_Is_Forked", "Remote_Lied_About_Chain_Score", "Exception"}
    PROVE  SearchInv'
<1>1. /\ DOMAIN task' = {"stage", "peer", "code", "stable"}
      /\ task'.stage = "Done" /\ task'.peer = task.peer /\ task'.code = code /\ task'.stable = task.stable
  BY Zenon DEF Done
<1>2. Remote' = Remote /\ LocalFinalized' = LocalFinalized
  BY Zenon, <1>1 DEF Remote, LocalFinalized, SelectLastInSeq
<1>3. task'.stage \notin SearchStages /\ task'.stage # "Pull"
  BY Zenon, <1>1 DEF SearchStages
<1>4. CompareExact'
  BY Zenon, <1>1, <1>2, <1>3 DEF CompareExact, Comparable
<1>5. {"stable", "code"} \subseteq DOMAIN task'
  BY Zenon, <1>1
<1> QED
  BY Zenon, <1>3, <1>4, <1>5 DEF SearchInv

\* The statistics of the peer are compared.
LEMMA StatisticsKeepSearch ==
    ASSUME IInv, ChainInv, SearchInv, CompareChainStatistics
    PROVE  SearchInv'
<1>1. task.stage = "Statistics" /\ UNCHANGED <<local, proofs, peers>>
  BY Zenon DEF CompareChainStatistics, TaskStep
<1>2. /\ task \in SearchTask /\ Len(Remote) \in Nat
      /\ task.stable => ReadCurrent /\ SearchBounded
  <2>1. task.stage \in SearchStages
    BY Zenon, <1>1 DEF SearchStages
  <2> QED
    BY Zenon, <2>1, SearchContext
<1>3. \/ task' = Done("Remote_Is_Too_Far_Behind", task.stable)
      \/ task' = Done("Remote_Reported_Lower_Or_Equal_Chain_Score", task.stable)
      \/ /\ Score(Remote) > task.localScore
         /\ task' = [task EXCEPT !.stage = "LocalHashes", !.remoteHeight = Len(Remote)]
  BY Zenon DEF CompareChainStatistics, TaskStep
<1>4. ASSUME NEW code \in {"Remote_Is_Too_Far_Behind", "Remote_Reported_Lower_Or_Equal_Chain_Score"},
             task' = Done(code, task.stable)
      PROVE  SearchInv'
  BY Zenon, <1>1, <1>4, EndKeepsSearch
<1>5. ASSUME Score(Remote) > task.localScore, task' = [task EXCEPT !.stage = "LocalHashes", !.remoteHeight = Len(Remote)]
      PROVE  SearchInv'
  <2>1. task' \in SearchTask
    BY Zenon, <1>2, <1>5 DEF SearchTask, SearchStages
  <2>2. /\ task'.stage = "LocalHashes" /\ task'.localScore = task.localScore /\ task'.remoteHeight = Len(Remote)
        /\ task'.localHeight = task.localHeight /\ task'.upper = task.upper
        /\ task'.peer = task.peer /\ task'.stable = task.stable /\ task'.isFirst = task.isFirst
        /\ task'.lower = task.lower /\ task'.start = task.start
    BY Zenon, <1>2, <1>5 DEF SearchTask
  <2>3. Remote' = Remote /\ LocalFinalized' = LocalFinalized
    BY Zenon, <1>1, <2>2 DEF Remote, LocalFinalized, SelectLastInSeq
  <2>4. ReadCurrent => ReadCurrent'
    <3>1. ReadCurrent => task.localHeight = Len(local) /\ task.localScore = Score(local)
      BY Zenon, <1>1 DEF ReadCurrent
    <3> QED
      BY Zenon, <1>1, <1>5, <2>2, <2>3, <3>1 DEF ReadCurrent
  <2>5. SearchBounded => SearchBounded'
    BY Zenon, <1>1, <2>2, <2>3 DEF SearchBounded, Comparable
  <2> QED
    BY Zenon, <1>1, <1>2, <2>1, <2>2, <2>4, <2>5, SearchGoesOn
<1> QED
  BY Zenon, <1>3, <1>4, <1>5

\* The local hashes are read: there are some, because the search stays within the local chain.
LEMMA HashesKeepSearch ==
    ASSUME IInv, ChainInv, SearchInv, ReadLocalHashes
    PROVE  SearchInv'
<1>1. task.stage = "LocalHashes" /\ UNCHANGED <<local, proofs, peers>>
  BY Zenon DEF ReadLocalHashes, TaskStep
<1>2. /\ task \in SearchTask /\ Len(local) \in Nat /\ local \in AnyChain
      /\ task.stable => ReadCurrent /\ SearchBounded
  <2>1. task.stage \in SearchStages
    BY Zenon, <1>1 DEF SearchStages
  <2> QED
    BY Zenon, <2>1, SearchContext
<1>3. PICK hashes : hashes = HashesFrom(local, task.start)
  BY Zenon
<1>4. \/ hashes = <<>> /\ task' = Done("Exception", task.stable)
      \/ hashes # <<>> /\ task' = [task EXCEPT !.stage = "Hashes", !.hashes = hashes]
  BY Zenon, <1>3 DEF ReadLocalHashes, TaskStep
<1>5. task.start \in 1 .. Len(local) => hashes \in Seq(AnyChain) /\ hashes # <<>>
  <2>1. task.start \in 1 .. Len(local) => hashes \in Seq(AnyChain) /\ Len(hashes) >= 1
    BY Zenon, <1>2, <1>3, BatchIs
  <2> QED
    BY <2>1
<1>6. task.start \notin 1 .. Len(local) => hashes = <<>>
  BY Zenon, <1>3 DEF HashesFrom
<1>7. CASE hashes = <<>> /\ task' = Done("Exception", task.stable)
  <2>1. SearchBounded /\ Comparable => 1 <= task.lower /\ task.lower <= task.start /\ task.start <= Len(local)
    BY Zenon DEF SearchBounded, Bounded
  <2>2. SearchBounded /\ Comparable => task.start \in 1 .. Len(local)
    <3>1. task.lower \in Int /\ task.start \in Int
      BY Zenon, <1>2 DEF SearchTask
    <3> QED
      BY <1>2, <2>1, <3>1
  <2> QED
    BY Zenon, <1>1, <1>2, <1>5, <1>7, <2>2, EndKeepsSearch
<1>8. CASE hashes # <<>> /\ task' = [task EXCEPT !.stage = "Hashes", !.hashes = hashes]
  <2>1. task' \in SearchTask
    BY Zenon, <1>2, <1>5, <1>6, <1>8 DEF SearchTask, SearchStages
  <2>2. /\ task'.stage = "Hashes" /\ task'.localScore = task.localScore /\ task'.remoteHeight = task.remoteHeight
        /\ task'.localHeight = task.localHeight /\ task'.upper = task.upper /\ task'.hashes = hashes
        /\ task'.peer = task.peer /\ task'.stable = task.stable /\ task'.isFirst = task.isFirst
        /\ task'.lower = task.lower /\ task'.start = task.start
    BY Zenon, <1>2, <1>8 DEF SearchTask
  <2>3. Remote' = Remote /\ LocalFinalized' = LocalFinalized
    BY Zenon, <1>1, <2>2 DEF Remote, LocalFinalized, SelectLastInSeq
  <2>4. ReadCurrent => ReadCurrent'
    <3>1. ReadCurrent => /\ task.localHeight = Len(local) /\ task.localScore = Score(local)
                         /\ task.remoteHeight = Len(Remote) /\ Score(Remote) > Score(local)
      BY Zenon, <1>1 DEF ReadCurrent
    <3>2. HashesFrom(local, task.start)' = hashes /\ task.start \in 1 .. Len(local)
      BY Zenon, <1>1, <1>3, <1>6, <1>8, <2>2
    <3> QED
      BY ZenonT(60), <1>1, <2>2, <2>3, <3>1, <3>2 DEF ReadCurrent
  <2>5. SearchBounded => SearchBounded'
    BY Zenon, <1>1, <2>2, <2>3 DEF SearchBounded, Comparable
  <2> QED
    BY Zenon, <1>1, <1>2, <2>1, <2>2, <2>4, <2>5, SearchGoesOn
<1> QED
  BY Zenon, <1>4, <1>7, <1>8

\* The search continues at another height, or ends when there is none.
LEMMA ContinueKeepsSearch ==
    ASSUME IInv, ChainInv, SearchInv, task.stage = "Hashes", UNCHANGED <<local, proofs, peers>>,
           NEW context \in SearchTask, NEW start \in Int, task' = TryContinue(context, start),
           context.peer = task.peer, context.stable = task.stable, context.start = task.start,
           context.localHeight = task.localHeight, context.localScore = task.localScore,
           context.remoteHeight = task.remoteHeight,
           task.stable /\ Comparable =>
               /\ start # task.start
               /\ Bounded(CommonLength(local, Remote), Len(local), Len(Remote), context.lower, start, context.upper)
    PROVE  SearchInv'
<1>1. task.stable => ReadCurrent
  <2>1. task.stage \in SearchStages
    BY Zenon DEF SearchStages
  <2> QED
    BY Zenon, <2>1, SearchContext
<1>2. \/ start = task.start /\ task' = Done("Remote_Lied_About_Chain_Score", task.stable)
      \/ /\ start # task.start
         /\ task' = [context EXCEPT !.stage = "LocalHashes", !.start = start, !.isFirst = FALSE, !.hashes = <<>>]
  BY Zenon DEF TryContinue
<1>3. CASE start = task.start /\ task' = Done("Remote_Lied_About_Chain_Score", task.stable)
  BY Zenon, <1>3, EndKeepsSearch
<1>4. CASE task' = [context EXCEPT !.stage = "LocalHashes", !.start = start, !.isFirst = FALSE, !.hashes = <<>>]
  <2>1. task' \in SearchTask
    <3>1. <<>> \in Seq(AnyChain)
      OBVIOUS
    <3> QED
      BY Zenon, <1>4, <3>1 DEF SearchTask, SearchStages
  <2>2. /\ task'.stage = "LocalHashes" /\ task'.localScore = task.localScore /\ task'.remoteHeight = task.remoteHeight
        /\ task'.localHeight = task.localHeight /\ task'.upper = context.upper
        /\ task'.peer = task.peer /\ task'.stable = task.stable /\ task'.isFirst = FALSE
        /\ task'.lower = context.lower /\ task'.start = start
    BY <1>4 DEF SearchTask
  <2>3. Remote' = Remote /\ LocalFinalized' = LocalFinalized
    BY <2>2 DEF Remote, LocalFinalized, SelectLastInSeq
  <2>4. ReadCurrent => ReadCurrent'
    <3>1. ReadCurrent => /\ task.localHeight = Len(local) /\ task.localScore = Score(local)
                         /\ task.remoteHeight = Len(Remote) /\ Score(Remote) > Score(local)
      BY Zenon DEF ReadCurrent
    <3> QED
      BY ZenonT(60), <2>2, <2>3, <3>1 DEF ReadCurrent
  <2>5. task.stable => SearchBounded'
    BY ZenonT(60), <2>2, <2>3 DEF SearchBounded, Comparable
  <2> QED
    BY Zenon, <1>1, <2>1, <2>2, <2>4, <2>5, SearchGoesOn
<1> QED
  BY Zenon, <1>2, <1>3, <1>4

\* The hashes of the peer arrive.
LEMMA ReceiveKeepsSearch ==
    ASSUME IInv, ChainInv, SearchInv, ReceiveHashes
    PROVE  SearchInv'
<1>1. task.stage = "Hashes" /\ UNCHANGED <<local, proofs, peers>>
  BY Zenon DEF ReceiveHashes, TaskStep
<1>2. /\ task \in SearchTask /\ Len(local) \in Nat /\ Len(Remote) \in Nat /\ local \in AnyChain /\ Remote \in AnyChain
      /\ task.stable => ReadCurrent /\ SearchBounded
  <2>1. task.stage \in SearchStages
    BY Zenon, <1>1 DEF SearchStages
  <2> QED
    BY Zenon, <2>1, SearchContext
<1>3. PICK others : others = HashesFrom(Remote, task.start)
  BY Zenon
<1>4. PICK d : d = CommonLength(task.hashes, others)
  BY Zenon
<1>5. PICK m : m = Min({Len(task.hashes), Len(others)})
  BY Zenon
<1>6. /\ task.hashes \in Seq(AnyChain) /\ Len(task.hashes) \in Nat
      /\ task.lower \in Int /\ task.start \in Int /\ task.upper \in Int /\ task.stable \in BOOLEAN
      /\ task.localHeight \in Nat /\ task.remoteHeight \in Nat
  BY <1>2 DEF SearchTask
<1>7. task.start \in 1 .. Len(Remote) =>
        /\ others \in Seq(AnyChain) /\ Len(others) \in Nat /\ Len(others) >= 1
        /\ \/ Len(others) = Len(Remote) - task.start + 1 /\ Len(others) <= HashesPerBatch
           \/ Len(others) = HashesPerBatch /\ Len(others) <= Len(Remote) - task.start + 1
  BY Zenon, <1>2, <1>3, BatchIs
<1>8. task.start \notin 1 .. Len(Remote) => others = <<>>
  BY Zenon, <1>3 DEF HashesFrom
<1>9. others \in Seq(AnyChain) /\ Len(others) \in Nat /\ (others # <<>> <=> Len(others) # 0)
  <2>1. others \in Seq(AnyChain)
    <3>1. <<>> \in Seq(AnyChain)
      OBVIOUS
    <3> QED
      BY Zenon, <1>7, <1>8, <3>1
  <2> QED
    BY <2>1
<1>10. d \in Nat /\ m \in Nat /\ m <= Len(task.hashes) /\ m <= Len(others) /\ m \in {Len(task.hashes), Len(others)}
  <2>1. d \in Nat
    BY Zenon, <1>4, <1>6, <1>9, CommonIs
  <2>2. Len(task.hashes) \in Int /\ Len(others) \in Int
    BY <1>6, <1>9
  <2>3. m \in {Len(task.hashes), Len(others)} /\ m <= Len(task.hashes) /\ m <= Len(others)
    BY Zenon, <1>5, <2>2, MinOfTwo
  <2>4. m \in Nat
    BY Zenon, <1>6, <1>9, <2>3
  <2> QED
    BY Zenon, <2>1, <2>3, <2>4
<1>11. \/ others = <<>> /\ task' = Done("Remote_Returned_Too_Many_Hashes", task.stable)
       \/ /\ others # <<>> /\ d = 0 /\ task.isFirst
          /\ task' = Done("Remote_Is_Forked", task.stable)
       \/ /\ others # <<>> /\ d = 0 /\ ~task.isFirst
          /\ task' = TryContinue([task EXCEPT !.upper = task.start], (task.lower + task.start) \div 2)
       \/ /\ others # <<>> /\ d = Len(others) /\ task.start + m - 1 < task.localHeight
          /\ task' = TryContinue([task EXCEPT !.lower = task.start], (task.start + task.upper) \div 2)
       \/ /\ others # <<>> /\ d = Len(others) /\ ~(task.start + m - 1 < task.localHeight)
          /\ task' = TryContinue(task, task.start + m - 1 - 1)
       \/ /\ others # <<>> /\ d = Len(others) /\ ~(task.start + m - 1 < task.remoteHeight)
          /\ task' = [task EXCEPT !.stage = "LocalScoreAgain", !.hashes = <<>>]
       \/ /\ others # <<>> /\ d # 0 /\ d # Len(others)
          /\ task' = SyncWithPeer(task.start + d - 1, Max({task.localHeight, task.start + m - 1}) - (task.start + d - 1),
                                  TRUE, task.stable)
  <2>1. task' = CompareHashes(others)
    BY Zenon, <1>3 DEF ReceiveHashes, TaskStep
  <2>2. ~(others # <<>> /\ d = 0 /\ d = Len(others))
    BY Zenon, <1>9
  <2>3. CASE others = <<>>
    BY Zenon, <2>1, <2>3 DEF CompareHashes
  <2>4. CASE others # <<>> /\ d = 0
    BY ZenonT(60), <1>4, <2>1, <2>2, <2>4 DEF CompareHashes
  <2>5. CASE others # <<>> /\ d = Len(others)
    <3>1. d # 0
      BY Zenon, <2>2, <2>5
    <3>2. CASE task.start + m - 1 < task.localHeight
      BY ZenonT(60), <1>4, <1>5, <2>1, <2>5, <3>1, <3>2 DEF CompareHashes
    <3>3. CASE ~(task.start + m - 1 < task.localHeight) /\ task.start + m - 1 < task.remoteHeight
      <4>1. task' = TryContinue(task, task.start + m - 1 - 1)
        BY SMTT(30), <1>4, <1>5, <1>6, <1>10, <2>1, <2>5, <3>1, <3>3 DEF CompareHashes
      <4> QED
        BY Zenon, <2>5, <3>3, <4>1
    <3>4. CASE ~(task.start + m - 1 < task.localHeight) /\ ~(task.start + m - 1 < task.remoteHeight)
      BY ZenonT(60), <1>4, <1>5, <2>1, <2>5, <3>1, <3>4 DEF CompareHashes
    <3> QED
      BY Zenon, <2>5, <3>1, <3>2, <3>3, <3>4
  <2>6. CASE others # <<>> /\ d # 0 /\ d # Len(others)
    BY Zenon, <1>4, <1>5, <2>1, <2>6 DEF CompareHashes
  <2> QED
    BY Zenon, <2>3, <2>4, <2>5, <2>6
<1>12. PICK c \in Nat : c = CommonLength(local, Remote) /\ c <= Len(local) /\ c <= Len(Remote)
  BY Zenon, <1>2, ChainsMeet
<1>13. task.stable =>
         /\ task.localHeight = Len(local) /\ task.remoteHeight = Len(Remote) /\ c < Len(Remote)
         /\ task.hashes = HashesFrom(local, task.start) /\ task.start \in 1 .. Len(local)
  <2>1. task.stable =>
         /\ task.localHeight = Len(local) /\ task.remoteHeight = Len(Remote) /\ Score(Remote) > Score(local)
         /\ task.hashes = HashesFrom(local, task.start) /\ task.start \in 1 .. Len(local)
    BY Zenon, <1>1, <1>2 DEF ReadCurrent
  <2>2. Score(Remote) > Score(local) => ~(c >= Len(Remote))
    BY Zenon, <1>2, <1>12, ContainedScore
  <2>3. ~(c >= Len(Remote)) => c < Len(Remote)
    BY <1>2
  <2> QED
    BY Zenon, <2>1, <2>2, <2>3
<1>14. task.stable /\ others # <<>> =>
         /\ d <= Len(task.hashes) /\ d <= Len(others)
         /\ task.start > c => d = 0
         /\ task.start <= c => /\ d >= 1 /\ task.start + d - 1 <= c
                               /\ d = Len(task.hashes) \/ d = Len(others) \/ task.start + d - 1 = c
  <2> SUFFICES ASSUME task.stable, others # <<>>
               PROVE  /\ d <= Len(task.hashes) /\ d <= Len(others)
                      /\ task.start > c => d = 0
                      /\ task.start <= c => /\ d >= 1 /\ task.start + d - 1 <= c
                                            /\ d = Len(task.hashes) \/ d = Len(others) \/ task.start + d - 1 = c
    BY Zenon
  <2>1. task.start \in 1 .. Len(local) /\ task.hashes = HashesFrom(local, task.start)
    BY Zenon, <1>13
  <2>2. task.start <= Len(Remote)
    BY <1>2, <1>8
  <2> QED
    <3>1. PICK l \in AnyChain : l = local
      BY Zenon, <1>2
    <3>2. PICK r \in AnyChain : r = Remote
      BY Zenon, <1>2
    <3>3. PICK start \in 1 .. Len(l) : start = task.start
      BY Zenon, <2>1, <3>1
    <3>4. PICK hashes : hashes = task.hashes
      BY Zenon
    <3>5. /\ hashes = HashesFrom(l, start) /\ others = HashesFrom(r, start) /\ c = CommonLength(l, r)
          /\ d = CommonLength(hashes, others) /\ start <= Len(r)
      BY Zenon, <1>3, <1>4, <1>12, <2>1, <2>2, <3>1, <3>2, <3>3, <3>4
    <3>6. /\ d \in Nat /\ d <= Len(hashes) /\ d <= Len(others)
          /\ start > c => d = 0
          /\ start <= c => /\ d >= 1 /\ start + d - 1 <= c
                           /\ d = Len(hashes) \/ d = Len(others) \/ start + d - 1 = c
      BY <3>5, BatchesMeet
    <3> QED
      BY Zenon, <3>3, <3>4, <3>6
<1>15. task.stable /\ Comparable =>
         /\ Len(local) <= Len(Remote) + HashesPerBatch
         /\ task.isFirst => task.start = task.lower
         /\ Bounded(c, Len(local), Len(Remote), task.lower, task.start, task.upper)
         /\ task.lower \in Nat /\ task.start \in Nat /\ task.upper \in Nat /\ task.start \in 1 .. Len(Remote)
  <2>1. task.stable /\ Comparable =>
         /\ Len(local) <= Len(Remote) + HashesPerBatch
         /\ task.isFirst => task.start = task.lower
         /\ Bounded(c, Len(local), Len(Remote), task.lower, task.start, task.upper)
    BY Zenon, <1>1, <1>2, <1>12 DEF SearchBounded, Comparable
  <2>2. Bounded(c, Len(local), Len(Remote), task.lower, task.start, task.upper) =>
         /\ task.lower \in Nat /\ task.start \in Nat /\ task.upper \in Nat /\ task.start \in 1 .. Len(Remote)
    BY <1>2, <1>6 DEF Bounded
  <2> QED
    BY Zenon, <2>1, <2>2
<1>16. task.stable /\ Comparable => others # <<>>
  BY <1>7, <1>9, <1>15
<1>17. task.stable /\ Comparable =>
         /\ d = 0 =>
             /\ ~task.isFirst
             /\ (task.lower + task.start) \div 2 # task.start
             /\ Bounded(c, Len(local), Len(Remote), task.lower, (task.lower + task.start) \div 2, task.start)
         /\ d = Len(others) /\ task.start + m - 1 < task.localHeight =>
             /\ (task.start + task.upper) \div 2 # task.start
             /\ Bounded(c, Len(local), Len(Remote), task.start, (task.start + task.upper) \div 2, task.upper)
         /\ d = Len(others) /\ ~(task.start + m - 1 < task.localHeight) =>
             /\ task.start + m - 1 - 1 # task.start
             /\ Bounded(c, Len(local), Len(Remote), task.lower, task.start + m - 1 - 1, task.upper)
  <2> SUFFICES ASSUME task.stable, Comparable
               PROVE  /\ d = 0 =>
                          /\ ~task.isFirst
                          /\ (task.lower + task.start) \div 2 # task.start
                          /\ Bounded(c, Len(local), Len(Remote), task.lower, (task.lower + task.start) \div 2, task.start)
                      /\ d = Len(others) /\ task.start + m - 1 < task.localHeight =>
                          /\ (task.start + task.upper) \div 2 # task.start
                          /\ Bounded(c, Len(local), Len(Remote), task.start, (task.start + task.upper) \div 2, task.upper)
                      /\ d = Len(others) /\ ~(task.start + m - 1 < task.localHeight) =>
                          /\ task.start + m - 1 - 1 # task.start
                          /\ Bounded(c, Len(local), Len(Remote), task.lower, task.start + m - 1 - 1, task.upper)
    BY Zenon
  <2>1. HashesPerBatch \in Nat /\ HashesPerBatch > 2
    BY Zenon, SynchronizerAssumption
  <2>2. /\ (Len(others) = Len(Remote) - task.start + 1 /\ Len(others) <= HashesPerBatch)
           \/ (Len(others) = HashesPerBatch /\ Len(others) <= Len(Remote) - task.start + 1)
    BY Zenon, <1>7, <1>15
  <2>3. PICK b \in Nat : b = Len(others)
    BY Zenon, <1>9
  <2>4. /\ task.start > c =>
             /\ (task.lower + task.start) \div 2 # task.start
             /\ Bounded(c, Len(local), Len(Remote), task.lower, (task.lower + task.start) \div 2, task.start)
        /\ task.start <= c /\ task.start + b - 1 <= c /\ task.start + b - 1 < Len(local) =>
             /\ (task.start + task.upper) \div 2 # task.start
             /\ Bounded(c, Len(local), Len(Remote), task.start, (task.start + task.upper) \div 2, task.upper)
        /\ task.start <= c /\ task.start + b - 1 <= c /\ ~(task.start + b - 1 < Len(local)) =>
             /\ task.start + b - 2 # task.start
             /\ Bounded(c, Len(local), Len(Remote), task.lower, task.start + b - 2, task.upper)
    <3>1. PICK L \in Nat, R \in Nat : L = Len(local) /\ R = Len(Remote)
      BY Zenon, <1>2
    <3>2. PICK lower \in Nat, start \in Nat, upper \in Nat : lower = task.lower /\ start = task.start /\ upper = task.upper
      BY Zenon, <1>15
    <3>3. /\ L <= R + HashesPerBatch /\ c <= L /\ c < R /\ Bounded(c, L, R, lower, start, upper)
          /\ (b = R - start + 1 /\ b <= HashesPerBatch) \/ (b = HashesPerBatch /\ b <= R - start + 1)
      BY Zenon, <1>12, <1>13, <1>15, <2>2, <2>3, <3>1, <3>2
    <3>4. /\ start > c =>
              /\ (lower + start) \div 2 # start
              /\ Bounded(c, L, R, lower, (lower + start) \div 2, start)
          /\ start <= c /\ start + b - 1 <= c /\ start + b - 1 < L =>
              /\ (start + upper) \div 2 # start
              /\ Bounded(c, L, R, start, (start + upper) \div 2, upper)
          /\ start <= c /\ start + b - 1 <= c /\ ~(start + b - 1 < L) =>
              /\ start + b - 2 # start
              /\ Bounded(c, L, R, lower, start + b - 2, upper)
      BY ZenonT(60), <2>1, <3>3, SearchMoves
    <3> QED
      BY Zenon, <3>1, <3>2, <3>4
  <2>5. /\ task.start > c => d = 0
        /\ task.start <= c => d >= 1 /\ task.start + d - 1 <= c
        /\ d <= Len(task.hashes) /\ b >= 1
    BY <1>14, <1>16, <1>9, <2>3
  <2>6. ~(task.start > c) <=> task.start <= c
    BY <1>6
  <2>7. CASE d = 0
    <3>1. task.start > c /\ d # Len(others)
      BY <2>3, <2>5, <2>6, <2>7
    <3>2. ~task.isFirst
      <4>1. task.lower <= c
        BY Zenon, <1>15 DEF Bounded
      <4>2. task.start # task.lower
        BY <1>6, <3>1, <4>1
      <4> QED
        BY Zenon, <1>15, <4>2
    <3> QED
      BY Zenon, <2>4, <3>1, <3>2
  <2>8. CASE d = b
    <3>1. d # 0 /\ task.start <= c /\ task.start + b - 1 <= c
      BY <2>5, <2>6, <2>8
    <3>2. m = b /\ task.start + m - 1 - 1 = task.start + b - 2
      BY SMTT(30), <1>6, <1>10, <2>3, <2>5, <2>8
    <3>3. task.localHeight = Len(local)
      BY Zenon, <1>13
    <3> QED
      BY Zenon, <2>4, <3>1, <3>2, <3>3
  <2> QED
    BY Zenon, <2>3, <2>7, <2>8
<1>18. CASE others = <<>> /\ task' = Done("Remote_Returned_Too_Many_Hashes", task.stable)
  BY Zenon, <1>1, <1>16, <1>18, EndKeepsSearch
<1>19. CASE d = 0 /\ task.isFirst /\ task' = Done("Remote_Is_Forked", task.stable)
  BY Zenon, <1>1, <1>17, <1>19, EndKeepsSearch
<1>20. CASE d = 0 /\ task' = TryContinue([task EXCEPT !.upper = task.start], (task.lower + task.start) \div 2)
  <2>1. PICK context : context = [task EXCEPT !.upper = task.start]
    BY Zenon
  <2>2. context \in SearchTask
    BY Zenon, <1>2, <1>6, <2>1 DEF SearchTask
  <2>3. /\ context.peer = task.peer /\ context.stable = task.stable /\ context.start = task.start
        /\ context.localHeight = task.localHeight /\ context.localScore = task.localScore
        /\ context.remoteHeight = task.remoteHeight /\ context.lower = task.lower /\ context.upper = task.start
    BY Zenon, <1>2, <2>1 DEF SearchTask
  <2>4. (task.lower + task.start) \div 2 \in Int
    BY <1>6
  <2> QED
    BY Zenon, <1>1, <1>12, <1>17, <1>20, <2>1, <2>2, <2>3, <2>4, ContinueKeepsSearch
<1>21. CASE /\ d = Len(others) /\ task.start + m - 1 < task.localHeight
            /\ task' = TryContinue([task EXCEPT !.lower = task.start], (task.start + task.upper) \div 2)
  <2>1. PICK context : context = [task EXCEPT !.lower = task.start]
    BY Zenon
  <2>2. context \in SearchTask
    BY Zenon, <1>2, <1>6, <2>1 DEF SearchTask
  <2>3. /\ context.peer = task.peer /\ context.stable = task.stable /\ context.start = task.start
        /\ context.localHeight = task.localHeight /\ context.localScore = task.localScore
        /\ context.remoteHeight = task.remoteHeight /\ context.lower = task.start /\ context.upper = task.upper
    BY ZenonT(60), <1>2, <2>1 DEF SearchTask
  <2>4. (task.start + task.upper) \div 2 \in Int
    BY <1>6
  <2> QED
    BY Zenon, <1>1, <1>12, <1>17, <1>21, <2>1, <2>2, <2>3, <2>4, ContinueKeepsSearch
<1>22. CASE /\ d = Len(others) /\ ~(task.start + m - 1 < task.localHeight)
            /\ task' = TryContinue(task, task.start + m - 1 - 1)
  <2>1. task.start + m - 1 - 1 \in Int
    BY <1>6, <1>10
  <2> QED
    BY Zenon, <1>1, <1>2, <1>12, <1>17, <1>22, <2>1, ContinueKeepsSearch
<1>23. CASE /\ others # <<>> /\ d = Len(others) /\ ~(task.start + m - 1 < task.remoteHeight)
            /\ task' = [task EXCEPT !.stage = "LocalScoreAgain", !.hashes = <<>>]
  <2>1. task' \in SearchTask
    <3>1. <<>> \in Seq(AnyChain)
      OBVIOUS
    <3> QED
      BY Zenon, <1>2, <1>23, <3>1 DEF SearchTask, SearchStages
  <2>2. /\ task'.stage = "LocalScoreAgain" /\ task'.localScore = task.localScore
        /\ task'.localHeight = task.localHeight /\ task'.remoteHeight = task.remoteHeight
        /\ task'.peer = task.peer /\ task'.stable = task.stable
    BY ZenonT(60), <1>2, <1>23 DEF SearchTask
  <2>3. ~task.stable
    <3> SUFFICES ASSUME task.stable PROVE FALSE
      BY Zenon
    <3>1. d <= Len(task.hashes) /\ d # 0 /\ task.remoteHeight = Len(Remote) /\ c < Len(Remote)
      BY Zenon, <1>9, <1>13, <1>14, <1>23
    <3>2. task.start <= c /\ task.start + d - 1 <= c
      BY SMTT(30), <1>6, <1>14, <1>23, <3>1
    <3>3. m = d
      BY SMTT(30), <1>6, <1>10, <1>23, <3>1
    <3> QED
      BY SMTT(30), <1>2, <1>6, <1>10, <1>23, <3>1, <3>2, <3>3
  <2> QED
    BY Zenon, <1>1, <2>1, <2>2, <2>3, SearchGoesOn
<1>24. CASE /\ others # <<>> /\ d # 0 /\ d # Len(others)
            /\ task' = SyncWithPeer(task.start + d - 1,
                                    Max({task.localHeight, task.start + m - 1}) - (task.start + d - 1), TRUE, task.stable)
  <2>1. /\ task'.stage = "Pull" /\ task'.peer = task.peer /\ task'.stable = task.stable
        /\ task'.common = task.start + d - 1
        /\ task'.forkDepth = Max({task.localHeight, task.start + m - 1}) - (task.start + d - 1)
        /\ {"stable", "common", "forkDepth"} \subseteq DOMAIN task'
    BY Zenon, <1>24 DEF SyncWithPeer
  <2>2. ASSUME task.stable
        PROVE  /\ task.start + d - 1 = c
               /\ Max({task.localHeight, task.start + m - 1}) = Len(local)
    <3>1. /\ task.localHeight = Len(local) /\ task.start \in 1 .. Len(local)
          /\ task.hashes = HashesFrom(local, task.start)
      BY Zenon, <1>13, <2>2
    <3>2. \/ Len(task.hashes) = Len(local) - task.start + 1 /\ Len(task.hashes) <= HashesPerBatch
          \/ Len(task.hashes) = HashesPerBatch /\ Len(task.hashes) <= Len(local) - task.start + 1
      BY Zenon, <1>2, <3>1, BatchIs
    <3>3. HashesPerBatch \in Nat
      BY Zenon, SynchronizerAssumption
    <3>4. Len(others) <= HashesPerBatch /\ Len(others) >= 1
      BY SMTT(30), <1>7, <1>8, <1>24, <3>3
    <3>5. task.start <= c
      BY <1>6, <1>14, <1>24, <2>2
    <3>6. /\ d <= Len(task.hashes) /\ d <= Len(others) /\ task.start + d - 1 <= c
          /\ d = Len(task.hashes) \/ task.start + d - 1 = c
      BY Zenon, <1>14, <1>24, <2>2, <3>5
    <3>7. task.start + d - 1 = c
      <4>1. CASE d = Len(task.hashes)
        <5>1. d < HashesPerBatch
          BY <1>9, <1>10, <1>24, <3>3, <3>4, <3>6
        <5>2. d = Len(local) - task.start + 1
          BY SMTT(30), <3>2, <3>3, <4>1, <5>1
        <5> QED
          BY SMTT(30), <1>2, <1>6, <1>10, <1>12, <3>6, <5>2
      <4> QED
        BY Zenon, <3>6, <4>1
    <3>8. Len(local) \in Nat /\ task.start + m - 1 \in Nat /\ task.start + m - 1 <= Len(local)
      BY SMTT(30), <1>2, <1>6, <1>10, <3>1, <3>2, <3>3
    <3>9. Max({Len(local), task.start + m - 1}) = Len(local)
      <4>1. Len(local) >= task.start + m - 1
        BY Zenon, <3>8, <1>6
      <4> QED
        BY Zenon, <3>8, <4>1, MaxOfTwo
    <3> QED
      BY Zenon, <3>1, <3>7, <3>9
  <2>3. Remote' = Remote
    BY Zenon, <1>1, <2>1 DEF Remote
  <2>4. CompareExact'
    BY Zenon, <1>1, <1>12, <2>1, <2>2, <2>3 DEF CompareExact
  <2>5. task'.stage \notin SearchStages
    BY Zenon, <2>1 DEF SearchStages
  <2> QED
    BY Zenon, <2>1, <2>4, <2>5 DEF SearchInv
<1> QED
  BY Zenon, <1>11, <1>18, <1>19, <1>20, <1>21, <1>22, <1>23, <1>24

\* Every step of a comparison.
LEMMA CompareKeepsSearch ==
    ASSUME IInv, ChainInv, SearchInv, CompareStep
    PROVE  SearchInv'
<1>1. CASE CheckEmpty
  <2>1. task'.stage \in {"Compare", "MaxHeight"}
    BY Zenon, <1>1 DEF CheckEmpty, TaskStep
  <2> QED
    BY Zenon, <2>1 DEF SearchInv, CompareExact, SearchStages
<1>2. CASE ReadMaxHeight
  <2>1. /\ task'.stage = "Pull" /\ task'.stable = FALSE
        /\ {"stable", "common", "forkDepth"} \subseteq DOMAIN task'
    BY Zenon, <1>2 DEF ReadMaxHeight, TaskStep, SyncWithPeer
  <2> QED
    BY Zenon, <2>1 DEF SearchInv, CompareExact, SearchStages
<1>3. CASE CompareLocalScore
  <2>1. /\ task.stage = "LocalScoreAgain" /\ UNCHANGED <<local, proofs, peers>>
        /\ \E code : task' = Done(code, task.stable)
    BY Zenon, <1>3 DEF CompareLocalScore, TaskStep
  <2>2. task.stage \in SearchStages
    BY Zenon, <2>1 DEF SearchStages
  <2>3. task.stable => ~Comparable
    BY Zenon, <2>1, <2>2, SearchContext DEF SearchBounded
  <2> QED
    BY Zenon, <2>1, <2>3, EndKeepsSearch
<1> QED
  BY Zenon, <1>1, <1>2, <1>3, LowerBoundKeepsSearch, LocalKeepsSearch, StatisticsKeepSearch, HashesKeepSearch,
     ReceiveKeepsSearch DEF CompareStep

\* One step of the node or of its peers: what changes a chain or a proof disturbs the comparison.
LEMMA StepKeepsSearch ==
    ASSUME IInv, ChainInv, SearchInv, [Next]_vars
    PROVE  SearchInv'
<1> USE DEF IInv
<1>1. CASE Input /\ UNCHANGED <<peers, unprocessedVars, task>>
  <2>1. UNCHANGED <<local, proofs, peers, task>>
    BY Zenon, <1>1 DEF Input, Harvest, PushBlock
  <2>2. Remote' = Remote
    BY Zenon, <2>1 DEF Remote
  <2> QED
    BY Zenon, <2>1, <2>2, QuietKeepsSearch
<1>2. ASSUME NEW block \in Chains, NEW isNewEpoch \in BOOLEAN,
             SaveProof(block, isNewEpoch) /\ Disturb /\ UNCHANGED <<peers, unprocessedVars>>
      PROVE  SearchInv'
  BY Zenon, <1>2, DisturbKeepsSearch
<1>3. ASSUME NEW p \in Peers, PeerChange(p) PROVE SearchInv'
  <2>1. CASE Disturb
    BY Zenon, <2>1, DisturbKeepsSearch
  <2>2. CASE task' = task /\ ~(task # NoTask /\ task.peer = p)
    <3>1. UNCHANGED <<local, proofs, task>> /\ \E chain : peers' = [peers EXCEPT ![p] = chain]
      BY Zenon, <1>3, <2>2 DEF PeerChange
    <3>2. task.stage # "Idle" => task.peer # p /\ task.peer \in Peers
      BY <2>2 DEF NoTask, ChainInv, TaskBlocks
    <3>3. task.stage # "Idle" => Remote' = Remote
      BY Zenon, <2>2, <3>1, <3>2 DEF Remote, ChainInv, StoredChains
    <3> QED
      BY Zenon, <3>1, <3>3, QuietKeepsSearch
  <2> QED
    BY Zenon, <1>3, <2>1, <2>2 DEF PeerChange
<1>4. CASE DispatcherStep
  <2>1. CASE Sync /\ Disturb
    BY Zenon, <2>1, DisturbKeepsSearch
  <2>2. CASE Complete \/ (Consume /\ UNCHANGED <<peers, unprocessedVars, task>>)
    <3>1. UNCHANGED <<local, proofs, peers, task>>
      BY Zenon, <2>2 DEF Complete, Consume, Refuse, ReadLocalFinalized, ReadNetworkFinalized, Advance
    <3>2. Remote' = Remote
      BY <3>1 DEF Remote
    <3> QED
      BY Zenon, <3>1, <3>2, QuietKeepsSearch
  <2> QED
    BY Zenon, <1>4, <2>1, <2>2 DEF DispatcherStep
<1>5. ASSUME NEW p \in Peers, ShouldStartSync(p) PROVE SearchInv'
  <2>1. task'.stage = "Start"
    BY Zenon, <1>5 DEF ShouldStartSync
  <2> QED
    BY Zenon, <2>1 DEF SearchInv, CompareExact, SearchStages
<1>6. CASE CompareStep
  BY Zenon, <1>6, CompareKeepsSearch
<1>7. CASE ChainBlocksFrom
  <2>1. \/ \E blocks : task' = [task EXCEPT !.blocks = blocks, !.stable = FALSE]
        \/ task' = Done("Pulled", FALSE)
    BY Zenon, <1>7 DEF ChainBlocksFrom
  <2>2. task.stage = "Pull" /\ {"stable", "common", "forkDepth"} \subseteq DOMAIN task /\ "stage" \in DOMAIN task
    BY Zenon, <1>7 DEF ChainBlocksFrom, SearchInv, TaskShape
  <2>3. ASSUME NEW blocks, task' = [task EXCEPT !.blocks = blocks, !.stable = FALSE] PROVE SearchInv'
    <3>1. task'.stage = "Pull" /\ task'.stable = FALSE /\ DOMAIN task' = DOMAIN task
      BY Zenon, <2>2, <2>3
    <3> QED
      BY Zenon, <2>2, <3>1 DEF SearchInv, CompareExact, SearchStages
  <2>4. CASE task' = Done("Pulled", FALSE)
    <3>1. task'.stage = "Done" /\ task'.stable = FALSE /\ {"stable", "code"} \subseteq DOMAIN task'
      BY Zenon, <2>4 DEF Done
    <3> QED
      BY Zenon, <3>1 DEF SearchInv, CompareExact, SearchStages
  <2> QED
    BY Zenon, <2>1, <2>3, <2>4
<1>8. CASE ClearPendingSync
  <2>1. task'.stage = "Idle"
    BY Zenon, <1>8 DEF ClearPendingSync, NoTask
  <2> QED
    BY Zenon, <2>1 DEF SearchInv, CompareExact, SearchStages
<1>9. CASE RequestFails
  <2>1. task' = Done("Exception", FALSE)
    BY Zenon, <1>9 DEF RequestFails
  <2>2. task'.stage = "Done" /\ task'.stable = FALSE /\ {"stable", "code"} \subseteq DOMAIN task'
    BY Zenon, <2>1 DEF Done
  <2> QED
    BY <2>2 DEF SearchInv, CompareExact, SearchStages
<1>10. CASE UNCHANGED vars
  <2>1. UNCHANGED <<local, proofs, peers, task>>
    BY Zenon, <1>10 DEF vars
  <2>2. Remote' = Remote
    BY <2>1 DEF Remote
  <2> QED
    BY Zenon, <2>1, <2>2, QuietKeepsSearch
<1> QED
  BY Zenon, <1>1, <1>2, <1>3, <1>4, <1>5, <1>6, <1>7, <1>8, <1>9, <1>10 DEF Next, SyncStep

\* The search stays exact.
LEMMA SearchInductive == Spec => []SearchInv
<1>1. Init => SearchInv
  BY DEF Init, NoTask, SearchInv, CompareExact, SearchStages
<1>2. IInv /\ ChainInv /\ SearchInv /\ [Next]_vars => SearchInv'
  BY Zenon, StepKeepsSearch
<1> QED
  BY <1>1, <1>2, ChainsInductive, PTL DEF Spec

\* CompareChains finds the last common block and the depth of the fork, for all chains, batches and finalized blocks,
\* unless a chain or a proof changed under it; and it never blames a peer whose chain contains the local finalized block
\* and is not shorter than the local chain by more than a batch of hashes.
THEOREM CompareIsExact == Spec => []CompareExact
<1>1. SearchInv => CompareExact
  BY DEF SearchInv
<1> QED
  BY <1>1, SearchInductive, PTL
==============================================================================
