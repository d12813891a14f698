-------------------------- MODULE FinalityTheorems --------------------------
(***************************************************************************)
(* The proof storage and the voting status of a node keep their order for  *)
(* all rounds the network may decide, all chains and all interleavings of  *)
(* the finalization task, the proof task and crashes.  A node that has     *)
(* voted for a chain can return to it, wherever it stops and whatever the  *)
(* proof task removes meanwhile, unless it is configured to vote again     *)
(* after a boot.  The storage has the proof of the last block of every     *)
(* epoch it has left, unless the orchestrator went past an epoch whose     *)
(* last block was not final, or a crash cut off a file that was rewritten. *)
(***************************************************************************)
EXTENDS FinalityProofs, WellFoundedInduction, TLAPS

AllRounds == Nat \X Nat

\* Finalization rounds are ordered by epoch, then by point (FinalizationRound).
LEMMA RoundOrder ==
    ASSUME NEW a \in AllRounds, NEW b \in AllRounds, NEW c \in AllRounds
    PROVE  /\ ~RoundLess(a, a)
           /\ RoundLess(a, b) => ~RoundLess(b, a)
           /\ ~RoundLess(b, a) /\ ~RoundLess(c, b) => ~RoundLess(c, a)
           /\ ~RoundLess(b, a) => a[1] <= b[1]
           /\ a[1] \in Nat /\ a[2] \in Nat
BY DEF AllRounds, RoundLess

\* Every set of rounds has a first one.
LEMMA FirstRoundExists ==
    ASSUME NEW S, S \subseteq AllRounds, S # {}
    PROVE  FirstRound(S) \in S /\ \A r \in S : ~RoundLess(r, FirstRound(S))
<1> DEFINE Less == OpToRel(<, Nat)
           LessPair == LexPairOrdering(Less, Less, Nat, Nat)
<1>1. IsWellFoundedOn(LessPair, Nat \X Nat)
  BY Zenon, NatLessThanWellFounded, WFLexPairOrdering
<1>2. \A m, n \in Nat : m < n => <<m, n>> \in Less
  BY Zenon DEF OpToRel
<1> HIDE DEF Less
<1>3. \A a, b \in AllRounds : RoundLess(a, b) => <<a, b>> \in LessPair
  BY Zenon, <1>2 DEF LexPairOrdering, RoundLess, AllRounds
<1> HIDE DEF LessPair
<1>4. PICK r \in S : \A s \in S : <<s, r>> \notin LessPair
  BY Zenon, <1>1, WFMin DEF AllRounds
<1>5. \A s \in S : ~RoundLess(s, r)
  BY Zenon, <1>3, <1>4
<1> QED
  BY Zenon, <1>4, <1>5 DEF FirstRound

-----------------------------------------------------------------------------
(* The heights at which epochs end. *)

\* Epochs end one after the other.
LEMMA EpochEnds ==
    /\ \A a \in Nat \ {0} : VotingSetEndHeight(a) \in Nat \ {0}
    /\ \A a, b \in Nat \ {0} : a <= b => VotingSetEndHeight(a) <= VotingSetEndHeight(b)
<1> DEFINE G == VotingSetGrouping
<1>1. G \in Nat \ {0}
  BY Zenon, FinalityAssumption
<1> HIDE DEF G
<1>2. \A n \in Nat : n * G \in Nat /\ (n # 0 => n * G >= 1)
  BY <1>1
<1>3. \A m, n \in Nat : m <= n => m * G <= n * G
  <2> SUFFICES ASSUME NEW m \in Nat, NEW n \in Nat, m <= n PROVE m * G <= n * G
    BY Zenon
  <2>1. (n - m) * G \in Nat /\ m * G \in Nat
    BY <1>1
  <2>2. n * G = m * G + (n - m) * G
    BY <1>1
  <2> QED
    BY <2>1, <2>2
<1>4. \A a \in Nat \ {0} : VotingSetEndHeight(a) = IF a = 1 THEN 1 ELSE (a - 1) * G
  BY Zenon DEF VotingSetEndHeight, G
<1>5. \A a \in Nat \ {0} : VotingSetEndHeight(a) \in Nat \ {0}
  BY <1>2, <1>4
<1>6. ASSUME NEW a \in Nat \ {0}, NEW b \in Nat \ {0}, a <= b PROVE VotingSetEndHeight(a) <= VotingSetEndHeight(b)
  <2>1. CASE a = 1
    BY <1>4, <1>5, <2>1
  <2>2. CASE a # 1
    <3>1. a - 1 \in Nat /\ b - 1 \in Nat /\ a - 1 <= b - 1 /\ b # 1
      BY <1>6, <2>2
    <3> QED
      BY Zenon, <1>3, <1>4, <2>2, <3>1
  <2> QED
    BY Zenon, <2>1, <2>2
<1> QED
  BY Zenon, <1>5, <1>6

\* A number that is less than a divisor and a multiple of it is zero.
LEMMA SmallMultiple ==
    ASSUME NEW c \in Nat \ {0}, NEW k \in Int, 0 <= c * k, c * k < c
    PROVE  k = 0
<1>1. CASE k <= -1
  <2>1. c * k <= -c
    BY <1>1, SMT
  <2> QED
    BY <2>1, SMT
<1>2. CASE k >= 1
  <2>1. c * k >= c
    BY <1>2, SMT
  <2> QED
    BY <2>1, SMT
<1> QED
  BY <1>1, <1>2, SMT

\* Division, by its quotient and remainder.
LEMMA Division ==
    ASSUME NEW c \in Nat \ {0}, NEW n \in Nat
    PROVE  /\ n \div c \in Nat /\ n % c \in Nat /\ n % c < c /\ n = c * (n \div c) + (n % c)
           /\ \A q \in Nat, r \in Nat : n = c * q + r /\ r < c => n \div c = q /\ n % c = r
<1> DEFINE d == n \div c
           m == n % c
<1>1. d \in Nat /\ m \in Nat /\ m < c /\ n = c * d + m
  BY SMT
<1> HIDE DEF d, m
<1>2. ASSUME NEW q \in Nat, NEW r \in Nat, n = c * q + r, r < c PROVE d = q /\ m = r
  <2>1. CASE m >= r
    <3>1. c * (q - d) = m - r
      BY <1>1, <1>2, SMT
    <3>2. q - d = 0
      BY <1>1, <1>2, <2>1, <3>1, SmallMultiple
    <3> QED
      BY <1>1, <1>2, <3>2
  <2>2. CASE m < r
    <3>1. c * (d - q) = r - m
      BY <1>1, <1>2, SMT
    <3>2. d - q = 0
      BY <1>1, <1>2, <2>2, <3>1, SmallMultiple
    <3> QED
      BY <1>1, <1>2, <3>2
  <2> QED
    BY <1>1, <2>1, <2>2
<1> QED
  BY Zenon, <1>1, <1>2 DEF d, m

\* calculateRequestEpoch asks for the epoch that follows the last one which is over.
LEMMA RequestsReached ==
    ASSUME NEW h \in Nat \ {0}, RequestEpoch(h) # 0
    PROVE  RequestEpoch(h) \in Nat /\ RequestEpoch(h) >= 2 /\ VotingSetEndHeight(RequestEpoch(h) - 1) <= h
<1> DEFINE G == VotingSetGrouping
           d == h \div G
           r == h % G
<1>1. G \in Nat \ {0}
  BY Zenon, FinalityAssumption
<1>2. d \in Nat /\ r \in Nat /\ r < G /\ h = G * d + r
  BY Zenon, <1>1, Division
<1>3. VotingSetEndHeight(d + 1) <= h
  <2>1. CASE d = 0
    BY <2>1 DEF VotingSetEndHeight
  <2>2. CASE d # 0
    <3>1. VotingSetEndHeight(d + 1) = d * G
      BY <1>1, <1>2, <2>2 DEF VotingSetEndHeight
    <3> QED
      BY <1>1, <1>2, <3>1
  <2> QED
    BY Zenon, <2>1, <2>2
<1>4. EpochForHeight(GroupedHeight(h + G + 1)) = d + 2
  <2>1. (h + G) \div G = d + 1
    <3>1. h + G \in Nat /\ d + 1 \in Nat /\ h + G = G * (d + 1) + r
      BY <1>1, <1>2
    <3> HIDE DEF d, r, G
    <3> QED
      BY <1>1, <1>2, <3>1, Division
  <2> DEFINE n == (d + 1) * G
  <2>2. n \in Nat /\ n > h
    BY <1>1, <1>2
  <2>3. GroupedHeight(h + G + 1) = Max({1, n})
    <3>1. (h + G + 1) - 1 = h + G
      BY <1>1
    <3> QED
      BY Zenon, <2>1, <3>1 DEF GroupedHeight
  <2>4. n \div G = d + 1 /\ n % G = 0
    <3>1. PICK q \in Nat : q = d + 1
      BY <1>2
    <3>2. n = G * q + 0 /\ 0 \in Nat /\ 0 < G
      BY <1>1, <1>2, <3>1
    <3> HIDE DEF d, G, n
    <3>3. \A x \in Nat, y \in Nat : n = G * x + y /\ y < G => n \div G = x /\ n % G = y
      BY Zenon, <1>1, <2>2, Division
    <3>4. n \div G = q /\ n % G = 0
      BY Zenon, <3>2, <3>3
    <3> QED
      BY Zenon, <3>1, <3>4
  <2> HIDE DEF n, d, r
  <2>5. Max({1, n}) = n
    BY <2>2 DEF Max
  <2> QED
    BY <1>2, <2>2, <2>3, <2>4, <2>5 DEF EpochForHeight
<1> DEFINE current == EpochForHeight(h)
           next == IF VotingSetEndHeight(current) # h THEN current ELSE current + 1
<1>5. CASE h = 1
  <2>1. next = 2 /\ VotingSetEndHeight(1) = 1
    BY <1>5 DEF EpochForHeight, VotingSetEndHeight
  <2> HIDE DEF next
  <2>2. RequestEpoch(h) \in {d + 2, next}
    BY Zenon, <1>4 DEF RequestEpoch, next
  <2> QED
    BY <1>2, <1>3, <1>5, <2>1, <2>2
<1>6. CASE h # 1
  <2>1. current = 1 + d + (IF r = 0 THEN 0 ELSE 1)
    BY <1>6 DEF EpochForHeight
  <2>2. CASE r = 0
    <3>1. d # 0 /\ VotingSetEndHeight(d + 1) = d * G
      BY <1>1, <1>2, <2>2 DEF VotingSetEndHeight
    <3>2. current = d + 1
      BY <1>2, <2>1, <2>2
    <3>3. d * G = h
      BY <1>1, <1>2, <2>2
    <3> HIDE DEF d, r, current
    <3>4. next = d + 2
      BY <1>2, <3>1, <3>2, <3>3
    <3> HIDE DEF next
    <3> QED
      BY <1>2, <1>3, <1>4, <3>4 DEF RequestEpoch, next, current
  <2>3. CASE r # 0
    <3>1. VotingSetEndHeight(d + 2) = (d + 1) * G
      BY <1>1, <1>2 DEF VotingSetEndHeight
    <3>2. (d + 1) * G = G * d + G
      BY <1>1, <1>2
    <3>3. current = d + 2
      BY <1>2, <2>1, <2>3
    <3>4. G * d \in Nat
      BY <1>1, <1>2
    <3> HIDE DEF d, r, current, G
    <3>5. VotingSetEndHeight(current) # h
      BY <1>1, <1>2, <3>1, <3>2, <3>3, <3>4
    <3> QED
      BY <1>2, <1>3, <1>4, <3>3, <3>5 DEF RequestEpoch, current, G
  <2> QED
    BY Zenon, <2>2, <2>3
<1> QED
  BY Zenon, <1>5, <1>6

\* There is a last epoch of which the network has a proof.
LEMMA LastEpochExists ==
    /\ MaxEpoch \in Nat \ {0}
    /\ \A k \in DOMAIN Decided : Decided[k].round \in AllRounds /\ Decided[k].round[1] <= MaxEpoch
                                 /\ Decided[k].heights \subseteq Nat \ {0}
<1> DEFINE Epochs(n) == {1} \cup {Decided[k].round[1] : k \in 1 .. n}
           Good(n) == \E x \in Epochs(n) : \A y \in Epochs(n) : x >= y
           Bad == {n \in 0 .. Len(Decided) : ~Good(n)}
<1>1. Len(Decided) \in Nat /\ DOMAIN Decided = 1 .. Len(Decided)
  BY FinalityAssumption
<1>2. \A k \in DOMAIN Decided : Decided[k].round \in AllRounds /\ Decided[k].round[1] \in Nat
                                /\ Decided[k].heights \subseteq Nat \ {0}
  <2> SUFFICES ASSUME NEW k \in DOMAIN Decided
               PROVE  Decided[k].round \in AllRounds /\ Decided[k].round[1] \in Nat /\ Decided[k].heights \subseteq Nat \ {0}
    BY Zenon
  <2>1. Decided[k] \in Decisions
    BY <1>1, FinalityAssumption
  <2>2. Decided[k].round \in Nat \X Nat /\ Decided[k].heights \in SUBSET (Nat \ {0})
    BY Zenon, <2>1 DEF Decisions
  <2> QED
    BY Zenon, <2>2 DEF AllRounds
<1>3. \A n \in 0 .. Len(Decided) : Epochs(n) \subseteq Nat
  BY <1>1, <1>2
<1>4. Bad = {}
  <2> SUFFICES ASSUME Bad # {} PROVE FALSE
    BY Zenon
  <2> DEFINE Less == OpToRel(<, Nat)
  <2>1. Bad \subseteq Nat
    BY <1>1
  <2>2. \A m, n \in Nat : m < n => <<m, n>> \in Less
    BY Zenon DEF OpToRel
  <2>3. IsWellFoundedOn(Less, Nat)
    BY Zenon, NatLessThanWellFounded
  <2> HIDE DEF Less, Bad
  <2>4. PICK n \in Bad : \A m \in Bad : <<m, n>> \notin Less
    BY Zenon, <2>1, <2>3, WFMin
  <2>5. n \in Nat /\ n <= Len(Decided) /\ ~Good(n)
    BY <1>1, <2>1, <2>4 DEF Bad
  <2>6. n # 0
    <3>1. Epochs(0) = {1}
      OBVIOUS
    <3>2. Good(0)
      BY <3>1
    <3> HIDE DEF Good
    <3> QED
      BY Zenon, <2>5, <3>2
  <2>7. n - 1 \in Nat /\ n - 1 < n /\ n - 1 \in 0 .. Len(Decided) /\ n \in DOMAIN Decided
    BY <1>1, <2>5, <2>6
  <2>8. n - 1 \notin Bad
    BY Zenon, <2>2, <2>4, <2>5, <2>7
  <2>9. Good(n - 1)
    BY Zenon, <2>7, <2>8 DEF Bad
  <2>10. PICK x \in Epochs(n - 1) : \A y \in Epochs(n - 1) : x >= y
    BY Zenon, <2>9
  <2>11. Epochs(n) = Epochs(n - 1) \cup {Decided[n].round[1]}
    <3>1. 1 .. n = (1 .. n - 1) \cup {n}
      BY <2>7
    <3> QED
      BY Zenon, <3>1
  <2>12. x \in Nat /\ Decided[n].round[1] \in Nat
    BY Zenon, <1>2, <1>3, <2>7, <2>10
  <2>13. \A y \in Epochs(n - 1) : y \in Nat
    BY Zenon, <1>3, <2>7
  <2> HIDE DEF Epochs
  <2>14. CASE x >= Decided[n].round[1]
    BY Zenon, <2>5, <2>10, <2>11, <2>14
  <2>15. CASE ~(x >= Decided[n].round[1])
    <3>1. \A y \in Epochs(n) : Decided[n].round[1] >= y
      BY <2>10, <2>11, <2>12, <2>13, <2>15
    <3> QED
      BY Zenon, <2>5, <2>11, <3>1
  <2> QED
    BY Zenon, <2>14, <2>15
<1>5. Good(Len(Decided))
  <2>1. Len(Decided) \in 0 .. Len(Decided)
    BY <1>1
  <2> HIDE DEF Good
  <2> QED
    BY Zenon, <1>4, <2>1
<1>6. MaxEpoch = Max(Epochs(Len(Decided))) + 1
  BY Zenon, <1>1 DEF MaxEpoch
<1>7. Max(Epochs(Len(Decided))) \in Epochs(Len(Decided)) /\ \A y \in Epochs(Len(Decided)) : Max(Epochs(Len(Decided))) >= y
  BY Zenon, <1>5 DEF Max
<1>8. Max(Epochs(Len(Decided))) \in Nat
  BY <1>1, <1>3, <1>7
<1>9. \A k \in DOMAIN Decided : Decided[k].round[1] \in Epochs(Len(Decided))
  BY Zenon, <1>1
<1> HIDE DEF Epochs
<1>10. \A k \in DOMAIN Decided : Decided[k].round[1] <= MaxEpoch
  BY <1>2, <1>6, <1>7, <1>8, <1>9
<1> QED
  BY <1>2, <1>6, <1>8, <1>10

-----------------------------------------------------------------------------

Saving == {"save", "write", "index", "notify"}
Locking == {"write", "index", "notify"}

\* What the tasks are doing; one that saves has a proof.
TaskShape ==
    /\ task = [t \in Tasks |-> task[t]]
    /\ \A t \in Tasks : "step" \in DOMAIN task[t]
    /\ \A t \in Tasks : task[t].step \in Saving => "proof" \in DOMAIN task[t] /\ task[t].proof.round \in AllRounds

\* One task at a time writes, and what it writes comes after what the storage has.
SaversInOrder ==
    /\ \A t, u \in Tasks : task[t].step \in Locking /\ task[u].step \in Locking => t = u
    /\ \A t \in Tasks : task[t].step \in {"write", "index"} =>
        ~RoundLess(task[t].proof.round, index.round) /\ task[t].proof.height >= index.height

\* The statistics that the poll task has read may be old, but not newer than the index nor older than its epoch.
StatisticsInOrder ==
    task.poll.step = "epoch" =>
        /\ task.poll.statistics.round \in AllRounds
        /\ task.poll.statistics.round[1] <= index.round[1]
        /\ status.round[1] <= task.poll.statistics.round[1] + 1

IsStatusInOrder(s) ==
    /\ s = [round |-> s.round, prevote |-> s.prevote]
    /\ s.round \in AllRounds
    /\ s.round[1] <= index.round[1] + 1

AggregatorInOrder ==
    /\ aggregator = [min |-> aggregator.min, max |-> aggregator.max, held |-> aggregator.held]
    /\ aggregator.min \in AllRounds /\ aggregator.max \in AllRounds
    /\ \A m \in aggregator.held : m.round \in AllRounds
    /\ ~RoundLess(aggregator.max, aggregator.min)
    /\ \A m \in aggregator.held : CanAdd(m.round)

TasksInOrder == TaskShape /\ SaversInOrder /\ StatisticsInOrder
StatusInOrder == IsStatusInOrder(status) /\ IsStatusInOrder(statusFile)

IInv ==
    /\ decided \in 0 .. Len(Decided)
    /\ index.round \in AllRounds
    /\ TasksInOrder /\ StatusInOrder /\ AggregatorInOrder

\* The nemesis proof, and the aggregator of its epoch.
LEMMA InitHolds == Init => IInv
<1> SUFFICES ASSUME Init PROVE IInv
  BY Zenon
<1>1. /\ decided = 0 /\ index = [round |-> <<1, 1>>, height |-> 1]
      /\ statusFile = [round |-> <<2, 1>>, prevote |-> FALSE]
      /\ status \in {statusFile, [round |-> <<1, 2>>, prevote |-> FALSE]}
      /\ aggregator = [min |-> <<1, 1>>, max |-> <<1, 1>>, held |-> {}]
      /\ task = [poll |-> [step |-> "idle"], pull |-> [step |-> "idle"]]
  BY DEF Init, NemesisProof, Proof, VotingStatus, BootStatus, Idle
<1>2. Len(Decided) \in Nat
  BY FinalityAssumption
<1>3. TasksInOrder
  BY <1>1 DEF TasksInOrder, TaskShape, SaversInOrder, StatisticsInOrder, Tasks, Saving, Locking
<1>4. StatusInOrder
  BY <1>1 DEF StatusInOrder, IsStatusInOrder, AllRounds
<1>5. AggregatorInOrder
  BY <1>1 DEF AggregatorInOrder, AllRounds, RoundLess
<1> QED
  BY <1>1, <1>2, <1>3, <1>4, <1>5 DEF IInv, AllRounds

-----------------------------------------------------------------------------
(* The tasks. *)

\* A task goes on to a step that neither saves nor has read the statistics.
LEMMA PlainMove ==
    ASSUME TasksInOrder, NEW t \in Tasks, NEW s, Goto(t, s), "step" \in DOMAIN s, s.step \notin Saving \union {"epoch"},
           UNCHANGED index, t = "poll" \/ UNCHANGED status
    PROVE  TasksInOrder'
<1>1. /\ task' = [u \in Tasks |-> IF u = t THEN s ELSE task[u]]
      /\ "poll" \in Tasks
  BY Zenon DEF TasksInOrder, TaskShape, Goto, Tasks
<1>2. TaskShape'
  BY Zenon, <1>1 DEF TasksInOrder, TaskShape
<1>3. SaversInOrder'
  BY Zenon, <1>1 DEF TasksInOrder, SaversInOrder, Saving, Locking
<1>4. StatisticsInOrder'
  BY Zenon, <1>1 DEF TasksInOrder, StatisticsInOrder
<1> QED
  BY Zenon, <1>2, <1>3, <1>4 DEF TasksInOrder

\* A task that is not saving, nor the poll task with its statistics, begins to save.
LEMMA BeginSave ==
    ASSUME TasksInOrder, NEW t \in Tasks, NEW proof, proof.round \in AllRounds,
           Goto(t, [step |-> "save", proof |-> proof]), UNCHANGED <<index, status>>
    PROVE  TasksInOrder'
<1>1. /\ task' = [u \in Tasks |-> IF u = t THEN [step |-> "save", proof |-> proof] ELSE task[u]]
      /\ "poll" \in Tasks
  BY Zenon DEF TasksInOrder, TaskShape, Goto, Tasks
<1>2. TaskShape'
  BY Zenon, <1>1 DEF TasksInOrder, TaskShape
<1>3. SaversInOrder'
  BY Zenon, <1>1 DEF TasksInOrder, SaversInOrder, Locking
<1>4. StatisticsInOrder'
  BY Zenon, <1>1 DEF TasksInOrder, StatisticsInOrder
<1> QED
  BY Zenon, <1>2, <1>3, <1>4 DEF TasksInOrder

\* A process that has ended has no tasks.
LEMMA Stopped ==
    ASSUME Terminate
    PROVE  TasksInOrder'
BY DEF Terminate, TasksInOrder, TaskShape, SaversInOrder, StatisticsInOrder, Tasks, Saving, Locking

-----------------------------------------------------------------------------
(* The aggregator. *)

\* Pruning the aggregator moves its lower bound to a round that it still covers.
LEMMA PruneKeeps ==
    ASSUME AggregatorInOrder, NEW epoch, Prune(epoch)
    PROVE  AggregatorInOrder'
<1> DEFINE held == {m \in aggregator.held : m.round[1] >= epoch}
           rounds == {m.round : m \in held}
<1>1. /\ aggregator'.held = held /\ aggregator'.max = aggregator.max
      /\ aggregator'.min = IF held = {} THEN aggregator.max ELSE FirstRound(rounds)
      /\ aggregator' = [min |-> aggregator'.min, max |-> aggregator'.max, held |-> aggregator'.held]
  BY Zenon DEF Prune, AggregatorInOrder
<1>2. \A m \in held : m.round \in AllRounds /\ ~RoundLess(aggregator.max, m.round)
  BY Zenon DEF AggregatorInOrder, CanAdd
<1>3. aggregator.max \in AllRounds
  BY Zenon DEF AggregatorInOrder
<1>4. CASE held = {}
  BY Zenon, <1>1, <1>3, <1>4, RoundOrder DEF AggregatorInOrder
<1>5. CASE held # {}
  <2>1. rounds \subseteq AllRounds /\ rounds # {}
    BY Zenon, <1>2, <1>5
  <2> HIDE DEF held
  <2>2. aggregator'.min \in rounds /\ \A m \in held : ~RoundLess(m.round, aggregator'.min)
    BY Zenon, <1>1, <1>5, <2>1, FirstRoundExists
  <2>3. aggregator'.min \in AllRounds /\ ~RoundLess(aggregator.max, aggregator'.min)
    BY Zenon, <1>2, <2>2
  <2> QED
    BY Zenon, <1>1, <1>2, <1>3, <2>2, <2>3 DEF AggregatorInOrder, CanAdd
<1> QED
  BY Zenon, <1>4, <1>5

\* The upper bound of the aggregator is only raised.
LEMMA RaiseKeeps ==
    ASSUME AggregatorInOrder, NEW round \in AllRounds, SetMaxFinalizationRound(round)
    PROVE  AggregatorInOrder'
<1>1. CASE RoundLess(aggregator.max, round)
  <2>1. /\ aggregator' = [min |-> aggregator.min, max |-> round, held |-> aggregator.held]
        /\ ~RoundLess(round, aggregator.max)
    BY Zenon, <1>1, RoundOrder DEF SetMaxFinalizationRound, AggregatorInOrder
  <2>2. ~RoundLess(round, aggregator.min)
    BY Zenon, <2>1, RoundOrder DEF AggregatorInOrder
  <2>3. \A m \in aggregator.held : ~RoundLess(m.round, aggregator.min) /\ ~RoundLess(round, m.round)
    BY Zenon, <2>1, RoundOrder DEF AggregatorInOrder, CanAdd
  <2> QED
    BY Zenon, <2>1, <2>2, <2>3 DEF AggregatorInOrder, CanAdd
<1>2. CASE ~RoundLess(aggregator.max, round)
  BY Zenon, <1>2 DEF SetMaxFinalizationRound, AggregatorInOrder, CanAdd
<1> QED
  BY Zenon, <1>1, <1>2

\* A message is taken only between the bounds.
LEMMA ReceiveKeeps ==
    ASSUME AggregatorInOrder, NEW message, message.round \in AllRounds, Receive(message)
    PROVE  AggregatorInOrder'
<1>1. /\ aggregator'.min = aggregator.min /\ aggregator'.max = aggregator.max
      /\ aggregator' = [min |-> aggregator'.min, max |-> aggregator'.max, held |-> aggregator'.held]
      /\ \A m \in aggregator'.held : m \in aggregator.held \/ m = message
  BY Zenon DEF Receive, AggregatorInOrder
<1>2. CanAdd(message.round)
  BY DEF Receive
<1> QED
  BY Zenon, <1>1, <1>2 DEF AggregatorInOrder, CanAdd

-----------------------------------------------------------------------------
(* The actions. *)

\* After a save the finalizer prunes; the task is idle.
LEMMA AfterSaveKeeps ==
    ASSUME IInv, NEW t \in Tasks, AfterSave(t), UNCHANGED <<decided, index, statusFile, status>>
    PROVE  IInv'
<1>1. TasksInOrder'
  <2>1. Goto(t, Idle) /\ "step" \in DOMAIN Idle /\ Idle.step \notin Saving \union {"epoch"}
    BY Zenon DEF AfterSave, Idle, Saving
  <2> QED
    BY Zenon, <2>1, PlainMove DEF IInv
<1>2. AggregatorInOrder'
  <2>1. UNCHANGED aggregator \/ Prune(task[t].proof.round[1] - 1)
    BY Zenon DEF AfterSave
  <2> QED
    BY Zenon, <2>1, PruneKeeps DEF IInv, AggregatorInOrder, CanAdd
<1> QED
  BY Zenon, <1>1, <1>2 DEF IInv, StatusInOrder, IsStatusInOrder

\* An exception ends the process or the proof task.
LEMMA ThrowKeeps ==
    ASSUME IInv, NEW t \in Tasks, Throw(t), UNCHANGED decided
    PROVE  IInv'
<1>1. UNCHANGED <<index, statusFile, status, aggregator>>
  BY Zenon DEF Throw, Terminate, diskVars
<1>2. TasksInOrder'
  <2>1. CASE Terminate
    BY Zenon, <2>1, Stopped
  <2>2. CASE Goto(t, [step |-> "stopped"])
    BY Zenon, <1>1, <2>2, PlainMove DEF IInv, Saving
  <2> QED
    BY Zenon, <2>1, <2>2 DEF Throw
<1> QED
  BY Zenon, <1>1, <1>2 DEF IInv, StatusInOrder, IsStatusInOrder, AggregatorInOrder, CanAdd

\* saveProof tests the proof against the index under the lock of the storage.
LEMMA SaveProofKeeps ==
    ASSUME IInv, NEW t \in Tasks, SaveProof(t)
    PROVE  IInv'
<1>1. CASE AfterSave(t) /\ UNCHANGED <<diskVars, status>>
  BY Zenon, <1>1, AfterSaveKeeps DEF SaveProof, diskVars
<1>2. CASE Throw(t)
  BY Zenon, <1>2, ThrowKeeps DEF SaveProof
<1>3. CASE /\ CanSave(task[t].proof)
           /\ Goto(t, [task[t] EXCEPT !.step = "write"])
           /\ UNCHANGED <<index, statusFile, backups, status, aggregator>>
  <2>1. task[t].step = "save" /\ \A u \in Tasks : task[u].step \notin Locking
    BY Zenon DEF SaveProof, Locked, Locking
  <2> DEFINE s == [task[t] EXCEPT !.step = "write"]
  <2>2. /\ "step" \in DOMAIN s /\ "proof" \in DOMAIN s /\ s.step = "write" /\ s.proof = task[t].proof
        /\ task[t].proof.round \in AllRounds
    BY Zenon, <2>1 DEF IInv, TasksInOrder, TaskShape, Saving
  <2>3. task' = [u \in Tasks |-> IF u = t THEN s ELSE task[u]]
    BY Zenon, <1>3 DEF Goto, IInv, TasksInOrder, TaskShape
  <2> HIDE DEF s
  <2>4. TaskShape'
    BY Zenon, <2>2, <2>3 DEF IInv, TasksInOrder, TaskShape
  <2>5. SaversInOrder'
    <3>1. \A u \in Tasks : task'[u].step \in Locking => u = t
      BY Zenon, <2>1, <2>3
    <3>2. ~RoundLess(task'[t].proof.round, index.round) /\ task'[t].proof.height >= index.height
      BY Zenon, <1>3, <2>2, <2>3 DEF CanSave
    <3> QED
      BY Zenon, <1>3, <3>1, <3>2 DEF SaversInOrder, Locking
  <2>6. StatisticsInOrder'
    BY Zenon, <1>3, <2>2, <2>3 DEF IInv, TasksInOrder, StatisticsInOrder, Tasks
  <2> QED
    BY Zenon, <1>3, <2>4, <2>5, <2>6
    DEF SaveProof, IInv, TasksInOrder, StatusInOrder, IsStatusInOrder, AggregatorInOrder, CanAdd
<1> QED
  BY Zenon, <1>1, <1>2, <1>3 DEF SaveProof

\* The proof file and the index are written by the task that has the lock.
LEMMA WriteProofKeeps ==
    ASSUME IInv, NEW t \in Tasks, WriteProof(t)
    PROVE  IInv'
<1> DEFINE s == [task[t] EXCEPT !.step = "index"]
<1>1. UNCHANGED <<decided, index, statusFile, status, aggregator>> /\ task[t].step = "write"
  BY Zenon DEF WriteProof
<1>2. /\ "step" \in DOMAIN s /\ "proof" \in DOMAIN s /\ s.step = "index" /\ s.proof = task[t].proof
      /\ task[t].proof.round \in AllRounds
  BY Zenon, <1>1 DEF IInv, TasksInOrder, TaskShape, Saving
<1>3. task' = [u \in Tasks |-> IF u = t THEN s ELSE task[u]]
  BY Zenon DEF WriteProof, Goto, IInv, TasksInOrder, TaskShape
<1> HIDE DEF s
<1>4. TaskShape'
  BY Zenon, <1>2, <1>3 DEF IInv, TasksInOrder, TaskShape
<1>5. SaversInOrder'
  <2>1. \A u \in Tasks : task'[u].step \in Locking <=> task[u].step \in Locking
    BY Zenon, <1>1, <1>2, <1>3 DEF Locking
  <2>2. \A u \in Tasks : task'[u].step \in {"write", "index"} =>
            task[u].step \in {"write", "index"} /\ task'[u].proof = task[u].proof
    BY Zenon, <1>1, <1>2, <1>3
  <2> QED
    BY Zenon, <1>1, <2>1, <2>2 DEF IInv, TasksInOrder, SaversInOrder
<1>6. StatisticsInOrder'
  BY Zenon, <1>1, <1>2, <1>3 DEF IInv, TasksInOrder, StatisticsInOrder, Tasks
<1> QED
  BY Zenon, <1>1, <1>4, <1>5, <1>6 DEF IInv, TasksInOrder, StatusInOrder, IsStatusInOrder, AggregatorInOrder, CanAdd

\* The new index is not before the old one, and no other task has checked its proof against the old one.
LEMMA WriteIndexKeeps ==
    ASSUME IInv, NEW t \in Tasks, WriteIndex(t)
    PROVE  IInv' /\ ~RoundLess(index'.round, index.round) /\ index'.height >= index.height
<1> DEFINE s == [task[t] EXCEPT !.step = "notify"]
<1>1. UNCHANGED <<decided, statusFile, status, aggregator>> /\ task[t].step = "index" /\ index' = task[t].proof
  BY Zenon DEF WriteIndex
<1>2. /\ "step" \in DOMAIN s /\ "proof" \in DOMAIN s /\ s.step = "notify" /\ s.proof = task[t].proof
      /\ task[t].proof.round \in AllRounds
  BY Zenon, <1>1 DEF IInv, TasksInOrder, TaskShape, Saving
<1>3. task' = [u \in Tasks |-> IF u = t THEN s ELSE task[u]]
  BY Zenon DEF WriteIndex, Goto, IInv, TasksInOrder, TaskShape
<1> HIDE DEF s
<1>4. ~RoundLess(index'.round, index.round) /\ index'.height >= index.height
  BY Zenon, <1>1 DEF IInv, TasksInOrder, SaversInOrder
<1>5. index.round \in AllRounds /\ index'.round \in AllRounds
  BY Zenon, <1>1, <1>2 DEF IInv
<1>6. index.round[1] <= index'.round[1] /\ index.round[1] \in Nat /\ index'.round[1] \in Nat
  BY Zenon, <1>4, <1>5, RoundOrder
<1>7. TaskShape'
  BY Zenon, <1>2, <1>3 DEF IInv, TasksInOrder, TaskShape
<1>8. SaversInOrder'
  <2>1. \A u \in Tasks : task[u].step \in Locking => u = t
    BY Zenon, <1>1 DEF IInv, TasksInOrder, SaversInOrder, Locking
  <2>2. \A u \in Tasks : task'[u].step \in Locking => u = t /\ task'[u].step = "notify"
    BY Zenon, <1>2, <1>3, <2>1
  <2> QED
    BY Zenon, <2>2 DEF SaversInOrder, Locking
<1>9. StatisticsInOrder'
  <2> SUFFICES ASSUME task'.poll.step = "epoch"
               PROVE  /\ task.poll.step = "epoch"
                      /\ task'.poll.statistics = task.poll.statistics
                      /\ task.poll.statistics.round[1] <= index'.round[1]
    BY Zenon, <1>1 DEF IInv, TasksInOrder, StatisticsInOrder
  <2>1. task.poll.step = "epoch" /\ task'.poll = task.poll
    BY Zenon, <1>2, <1>3 DEF Tasks
  <2>2. task.poll.statistics.round \in AllRounds /\ task.poll.statistics.round[1] <= index.round[1]
    BY Zenon, <2>1 DEF IInv, TasksInOrder, StatisticsInOrder
  <2>3. task.poll.statistics.round[1] \in Nat
    BY Zenon, <2>2, RoundOrder
  <2> QED
    BY <1>6, <2>1, <2>2, <2>3
<1>10. StatusInOrder'
  <2>1. \A st : IsStatusInOrder(st) => st.round[1] <= index'.round[1] + 1
    BY <1>6, RoundOrder DEF IsStatusInOrder
  <2> QED
    BY Zenon, <1>1, <2>1 DEF IInv, StatusInOrder, IsStatusInOrder
<1> QED
  BY Zenon, <1>1, <1>4, <1>5, <1>7, <1>8, <1>9, <1>10 DEF IInv, TasksInOrder, AggregatorInOrder, CanAdd

\* The subscribers are told after the index was written.
LEMMA NotifyKeeps ==
    ASSUME IInv, NEW t \in Tasks, Notify(t)
    PROVE  IInv'
<1>1. CASE Throw(t)
  BY Zenon, <1>1, ThrowKeeps DEF Notify
<1>2. CASE AfterSave(t) /\ UNCHANGED <<proofs, index, statusFile, status>>
  BY Zenon, <1>2, AfterSaveKeeps DEF Notify
<1> QED
  BY Zenon, <1>1, <1>2 DEF Notify

\* A boot makes the voting status and the bounds of the aggregator from the files.
LEMMA BootKeeps ==
    ASSUME IInv, Boot
    PROVE  IInv'
<1>1. UNCHANGED <<decided, index, statusFile>> /\ status' = BootStatus
      /\ aggregator' = [min |-> index.round, max |-> index.round, held |-> {}]
      /\ task' = [poll |-> [step |-> "idle"], pull |-> [step |-> "idle"]]
  BY Zenon DEF Boot, diskVars, Idle
<1>2. index.round \in AllRounds
  BY Zenon DEF IInv
<1>3. TasksInOrder'
  BY <1>1 DEF TasksInOrder, TaskShape, SaversInOrder, StatisticsInOrder, Tasks, Saving, Locking
<1>4. AggregatorInOrder'
  BY Zenon, <1>1, <1>2, RoundOrder DEF AggregatorInOrder
<1>5. IsStatusInOrder(statusFile) /\ IsStatusInOrder(VotingStatus(<<index.round[1], index.round[2] + 1>>))
  BY <1>2 DEF IInv, StatusInOrder, IsStatusInOrder, VotingStatus, AllRounds
<1>6. StatusInOrder'
  BY Zenon, <1>1, <1>5 DEF StatusInOrder, IsStatusInOrder, BootStatus
<1> QED
  BY Zenon, <1>1, <1>2, <1>3, <1>4, <1>6 DEF IInv

\* The orchestrator enters the epoch after the one it has read, which the storage has not left behind.
LEMMA PollEpochKeeps ==
    ASSUME IInv, PollEpoch
    PROVE  IInv'
<1> DEFINE statistics == task.poll.statistics
<1>1. UNCHANGED <<decided, index, statusFile>> /\ task.poll.step = "epoch"
  BY Zenon DEF PollEpoch, diskVars
<1>2. /\ statistics.round \in AllRounds /\ statistics.round[1] <= index.round[1] /\ statistics.round[1] \in Nat
      /\ index.round \in AllRounds /\ index.round[1] \in Nat
  <2>1. statistics.round \in AllRounds /\ statistics.round[1] <= index.round[1] /\ index.round \in AllRounds
    BY Zenon, <1>1 DEF IInv, TasksInOrder, StatisticsInOrder
  <2> QED
    BY Zenon, <2>1, RoundOrder
<1>3. IsStatusInOrder(VotingStatus(<<statistics.round[1] + 1, 1>>))
  BY <1>2 DEF IsStatusInOrder, VotingStatus, AllRounds
<1>4. TasksInOrder'
  <2>1. Goto("poll", [step |-> "idle"]) \/ Goto("poll", [step |-> "vote"])
    BY Zenon DEF PollEpoch, Idle
  <2> QED
    BY Zenon, <1>1, <2>1, PlainMove DEF IInv, Tasks, Saving
<1>5. CASE UNCHANGED <<status, aggregator>>
  BY Zenon, <1>1, <1>4, <1>5 DEF IInv, StatusInOrder, IsStatusInOrder, AggregatorInOrder, CanAdd
<1>6. ASSUME NEW newStatus, newStatus \in {status, VotingStatus(<<statistics.round[1] + 1, 1>>)},
             status' = newStatus, SetMaxFinalizationRound(newStatus.round)
      PROVE  IInv'
  <2>1. IsStatusInOrder(newStatus)
    BY Zenon, <1>3, <1>6 DEF IInv, StatusInOrder
  <2>2. AggregatorInOrder'
    BY Zenon, <1>6, <2>1, RaiseKeeps DEF IInv, IsStatusInOrder
  <2> QED
    BY Zenon, <1>1, <1>4, <1>6, <2>1, <2>2 DEF IInv, StatusInOrder, IsStatusInOrder
<1> QED
  BY Zenon, <1>5, <1>6 DEF PollEpoch

\* Steps that leave the storage, the status and the aggregator alone.
LEMMA MemoryKept ==
    ASSUME IInv, UNCHANGED <<index, statusFile, status, aggregator>>, decided' \in 0 .. Len(Decided), TasksInOrder'
    PROVE  IInv'
BY Zenon DEF IInv, StatusInOrder, IsStatusInOrder, AggregatorInOrder, CanAdd

\* The statistics that a poll reads are those of the index at that moment.
LEMMA PollStatisticsKeeps ==
    ASSUME IInv, PollStatistics
    PROVE  IInv'
<1>1. UNCHANGED <<decided, index, statusFile, status, aggregator>>
  BY Zenon DEF PollStatistics, diskVars
<1>2. task' = [u \in Tasks |-> IF u = "poll" THEN [step |-> "epoch", statistics |-> index] ELSE task[u]] /\ "poll" \in Tasks
  BY Zenon DEF PollStatistics, Goto, IInv, TasksInOrder, TaskShape, Tasks
<1>3. TaskShape'
  BY Zenon, <1>2 DEF IInv, TasksInOrder, TaskShape, Saving
<1>4. SaversInOrder'
  BY Zenon, <1>1, <1>2 DEF IInv, TasksInOrder, SaversInOrder, Locking
<1>5. StatisticsInOrder'
  <2>1. index.round \in AllRounds /\ index.round[1] \in Nat /\ status.round[1] <= index.round[1] + 1
    BY Zenon, RoundOrder DEF IInv, StatusInOrder, IsStatusInOrder
  <2> QED
    BY <1>1, <1>2, <2>1 DEF StatisticsInOrder
<1> QED
  BY Zenon, <1>1, <1>3, <1>4, <1>5, MemoryKept DEF TasksInOrder, IInv

\* The backup of a prevote is written, and the prevote is sent with it.
LEMMA BackupKeeps ==
    ASSUME IInv, PollPrevote \/ CreateBackup \/ WriteBackupBlocks \/ WriteBackupIndex
    PROVE  IInv'
<1>1. UNCHANGED <<decided, index, statusFile, aggregator>>
  BY Zenon DEF PollPrevote, CreateBackup, WriteBackupBlocks, WriteBackupIndex, Terminate, diskVars
<1>2. status' = status \/ status' = [status EXCEPT !.prevote = TRUE]
  BY Zenon DEF PollPrevote, CreateBackup, WriteBackupBlocks, WriteBackupIndex, Terminate
<1>3. Terminate \/ \E s : Goto("poll", s) /\ "step" \in DOMAIN s /\ s.step \notin Saving \union {"epoch"}
  BY DEF PollPrevote, CreateBackup, WriteBackupBlocks, WriteBackupIndex, Saving
<1>4. TasksInOrder'
  BY Zenon, <1>1, <1>3, Stopped, PlainMove DEF IInv, Tasks
<1>5. StatusInOrder'
  BY Zenon, <1>1, <1>2 DEF IInv, StatusInOrder, IsStatusInOrder
<1> QED
  BY Zenon, <1>1, <1>4, <1>5 DEF IInv, AggregatorInOrder, CanAdd

\* A poll that goes on to the next round of its epoch.
LEMMA NextRoundKeeps ==
    ASSUME IInv, PollNextRound
    PROVE  IInv'
<1>1. UNCHANGED <<decided, index, aggregator>> /\ statusFile' = status'
      /\ (status' = status \/ status' = VotingStatus(<<status.round[1], status.round[2] + 1>>))
  BY Zenon DEF PollNextRound
<1>2. TasksInOrder'
  BY Zenon, <1>1, PlainMove DEF PollNextRound, IInv, Tasks, Saving
<1>3. IsStatusInOrder(status) /\ IsStatusInOrder(VotingStatus(<<status.round[1], status.round[2] + 1>>))
  BY DEF IInv, StatusInOrder, IsStatusInOrder, VotingStatus, AllRounds
<1>4. StatusInOrder'
  BY Zenon, <1>1, <1>3 DEF StatusInOrder, IsStatusInOrder
<1> QED
  BY Zenon, <1>1, <1>2, <1>4 DEF IInv, AggregatorInOrder, CanAdd

\* The finalizer of a poll.
LEMMA FinalizeKeeps ==
    ASSUME IInv, Finalize
    PROVE  IInv'
<1>1. UNCHANGED <<decided, index, statusFile, status, aggregator>>
  BY DEF Finalize, diskVars
<1>2. CASE Goto("poll", Idle)
  BY Zenon, <1>1, <1>2, PlainMove, MemoryKept DEF IInv, Tasks, Saving, Idle
<1>3. ASSUME NEW m \in BestPrecommits, Goto("poll", [step |-> "save", proof |-> m])
      PROVE  IInv'
  <2>1. m.round \in AllRounds
    BY DEF BestPrecommits, IInv, AggregatorInOrder
  <2> QED
    BY Zenon, <1>1, <1>3, <2>1, BeginSave, MemoryKept DEF IInv, Tasks
<1> QED
  BY Zenon, <1>2, <1>3 DEF Finalize

\* The rounds of the network.
LEMMA KnownRounds ==
    ASSUME IInv, NEW proof \in KnownProofs
    PROVE  proof.round \in AllRounds
<1>1. PICK k \in 1 .. decided : proof \in ProofsOf(k)
  BY Zenon DEF KnownProofs
<1>2. Decided[k].round \in Nat \X Nat
  <2>1. Len(Decided) \in Nat
    BY FinalityAssumption
  <2>2. k \in 1 .. Len(Decided)
    <3>1. decided \in 0 .. Len(Decided)
      BY Zenon DEF IInv
    <3> QED
      BY <2>1, <3>1
  <2>3. Decided[k] \in Decisions
    BY <2>2, FinalityAssumption
  <2> QED
    BY Zenon, <2>3 DEF Decisions
<1>3. proof.round = Decided[k].round
  BY <1>1 DEF ProofsOf, Proof
<1> QED
  BY Zenon, <1>2, <1>3 DEF AllRounds

\* The task that pulls proofs from peers.
LEMMA PullKeeps ==
    ASSUME IInv, Pull
    PROVE  IInv'
<1>1. UNCHANGED <<decided, index, statusFile, status, aggregator>>
  BY Zenon DEF Pull, PullStatistics, PullRequest, PullProof, PullNothing, diskVars
<1>2. CASE PullProof
  <2>1. PICK proof \in KnownProofs : Goto("pull", [step |-> "save", proof |-> proof])
    BY Zenon, <1>2 DEF PullProof
  <2> QED
    BY Zenon, <1>1, <2>1, KnownRounds, BeginSave, MemoryKept DEF IInv, Tasks
<1>3. CASE PullStatistics \/ PullRequest \/ PullNothing
  <2>1. \E s : Goto("pull", s) /\ "step" \in DOMAIN s /\ s.step \notin Saving \union {"epoch"}
    BY <1>3 DEF PullStatistics, PullRequest, PullNothing, Idle, Saving
  <2> QED
    BY Zenon, <1>1, <2>1, PlainMove, MemoryKept DEF IInv, Tasks
<1> QED
  BY Zenon, <1>2, <1>3 DEF Pull

\* Messages and proofs of peers, changes of the chain, and crashes.
LEMMA EnvironmentKeeps ==
    ASSUME IInv, Decide \/ ReceiveVotes \/ ReceiveProof \/ Synchronize \/ PreprocessFork \/ Fork \/ Crash
    PROVE  IInv'
<1>1. CASE Decide \/ Synchronize \/ PreprocessFork \/ Fork
  <2>1. UNCHANGED <<index, statusFile, status, aggregator, task>>
    BY Zenon, <1>1 DEF Decide, Synchronize, PreprocessFork, Fork, diskVars
  <2>2. decided' \in 0 .. Len(Decided)
    <3>1. decided' = decided \/ (decided < Len(Decided) /\ decided' = decided + 1)
      BY Zenon, <1>1 DEF Decide, Synchronize, PreprocessFork, Fork
    <3>2. Len(Decided) \in Nat /\ decided \in 0 .. Len(Decided)
      BY FinalityAssumption DEF IInv
    <3> QED
      BY <3>1, <3>2
  <2>3. TasksInOrder'
    BY Zenon, <2>1 DEF IInv, TasksInOrder, TaskShape, SaversInOrder, StatisticsInOrder
  <2> QED
    BY Zenon, <2>1, <2>2, <2>3, MemoryKept
<1>2. ASSUME NEW message, message.round \in AllRounds, Receive(message)
      PROVE  IInv'
  <2>1. UNCHANGED <<decided, index, statusFile, status, task>>
    BY Zenon, <1>2 DEF Receive, diskVars
  <2>2. AggregatorInOrder'
    BY Zenon, <1>2, ReceiveKeeps DEF IInv
  <2> QED
    BY Zenon, <2>1, <2>2
    DEF IInv, TasksInOrder, TaskShape, SaversInOrder, StatisticsInOrder, StatusInOrder, IsStatusInOrder
<1>3. CASE ReceiveVotes
  <2>1. Proof(status.round, 0).round \in AllRounds
    BY Zenon DEF Proof, IInv, StatusInOrder, IsStatusInOrder
  <2> QED
    BY Zenon, <1>2, <1>3, <2>1 DEF ReceiveVotes
<1>4. CASE ReceiveProof
  BY Zenon, <1>2, <1>4, KnownRounds DEF ReceiveProof
<1>5. CASE Crash
  <2>1. UNCHANGED <<decided, index, statusFile, status, aggregator>> /\ Terminate
    BY Zenon, <1>5 DEF Crash, Terminate, diskVars
  <2> QED
    BY Zenon, <2>1, Stopped, MemoryKept DEF IInv
<1> QED
  BY Zenon, <1>1, <1>3, <1>4, <1>5

\* One step of the node or of its environment.
LEMMA StepKeeps ==
    ASSUME IInv, [Next]_vars
    PROVE  IInv'
<1>1. CASE Poll
  BY Zenon, <1>1, PollStatisticsKeeps, PollEpochKeeps, BackupKeeps, NextRoundKeeps, FinalizeKeeps DEF Poll
<1>2. CASE Pull
  BY Zenon, <1>2, PullKeeps
<1>3. ASSUME NEW t \in Tasks, Save(t)
      PROVE  IInv'
  BY Zenon, <1>3, SaveProofKeeps, WriteProofKeeps, WriteIndexKeeps, NotifyKeeps DEF Save
<1>4. CASE Decide \/ ReceiveVotes \/ ReceiveProof \/ Synchronize \/ PreprocessFork \/ Fork \/ Crash
  BY Zenon, <1>4, EnvironmentKeeps
<1>5. CASE Boot
  BY <1>5, BootKeeps
<1>6. CASE UNCHANGED vars
  <2>1. UNCHANGED <<decided, index, statusFile, status, aggregator, task>>
    BY Zenon, <1>6 DEF vars, diskVars
  <2> QED
    BY Zenon, <2>1, MemoryKept DEF IInv, TasksInOrder, TaskShape, SaversInOrder, StatisticsInOrder
<1> QED
  BY Zenon, <1>1, <1>2, <1>3, <1>4, <1>5, <1>6 DEF Next

\* The inductive invariant holds in every state.
LEMMA Inductive == Spec => []IInv
BY InitHolds, StepKeeps, PTL DEF Spec

-----------------------------------------------------------------------------

\* The bounds of the aggregator never cross, all it holds is within them, and the orchestrator is never more than one
\* epoch ahead of the proof storage: setEpoch and setMaxFinalizationRound do not throw, whatever the network decides.
THEOREM RoundsStayInOrder == Spec => []RoundsInOrder
<1>1. IInv => RoundsInOrder
  BY Zenon DEF IInv, RoundsInOrder, TasksInOrder, StatisticsInOrder, StatusInOrder, IsStatusInOrder, AggregatorInOrder
<1> QED
  BY <1>1, Inductive, PTL

\* Only writeIndex changes the index.
LEMMA IndexAdvances ==
    ASSUME IInv, [Next]_vars
    PROVE  [~RoundLess(index'.round, index.round) /\ index'.height >= index.height]_index
<1>1. ASSUME NEW t \in Tasks, Save(t), index' # index
      PROVE  ~RoundLess(index'.round, index.round) /\ index'.height >= index.height
  <2>1. WriteIndex(t)
    BY Zenon, <1>1 DEF Save, SaveProof, WriteProof, Notify, AfterSave, Throw, Terminate, diskVars
  <2> QED
    BY Zenon, <2>1, WriteIndexKeeps
<1>2. Next /\ index' # index => \E t \in Tasks : Save(t)
  BY Zenon DEF Next, Poll, PollStatistics, PollEpoch, PollPrevote, CreateBackup, WriteBackupBlocks, WriteBackupIndex,
      PollNextRound, Finalize, Pull, PullStatistics, PullRequest, PullProof, PullNothing, Decide, ReceiveVotes,
      ReceiveProof, Receive, Synchronize, PreprocessFork, Fork, Crash, Boot, Terminate, diskVars
<1> QED
  BY Zenon, <1>1, <1>2 DEF vars, diskVars

\* The statistics of the proof storage never go back, though the finalizer and the proof task both save what they chose
\* by statistics they read before.
THEOREM StatisticsOnlyAdvance == Spec => StatisticsAdvance
BY Inductive, IndexAdvances, PTL DEF Spec, StatisticsAdvance

-----------------------------------------------------------------------------
(* The backups of the prevotes. *)

WritingBackup == {"backup", "blocks", "backupIndex"}

\* Every backup knows its round and whether it is complete.
BackupShape == \A b \in backups : {"round", "indexed"} \subseteq DOMAIN b

\* A backup is written only for a vote that was not sent.
WritesUnsent == task.poll.step \in WritingBackup => ~status.prevote

\* The file is not ahead of the orchestrator, neither in the round nor in what was sent in it.
FileBehind ==
    ~IsDown =>
        \/ RoundLess(statusFile.round, status.round)
        \/ statusFile.round = status.round /\ (statusFile.prevote => status.prevote)

\* The subscribers are told of the proof that the index is at.
NotifiesIndex == \A t \in Tasks : task[t].step = "notify" => task[t].proof.round = index.round

BInv == BackupShape /\ WritesUnsent /\ FileBehind /\ NotifiesIndex /\ PrevoteBackedUp

\* A node that has not voted needs no backup.
LEMMA BackupInit == Init /\ ~EnableRevoteOnBoot => BInv
<1> SUFFICES ASSUME Init, ~EnableRevoteOnBoot PROVE BInv
  BY Zenon
<1>1. /\ backups = {} /\ status = statusFile /\ statusFile.prevote = FALSE
      /\ task = [poll |-> [step |-> "idle"], pull |-> [step |-> "idle"]]
  BY Zenon DEF Init, BootStatus, VotingStatus, Idle
<1>2. PrevoteBackedUp
  BY Zenon, <1>1 DEF PrevoteBackedUp
<1> QED
  BY <1>1, <1>2 DEF BInv, BackupShape, WritesUnsent, FileBehind, NotifiesIndex, WritingBackup, Tasks

-----------------------------------------------------------------------------

\* Steps that change neither what was voted nor a backup.
LEMMA Quiet ==
    ASSUME BInv, UNCHANGED <<index, statusFile, status, backups>>, IsDown => IsDown',
           task'.poll.step \in WritingBackup => ~status.prevote, NotifiesIndex'
    PROVE  BInv'
BY Zenon DEF BInv, BackupShape, WritesUnsent, FileBehind, PrevoteBackedUp

\* A task goes on to a step that neither notifies nor writes a backup.
LEMMA QuietMove ==
    ASSUME IInv, BInv, NEW t \in Tasks, NEW s, Goto(t, s), task[t].step # "down",
           s.step \notin WritingBackup \union {"notify"}, UNCHANGED <<index, statusFile, status, backups>>
    PROVE  BInv'
<1>1. task' = [u \in Tasks |-> IF u = t THEN s ELSE task[u]] /\ "poll" \in Tasks
  BY Zenon DEF IInv, TasksInOrder, TaskShape, Goto, Tasks
<1>2. NotifiesIndex'
  BY Zenon, <1>1 DEF BInv, NotifiesIndex
<1>3. task'.poll.step \in WritingBackup => ~status.prevote
  BY Zenon, <1>1 DEF BInv, WritesUnsent
<1>4. IsDown => IsDown'
  BY Zenon, <1>1 DEF IsDown
<1> QED
  BY Zenon, <1>2, <1>3, <1>4, Quiet

\* A process that ends leaves the backups as they are.
LEMMA QuietStop ==
    ASSUME BInv, Terminate
    PROVE  BInv'
<1>1. task' = [poll |-> [step |-> "down"], pull |-> [step |-> "down"]]
  BY Zenon DEF Terminate
<1>2. NotifiesIndex' /\ IsDown' /\ task'.poll.step \notin WritingBackup
  BY <1>1 DEF NotifiesIndex, IsDown, Tasks, WritingBackup
<1>3. UNCHANGED <<index, statusFile, status, backups>>
  BY Zenon DEF Terminate, diskVars
<1> QED
  BY Zenon, <1>2, <1>3, Quiet

\* An exception in a task touches neither the backups nor the voting status file.
LEMMA QuietThrow ==
    ASSUME IInv, BInv, NEW t \in Tasks, task[t].step # "down", Throw(t)
    PROVE  BInv'
<1>1. CASE Terminate
  BY Zenon, <1>1, QuietStop
<1>2. CASE Goto(t, [step |-> "stopped"]) /\ UNCHANGED <<diskVars, status, aggregator>>
  BY Zenon, <1>2, QuietMove DEF diskVars, WritingBackup
<1> QED
  BY Zenon, <1>1, <1>2 DEF Throw

\* The steps of the proof task and of the network.
LEMMA PullBacked ==
    ASSUME IInv, BInv, Pull
    PROVE  BInv'
<1>1. UNCHANGED <<index, statusFile, status, backups>> /\ task.pull.step # "down"
  BY Zenon DEF Pull, PullStatistics, PullRequest, PullProof, PullNothing, diskVars
<1>2. \E s : Goto("pull", s) /\ s.step \notin WritingBackup \union {"notify"}
  <2>1. CASE PullProof
    BY <2>1 DEF PullProof, WritingBackup
  <2>2. CASE PullStatistics \/ PullRequest \/ PullNothing
    BY <2>2 DEF PullStatistics, PullRequest, PullNothing, Idle, WritingBackup
  <2> QED
    BY Zenon, <2>1, <2>2 DEF Pull
<1> QED
  BY Zenon, <1>1, <1>2, QuietMove DEF Tasks

\* Peers, changes of the chain and crashes touch neither.
LEMMA EnvironmentBacked ==
    ASSUME IInv, BInv, Decide \/ ReceiveVotes \/ ReceiveProof \/ Synchronize \/ PreprocessFork \/ Fork \/ Crash
    PROVE  BInv'
<1>1. CASE Crash
  BY Zenon, <1>1, QuietStop DEF Crash
<1>2. CASE Decide \/ ReceiveVotes \/ ReceiveProof \/ Synchronize \/ PreprocessFork \/ Fork
  <2>1. UNCHANGED <<index, statusFile, status, backups, task>>
    BY Zenon, <1>2 DEF Decide, ReceiveVotes, ReceiveProof, Receive, Synchronize, PreprocessFork, Fork, diskVars
  <2> QED
    BY Zenon, <2>1, Quiet DEF BInv, NotifiesIndex, WritesUnsent, IsDown
<1> QED
  BY Zenon, <1>1, <1>2

-----------------------------------------------------------------------------
(* Saving a proof. *)

\* Looking whether a proof may be saved touches neither.
LEMMA SaveProofBacked ==
    ASSUME IInv, BInv, NEW t \in Tasks, SaveProof(t)
    PROVE  BInv'
<1>1. task[t].step = "save" /\ "step" \in DOMAIN task[t]
  BY Zenon DEF SaveProof, IInv, TasksInOrder, TaskShape
<1>2. CASE Throw(t)
  BY Zenon, <1>1, <1>2, QuietThrow
<1>3. CASE AfterSave(t) /\ UNCHANGED <<diskVars, status>>
  BY Zenon, <1>1, <1>3, QuietMove DEF AfterSave, diskVars, Idle, WritingBackup
<1>4. CASE Goto(t, [task[t] EXCEPT !.step = "write"]) /\ UNCHANGED <<index, statusFile, backups, status, aggregator>>
  BY Zenon, <1>1, <1>4, QuietMove DEF WritingBackup
<1> QED
  BY Zenon, <1>2, <1>3, <1>4 DEF SaveProof

\* The proof file is written before the backups of its round are removed.
LEMMA WriteProofBacked ==
    ASSUME IInv, BInv, NEW t \in Tasks, WriteProof(t)
    PROVE  BInv'
<1>1. task[t].step = "write" /\ "step" \in DOMAIN task[t]
  BY Zenon DEF WriteProof, IInv, TasksInOrder, TaskShape
<1> QED
  BY Zenon, <1>1, QuietMove DEF WriteProof, WritingBackup

\* A higher index leaves fewer votes that need a backup.
LEMMA WriteIndexBacked ==
    ASSUME IInv, BInv, NEW t \in Tasks, WriteIndex(t)
    PROVE  BInv'
<1> DEFINE s == [task[t] EXCEPT !.step = "notify"]
<1>1. UNCHANGED <<statusFile, status, backups>> /\ task[t].step = "index" /\ index' = task[t].proof
  BY Zenon DEF WriteIndex
<1>2. "step" \in DOMAIN s /\ "proof" \in DOMAIN s /\ s.step = "notify" /\ s.proof = task[t].proof
  BY Zenon, <1>1 DEF IInv, TasksInOrder, TaskShape, Saving
<1>3. task' = [u \in Tasks |-> IF u = t THEN s ELSE task[u]] /\ "poll" \in Tasks
  BY Zenon DEF WriteIndex, Goto, IInv, TasksInOrder, TaskShape, Tasks
<1> HIDE DEF s
<1>4. NotifiesIndex'
  <2>1. \A u \in Tasks : task[u].step = "notify" => u = t
    BY Zenon, <1>1 DEF IInv, TasksInOrder, SaversInOrder, Locking
  <2> QED
    BY Zenon, <1>1, <1>2, <1>3, <2>1 DEF NotifiesIndex
<1>5. WritesUnsent'
  BY Zenon, <1>1, <1>2, <1>3 DEF BInv, WritesUnsent, WritingBackup
<1>6. FileBehind'
  BY Zenon, <1>1, <1>2, <1>3 DEF BInv, FileBehind, IsDown
<1>7. ASSUME NEW r \in AllRounds, RoundLess(index'.round, r)
      PROVE  RoundLess(index.round, r)
  <2>1. ~RoundLess(index'.round, index.round) /\ index.round \in AllRounds /\ index'.round \in AllRounds
    BY Zenon, WriteIndexKeeps DEF IInv
  <2> QED
    BY <1>7, <2>1 DEF RoundLess, AllRounds
<1>8. PrevoteBackedUp'
  <2>1. status.round \in AllRounds /\ statusFile.round \in AllRounds
    BY DEF IInv, StatusInOrder, IsStatusInOrder
  <2> QED
    BY Zenon, <1>1, <1>7, <2>1 DEF BInv, PrevoteBackedUp
<1> QED
  BY Zenon, <1>1, <1>4, <1>5, <1>6, <1>8 DEF BInv, BackupShape

\* The backup that is removed is that of a round that is final.
LEMMA NotifyBacked ==
    ASSUME IInv, BInv, NEW t \in Tasks, Notify(t)
    PROVE  BInv'
<1>1. task[t].step = "notify"
  BY Zenon DEF Notify
<1>2. CASE Throw(t)
  BY Zenon, <1>1, <1>2, QuietThrow
<1>3. CASE RemoveBackup(task[t].proof.round) /\ AfterSave(t) /\ UNCHANGED <<proofs, index, statusFile, status>>
  <2>1. task' = [u \in Tasks |-> IF u = t THEN [step |-> "idle"] ELSE task[u]] /\ "poll" \in Tasks
    BY Zenon, <1>3 DEF AfterSave, Idle, Goto, IInv, TasksInOrder, TaskShape, Tasks
  <2>2. NotifiesIndex' /\ WritesUnsent'
    BY Zenon, <1>3, <2>1 DEF BInv, NotifiesIndex, WritesUnsent, WritingBackup
  <2>3. FileBehind'
    BY Zenon, <1>1, <1>3, <2>1 DEF BInv, FileBehind, IsDown
  <2>4. task[t].proof.round = index.round /\ index.round \in AllRounds /\ ~RoundLess(index.round, index.round)
    BY Zenon, <1>1, RoundOrder DEF BInv, NotifiesIndex, IInv
  <2>5. PrevoteBackedUp'
    BY Zenon, <1>3, <2>4 DEF BInv, PrevoteBackedUp, RemoveBackup
  <2> QED
    BY Zenon, <1>3, <2>2, <2>3, <2>5 DEF BInv, BackupShape, RemoveBackup
<1> QED
  BY Zenon, <1>2, <1>3 DEF Notify

-----------------------------------------------------------------------------
(* The finalization task. *)

\* Steps of the poll task that change neither a vote nor a backup.
LEMMA PollBacked ==
    ASSUME IInv, BInv, PollStatistics \/ PollPrevote \/ Finalize
    PROVE  BInv'
<1>1. UNCHANGED <<index, statusFile, status, backups>> /\ task.poll.step # "down"
  BY Zenon DEF PollStatistics, PollPrevote, Finalize, diskVars
<1>2. CASE PollStatistics
  BY Zenon, <1>1, <1>2, QuietMove DEF PollStatistics, WritingBackup, Tasks
<1>3. CASE PollPrevote
  <2>1. task' = [u \in Tasks |-> IF u = "poll" THEN [step |-> "backup", first |-> index.height] ELSE task[u]]
    BY Zenon, <1>3 DEF PollPrevote, Goto, IInv, TasksInOrder, TaskShape
  <2>2. NotifiesIndex'
    BY Zenon, <1>1, <2>1 DEF BInv, NotifiesIndex
  <2>3. ~status.prevote
    BY Zenon, <1>3 DEF PollPrevote
  <2> QED
    BY Zenon, <1>1, <2>2, <2>3, Quiet DEF IsDown
<1>4. CASE Finalize
  <2>1. CASE Goto("poll", Idle)
    BY Zenon, <1>1, <2>1, QuietMove DEF Idle, WritingBackup, Tasks
  <2>2. ASSUME NEW m, Goto("poll", [step |-> "save", proof |-> m])
        PROVE  BInv'
    BY Zenon, <1>1, <2>2, QuietMove DEF WritingBackup, Tasks
  <2> QED
    BY Zenon, <1>4, <2>1, <2>2 DEF Finalize
<1> QED
  BY Zenon, <1>2, <1>3, <1>4

\* The poll task goes on to another step; the backups and the votes are dealt with apart.
LEMMA PollMoves ==
    ASSUME IInv, BInv, NEW s, Goto("poll", s), s.step # "notify", UNCHANGED index
    PROVE  task'.poll = s /\ NotifiesIndex'
<1>1. task' = [u \in Tasks |-> IF u = "poll" THEN s ELSE task[u]] /\ "poll" \in Tasks
  BY Zenon DEF Goto, IInv, TasksInOrder, TaskShape, Tasks
<1> QED
  BY Zenon, <1>1 DEF BInv, NotifiesIndex

\* A new epoch begins without a vote, in a round after that of the file.
LEMMA PollEpochBacked ==
    ASSUME IInv, BInv, PollEpoch
    PROVE  BInv'
<1>1. UNCHANGED <<index, statusFile, backups>> /\ task.poll.step = "epoch"
  BY Zenon DEF PollEpoch, diskVars
<1>2. PICK s : Goto("poll", s) /\ s.step \in {"idle", "vote"}
  BY DEF PollEpoch, Idle
<1>3. task'.poll.step \in {"idle", "vote"} /\ NotifiesIndex'
  BY Zenon, <1>1, <1>2, PollMoves
<1>4. \/ status' = status
      \/ /\ status' = [round |-> <<task.poll.statistics.round[1] + 1, 1>>, prevote |-> FALSE]
         /\ task.poll.statistics.round[1] + 1 # status.round[1]
  BY Zenon DEF PollEpoch, VotingStatus
<1>5. FileBehind'
  <2>1. RoundLess(statusFile.round, status.round)
        \/ (statusFile.round = status.round /\ (statusFile.prevote => status.prevote))
    BY Zenon, <1>1 DEF BInv, FileBehind, IsDown
  <2>2. CASE status' = status
    BY Zenon, <1>1, <2>1, <2>2 DEF FileBehind
  <2>3. CASE /\ status' = [round |-> <<task.poll.statistics.round[1] + 1, 1>>, prevote |-> FALSE]
             /\ task.poll.statistics.round[1] + 1 # status.round[1]
    <3>1. /\ task.poll.statistics.round \in AllRounds /\ status.round \in AllRounds /\ statusFile.round \in AllRounds
          /\ status.round[1] <= task.poll.statistics.round[1] + 1
      BY Zenon, <1>1 DEF IInv, TasksInOrder, StatisticsInOrder, StatusInOrder, IsStatusInOrder
    <3>2. status.round[1] < task.poll.statistics.round[1] + 1
      BY <2>3, <3>1 DEF AllRounds
    <3>3. statusFile.round[1] <= status.round[1]
      BY <2>1, <3>1 DEF AllRounds, RoundLess
    <3>4. RoundLess(statusFile.round, status'.round)
      BY <2>3, <3>1, <3>2, <3>3 DEF AllRounds, RoundLess
    <3> QED
      BY Zenon, <1>1, <3>4 DEF FileBehind
  <2> QED
    BY Zenon, <1>4, <2>2, <2>3
<1>6. PrevoteBackedUp'
  BY <1>1, <1>4 DEF BInv, PrevoteBackedUp
<1> QED
  BY Zenon, <1>1, <1>3, <1>5, <1>6 DEF BInv, BackupShape, WritesUnsent, WritingBackup

\* The backup that is replaced belongs to a vote that was not sent: neither the orchestrator nor the file has it.
LEMMA CreateBackupBacked ==
    ASSUME IInv, BInv, CreateBackup
    PROVE  BInv'
<1>1. UNCHANGED <<index, statusFile, status>> /\ task.poll.step = "backup"
  BY Zenon DEF CreateBackup
<1>2. PICK s : Goto("poll", s) /\ s.step = "blocks"
  BY DEF CreateBackup
<1>3. task'.poll.step = "blocks" /\ NotifiesIndex'
  BY Zenon, <1>1, <1>2, PollMoves
<1>4. ~status.prevote
  BY Zenon, <1>1 DEF BInv, WritesUnsent, WritingBackup
<1>5. /\ RoundLess(statusFile.round, status.round) \/ (statusFile.round = status.round /\ ~statusFile.prevote)
      /\ status.round \in AllRounds
  BY Zenon, <1>1, <1>4 DEF BInv, FileBehind, IsDown, IInv, StatusInOrder, IsStatusInOrder
<1>6. statusFile.prevote => statusFile.round # status.round
  BY Zenon, <1>5, RoundOrder
<1>7. \A b \in backups : b.round # status.round => b \in backups'
  BY Zenon DEF CreateBackup
<1>8. BackupShape'
  BY DEF CreateBackup, BInv, BackupShape
<1>9. PrevoteBackedUp'
  BY Zenon, <1>1, <1>4, <1>6, <1>7 DEF BInv, PrevoteBackedUp
<1>10. WritesUnsent' /\ FileBehind'
  BY Zenon, <1>1, <1>3, <1>4 DEF BInv, WritesUnsent, FileBehind, IsDown
<1> QED
  BY Zenon, <1>3, <1>8, <1>9, <1>10 DEF BInv

\* The blocks of a backup are written before the vote is sent.
LEMMA WriteBackupBlocksBacked ==
    ASSUME IInv, BInv, WriteBackupBlocks
    PROVE  BInv'
<1>1. CASE Terminate
  BY Zenon, <1>1, QuietStop
<1>2. CASE /\ CurrentBackups # {}
           /\ backups' = (backups \ CurrentBackups) \cup {[b EXCEPT !.last = task.poll.last] : b \in CurrentBackups}
           /\ Goto("poll", [step |-> "backupIndex"])
           /\ UNCHANGED <<proofs, index, statusFile, status, aggregator>>
  <2>1. task.poll.step = "blocks"
    BY Zenon DEF WriteBackupBlocks
  <2>2. task'.poll.step = "backupIndex" /\ NotifiesIndex'
    BY <1>2, PollMoves
  <2>3. ~status.prevote
    BY Zenon, <2>1 DEF BInv, WritesUnsent, WritingBackup
  <2> DEFINE Written(b) == [b EXCEPT !.last = task.poll.last]
  <2>a. ASSUME NEW b \in backups
        PROVE  /\ Written(b).round = b.round /\ Written(b).indexed = b.indexed
               /\ {"round", "indexed"} \subseteq DOMAIN Written(b)
    BY Zenon DEF BInv, BackupShape
  <2>b. backups' = (backups \ CurrentBackups) \cup {Written(b) : b \in CurrentBackups} /\ CurrentBackups \subseteq backups
    BY Zenon, <1>2 DEF CurrentBackups
  <2> HIDE DEF Written
  <2>4. \A b \in backups : \E c \in backups' : c.round = b.round /\ c.indexed = b.indexed
    BY Zenon, <2>a, <2>b
  <2>5. BackupShape'
    BY Zenon, <2>a, <2>b DEF BInv, BackupShape
  <2>6. PrevoteBackedUp'
    <3>1. \A st \in {status, statusFile} :
              st.prevote /\ RoundLess(index.round, st.round) => \E b \in backups : b.round = st.round /\ b.indexed
      BY Zenon DEF BInv, PrevoteBackedUp
    <3>2. \A st \in {status, statusFile} :
              st.prevote /\ RoundLess(index.round, st.round) => \E b \in backups' : b.round = st.round /\ b.indexed
      BY <2>4, <3>1
    <3>3. UNCHANGED <<status, statusFile, index>>
      BY Zenon, <1>2
    <3> QED
      BY Zenon, <3>2, <3>3 DEF PrevoteBackedUp
  <2>7. WritesUnsent' /\ FileBehind'
    BY Zenon, <1>2, <2>1, <2>2, <2>3 DEF BInv, WritesUnsent, FileBehind, IsDown
  <2> QED
    BY Zenon, <2>2, <2>5, <2>6, <2>7 DEF BInv
<1> QED
  BY Zenon, <1>1, <1>2 DEF WriteBackupBlocks

\* The vote is sent with its backup complete.
LEMMA WriteBackupIndexBacked ==
    ASSUME IInv, BInv, WriteBackupIndex
    PROVE  BInv'
<1>1. CASE Terminate
  BY <1>1, QuietStop
<1>2. CASE /\ CurrentBackups # {}
           /\ backups' = (backups \ CurrentBackups) \cup {[b EXCEPT !.indexed = TRUE] : b \in CurrentBackups}
           /\ status' = [status EXCEPT !.prevote = TRUE]
           /\ Goto("poll", [step |-> "nextRound"])
           /\ UNCHANGED <<proofs, index, statusFile, aggregator>>
  <2>1. task.poll.step = "backupIndex"
    BY Zenon DEF WriteBackupIndex
  <2>2. task'.poll.step = "nextRound" /\ NotifiesIndex'
    BY <1>2, PollMoves
  <2>3. status'.round = status.round /\ status'.prevote = TRUE
    BY Zenon, <1>2 DEF IInv, StatusInOrder, IsStatusInOrder
  <2> DEFINE Written(b) == [b EXCEPT !.indexed = TRUE]
  <2>a. ASSUME NEW b \in backups
        PROVE  /\ Written(b).round = b.round /\ Written(b).indexed = TRUE
               /\ {"round", "indexed"} \subseteq DOMAIN Written(b)
    BY Zenon DEF BInv, BackupShape
  <2>b. backups' = (backups \ CurrentBackups) \cup {Written(b) : b \in CurrentBackups} /\ CurrentBackups \subseteq backups
    BY Zenon, <1>2 DEF CurrentBackups
  <2> HIDE DEF Written
  <2>4. \A b \in backups : \E c \in backups' : c.round = b.round /\ (b.indexed => c.indexed)
    BY ZenonT(60), <2>a, <2>b
  <2>5. \E c \in backups' : c.round = status.round /\ c.indexed
    <3>1. PICK b \in CurrentBackups : b \in backups /\ b.round = status.round
      BY <1>2 DEF CurrentBackups
    <3>2. Written(b) \in backups'
      BY <2>b, <3>1
    <3> QED
      BY Zenon, <2>a, <3>1, <3>2
  <2>6. BackupShape'
    BY Zenon, <2>a, <2>b DEF BInv, BackupShape
  <2>7. PrevoteBackedUp'
    BY ZenonT(60), <1>2, <2>3, <2>4, <2>5 DEF BInv, PrevoteBackedUp
  <2>8. WritesUnsent' /\ FileBehind'
    BY <1>2, <2>1, <2>2, <2>3 DEF BInv, WritesUnsent, FileBehind, IsDown, WritingBackup
  <2> QED
    BY Zenon, <2>2, <2>6, <2>7, <2>8 DEF BInv
<1> QED
  BY Zenon, <1>1, <1>2 DEF WriteBackupIndex

\* The file follows the orchestrator.
LEMMA NextRoundBacked ==
    ASSUME IInv, BInv, PollNextRound
    PROVE  BInv'
<1>1. UNCHANGED <<index, backups>> /\ statusFile' = status'
      /\ (status' = status \/ status'.prevote = FALSE)
  BY DEF PollNextRound, VotingStatus
<1>2. task'.poll.step = "finalize" /\ NotifiesIndex'
  BY <1>1, PollMoves DEF PollNextRound
<1>3. PrevoteBackedUp'
  BY Zenon, <1>1 DEF BInv, PrevoteBackedUp
<1> QED
  BY Zenon, <1>1, <1>2, <1>3 DEF BInv, BackupShape, WritesUnsent, FileBehind, WritingBackup

\* A boot takes the voting status from its file.
LEMMA BootBacked ==
    ASSUME IInv, BInv, Boot, ~EnableRevoteOnBoot
    PROVE  BInv'
<1>1. UNCHANGED <<index, statusFile, backups>> /\ status' = statusFile
      /\ task' = [poll |-> [step |-> "idle"], pull |-> [step |-> "idle"]]
  BY Zenon DEF Boot, BootStatus, diskVars, Idle
<1>2. PrevoteBackedUp'
  BY Zenon, <1>1 DEF BInv, PrevoteBackedUp
<1> QED
  BY <1>1, <1>2 DEF BInv, BackupShape, WritesUnsent, FileBehind, NotifiesIndex, WritingBackup, Tasks

\* One step of the node or of its environment.
LEMMA BackedStep ==
    ASSUME IInv, BInv, [Next]_vars, ~EnableRevoteOnBoot
    PROVE  BInv'
<1>1. CASE Poll
  BY Zenon, <1>1, PollBacked, PollEpochBacked, CreateBackupBacked, WriteBackupBlocksBacked, WriteBackupIndexBacked,
      NextRoundBacked DEF Poll
<1>2. CASE Pull
  BY Zenon, <1>2, PullBacked
<1>3. ASSUME NEW t \in Tasks, Save(t)
      PROVE  BInv'
  BY Zenon, <1>3, SaveProofBacked, WriteProofBacked, WriteIndexBacked, NotifyBacked DEF Save
<1>4. CASE Decide \/ ReceiveVotes \/ ReceiveProof \/ Synchronize \/ PreprocessFork \/ Fork \/ Crash
  BY Zenon, <1>4, EnvironmentBacked
<1>5. CASE Boot
  BY Zenon, <1>5, BootBacked
<1>6. CASE UNCHANGED vars
  <2>1. UNCHANGED <<index, statusFile, status, backups, task>>
    BY Zenon, <1>6 DEF vars, diskVars
  <2> QED
    BY Zenon, <2>1, Quiet DEF BInv, NotifiesIndex, WritesUnsent, IsDown
<1> QED
  BY Zenon, <1>1, <1>2, <1>3, <1>4, <1>5, <1>6 DEF Next

\* As long as the round of a prevote that was sent or recorded is not final, its chain can be loaded: neither the proof
\* task, which removes backups, nor a crash while one is written, nor the next prevote takes it away.
THEOREM PrevotesStayBackedUp ==
    ASSUME ~EnableRevoteOnBoot
    PROVE  Spec => []PrevoteBackedUp
<1>1. Init => BInv
  BY Zenon, BackupInit
<1>2. IInv /\ BInv /\ [Next]_vars => BInv'
  BY Zenon, BackedStep
<1>3. BInv => PrevoteBackedUp
  BY DEF BInv
<1> QED
  BY <1>1, <1>2, <1>3, Inductive, PTL DEF Spec

-----------------------------------------------------------------------------
(* The proofs of the epochs that are over. *)

\* A proof of the network is within its epoch and has a file.
InEpoch(proof) ==
    /\ proof.height \in Nat \ {0} /\ proof.round \in AllRounds
    /\ proof.round[1] \in 1 .. MaxEpoch
    /\ proof.height <= VotingSetEndHeight(proof.round[1])

\* The last block of the epoch before is final.
Reached(epoch) == epoch >= 2 => VotingSetEndHeight(epoch - 1) <= index.height

\* What is stored and saved are proofs of the network.
ProofsTyped ==
    /\ proofs = [epoch \in 1 .. MaxEpoch |-> proofs[epoch]]
    /\ crashes \in Nat
    /\ InEpoch(index)
    /\ \A t \in Tasks : task[t].step \in Saving => InEpoch(task[t].proof)
    /\ \A m \in aggregator.held : m.height > 0 => InEpoch(m)
    /\ \A b \in backups : "round" \in DOMAIN b

\* What the tasks have read of the storage may be old; the proof task asks for an epoch only when the one before is over.
ReadsOld ==
    /\ task.poll.step = "epoch" => task.poll.statistics.height \in Nat /\ task.poll.statistics.height <= index.height
    /\ task.pull.step \in {"request", "response"} => task.pull.height \in Nat \ {0} /\ task.pull.height <= index.height
    /\ task.pull.step = "response" =>
        task.pull.epoch \in Nat /\ (task.pull.epoch >= 2 => VotingSetEndHeight(task.pull.epoch - 1) <= task.pull.height)

\* A node that has not jumped is in an epoch only when the one before is over, and so is what its aggregator takes.
EpochsReached ==
    /\ task.pull.step \in Saving => Reached(task.pull.proof.round[1])
    /\ ~jumped =>
        /\ Reached(index.round[1]) /\ Reached(status.round[1]) /\ Reached(statusFile.round[1])
        /\ Reached(aggregator.max[1])
        /\ task.poll.step \in Saving => Reached(task.poll.proof.round[1])

\* The file that a task is writing.
FilesWritten ==
    \A t \in Tasks :
        /\ task[t].step = "write" => proofs[task[t].proof.round[1]] = Truncated
        /\ task[t].step = "index" => proofs[task[t].proof.round[1]] = task[t].proof
        /\ task[t].step \in {"write", "index"} => task[t].proof.round[1] <= index.round[1] + 1

IsWriting(epoch) == \E t \in Tasks : task[t].step = "write" /\ task[t].proof.round[1] = epoch

\* The last block of the epoch has a proof, unless the node stopped while it wrote it again.
Proven(epoch) == proofs[epoch].height = VotingSetEndHeight(epoch) \/ (proofs[epoch] = Truncated /\ crashes > 0)

LastEpochProven ==
    index.height = VotingSetEndHeight(index.round[1]) /\ ~IsWriting(index.round[1]) => Proven(index.round[1])

\* A prevote whose backup is gone ends the process; then what the proof task is saving is new, as nothing but the proof
\* task has saved since the backup went.
LostBackup ==
    task.poll.step \in {"blocks", "backupIndex"} /\ CurrentBackups = {} =>
        /\ task.pull.step \in {"request", "response"} => task.pull.height >= index.height
        /\ task.pull.step \in {"save", "write", "index"} => task.pull.proof.height > index.height

\* Both tasks end with the process.
DownTogether == IsDown => task.pull.step = "down"

EInv ==
    /\ ProofsTyped /\ ReadsOld /\ EpochsReached
    /\ FilesWritten /\ LastEpochProven /\ LostBackup /\ DownTogether
    /\ EpochsProvenUnlessJumped

\* An epoch that was reached makes those before it over.
LEMMA ReachedBefore ==
    ASSUME NEW a \in Nat, NEW b \in Nat, a <= b, Reached(b), index.height \in Nat
    PROVE  Reached(a)
<1> SUFFICES ASSUME a >= 2 PROVE VotingSetEndHeight(a - 1) <= index.height
  BY Zenon DEF Reached
<1>1. a - 1 \in Nat \ {0} /\ b - 1 \in Nat \ {0} /\ a - 1 <= b - 1 /\ b >= 2
  OBVIOUS
<1>2. VotingSetEndHeight(a - 1) <= VotingSetEndHeight(b - 1) /\ VotingSetEndHeight(b - 1) <= index.height
  BY Zenon, <1>1, EpochEnds DEF Reached
<1>3. VotingSetEndHeight(a - 1) \in Nat /\ VotingSetEndHeight(b - 1) \in Nat
  BY Zenon, <1>1, EpochEnds
<1> QED
  BY <1>2, <1>3

\* What the network decides are proofs within their epochs.
LEMMA KnownInEpoch ==
    ASSUME IInv, NEW proof \in KnownProofs
    PROVE  InEpoch(proof)
<1>1. PICK k \in 1 .. decided : proof \in ProofsOf(k)
  BY Zenon DEF KnownProofs
<1>2. k \in DOMAIN Decided
  <2>1. Len(Decided) \in Nat /\ decided \in 0 .. Len(Decided) /\ DOMAIN Decided = 1 .. Len(Decided)
    BY FinalityAssumption DEF IInv
  <2> QED
    BY <2>1
<1>3. proof.round = Decided[k].round /\ proof.height \in Decided[k].heights
  BY <1>1 DEF ProofsOf, Proof
<1>4. /\ proof.round \in AllRounds /\ proof.round[1] <= MaxEpoch /\ proof.height \in Nat \ {0}
      /\ proof.height <= VotingSetEndHeight(proof.round[1]) /\ MaxEpoch \in Nat
  BY Zenon, <1>2, <1>3, LastEpochExists, DecidedAssumption
<1>5. proof.round[1] \in Nat
  BY Zenon, <1>4, RoundOrder
<1>6. proof.round[1] # 0
  <2>1. VotingSetEndHeight(0) = (0 - 1) * VotingSetGrouping /\ VotingSetGrouping \in Nat \ {0}
    BY FinalityAssumption DEF VotingSetEndHeight
  <2>2. VotingSetEndHeight(0) \in Int /\ VotingSetEndHeight(0) < 0
    BY <2>1
  <2>3. ASSUME proof.round[1] = 0 PROVE proof.height <= VotingSetEndHeight(0)
    BY Zenon, <1>4, <2>3
  <2> QED
    BY <1>4, <2>2, <2>3
<1> QED
  BY <1>4, <1>5, <1>6 DEF InEpoch

\* The nemesis block ends the first epoch.
LEMMA EpochsInit == Init => EInv
<1> SUFFICES ASSUME Init PROVE EInv
  BY Zenon
<1>1. /\ index = [round |-> <<1, 1>>, height |-> 1] /\ backups = {} /\ crashes = 0
      /\ statusFile = [round |-> <<2, 1>>, prevote |-> FALSE]
      /\ status \in {statusFile, [round |-> <<1, 2>>, prevote |-> FALSE]}
      /\ aggregator = [min |-> <<1, 1>>, max |-> <<1, 1>>, held |-> {}]
      /\ task = [poll |-> [step |-> "idle"], pull |-> [step |-> "idle"]]
      /\ proofs = [epoch \in 1 .. MaxEpoch |-> IF epoch = 1 THEN index ELSE Missing]
  BY DEF Init, NemesisProof, Proof, VotingStatus, BootStatus, Idle
<1>2. VotingSetEndHeight(1) = 1 /\ MaxEpoch \in Nat \ {0}
  BY Zenon, LastEpochExists DEF VotingSetEndHeight
<1>3. InEpoch(index)
  BY <1>1, <1>2 DEF InEpoch, AllRounds
<1>4. ProofsTyped
  BY <1>1, <1>3 DEF ProofsTyped, Tasks, Saving
<1>5. ReadsOld /\ FilesWritten /\ LostBackup /\ DownTogether
  BY <1>1 DEF ReadsOld, FilesWritten, LostBackup, DownTogether, IsDown, Tasks
<1>6. EpochsReached
  BY <1>1, <1>2 DEF EpochsReached, Reached, Saving
<1>7. LastEpochProven
  BY <1>1, <1>2 DEF LastEpochProven, Proven
<1>8. EpochsProvenUnlessJumped
  BY <1>1 DEF EpochsProvenUnlessJumped
<1> QED
  BY Zenon, <1>4, <1>5, <1>6, <1>7, <1>8 DEF EInv

\* Steps that write neither proofs nor the index: task t, which is not writing a proof, goes on to s.
LEMMA MoveProven ==
    ASSUME IInv, EInv, NEW t \in Tasks, NEW s, Goto(t, s), UNCHANGED <<proofs, index, crashes>>,
           task[t].step \notin {"write", "down"}, s.step \notin {"write", "index", "down"},
           s.step \in Saving => InEpoch(s.proof) /\ (t = "pull" \/ ~jumped' => Reached(s.proof.round[1])),
           \A m \in aggregator'.held : m.height > 0 => InEpoch(m),
           \A b \in backups' : "round" \in DOMAIN b,
           t = "poll" /\ s.step = "epoch" => s.statistics.height \in Nat /\ s.statistics.height <= index.height,
           t = "pull" /\ s.step \in {"request", "response"} => s.height \in Nat \ {0} /\ s.height <= index.height,
           t = "pull" /\ s.step = "response" =>
               s.epoch \in Nat /\ (s.epoch >= 2 => VotingSetEndHeight(s.epoch - 1) <= s.height),
           ~jumped' => /\ ~jumped /\ Reached(status'.round[1]) /\ Reached(statusFile'.round[1])
                       /\ Reached(aggregator'.max[1]),
           LostBackup'
    PROVE  EInv'
<1>1. task' = [u \in Tasks |-> IF u = t THEN s ELSE task[u]] /\ "poll" \in Tasks /\ "pull" \in Tasks
  BY ZenonT(60) DEF IInv, TasksInOrder, TaskShape, Goto, Tasks
<1>2. \A e : Reached(e)' <=> Reached(e)
  BY Zenon DEF Reached
<1>3. ProofsTyped'
  BY Zenon, <1>1 DEF EInv, ProofsTyped, InEpoch
<1>4. ReadsOld'
  BY ZenonT(60), <1>1 DEF EInv, ReadsOld
<1>5. EpochsReached'
  BY Zenon, <1>1, <1>2 DEF EInv, EpochsReached
<1>6. FilesWritten'
  BY Zenon, <1>1 DEF EInv, FilesWritten
<1>7. LastEpochProven'
  <2>1. IsWriting(index.round[1])' <=> IsWriting(index.round[1])
    BY Zenon, <1>1 DEF IsWriting
  <2> QED
    BY ZenonT(60), <2>1 DEF EInv, LastEpochProven, Proven
<1>8. EpochsProvenUnlessJumped'
  BY Zenon DEF EInv, EpochsProvenUnlessJumped
<1>9. DownTogether'
  BY Zenon, <1>1 DEF EInv, DownTogether, IsDown, Tasks
<1> QED
  BY Zenon, <1>3, <1>4, <1>5, <1>6, <1>7, <1>8, <1>9 DEF EInv

\* The process ends. When a file is cut off by that, it is by a crash, or the index is not at the end of the epoch.
LEMMA StopProven ==
    ASSUME IInv, EInv, Terminate, UNCHANGED jumped, crashes' \in Nat, crashes' >= crashes,
           crashes' > 0 \/ index.height # VotingSetEndHeight(index.round[1]) \/ ~IsWriting(index.round[1])
    PROVE  EInv'
<1>1. /\ task' = [poll |-> [step |-> "down"], pull |-> [step |-> "down"]]
      /\ UNCHANGED <<proofs, index, statusFile, backups, status, aggregator, jumped>>
  BY Zenon DEF Terminate, diskVars
<1>2. \A e : Reached(e)' <=> Reached(e)
  BY Zenon, <1>1 DEF Reached
<1>3. crashes \in Nat
  BY Zenon DEF EInv, ProofsTyped
<1>4. \A e : Proven(e) => Proven(e)'
  BY <1>1, <1>3 DEF Proven
<1>5. ProofsTyped'
  BY <1>1 DEF EInv, ProofsTyped, InEpoch, Tasks, Saving
<1>6. ReadsOld' /\ FilesWritten' /\ LostBackup' /\ DownTogether'
  BY <1>1 DEF ReadsOld, FilesWritten, LostBackup, DownTogether, Tasks
<1>7. EpochsReached'
  <2>1. task'.poll.step \notin Saving /\ task'.pull.step \notin Saving
    BY Zenon, <1>1 DEF Saving
  <2>2. ~jumped => /\ Reached(index.round[1]) /\ Reached(status.round[1]) /\ Reached(statusFile.round[1])
                   /\ Reached(aggregator.max[1])
    BY Zenon DEF EInv, EpochsReached
  <2> QED
    BY <1>1, <2>1, <2>2 DEF EpochsReached, Reached
<1>8. LastEpochProven'
  <2>1. CASE IsWriting(index.round[1]) /\ crashes' > 0
    BY ZenonT(60), <1>1, <2>1 DEF EInv, FilesWritten, IsWriting, LastEpochProven, Proven
  <2>2. CASE ~IsWriting(index.round[1])
    BY ZenonT(60), <1>1, <1>4, <2>2 DEF EInv, LastEpochProven
  <2>3. CASE index.height # VotingSetEndHeight(index.round[1])
    BY ZenonT(60), <1>1, <2>3 DEF LastEpochProven
  <2> QED
    BY Zenon, <2>1, <2>2, <2>3
<1>9. EpochsProvenUnlessJumped'
  BY <1>1, <1>3 DEF EInv, EpochsProvenUnlessJumped
<1> QED
  BY Zenon, <1>5, <1>6, <1>7, <1>8, <1>9 DEF EInv

\* A task that goes on while nothing else changes but what was voted and backed up.
LEMMA PollMoveProven ==
    ASSUME IInv, EInv, NEW s, Goto("poll", s), UNCHANGED <<proofs, index, crashes, jumped, aggregator>>,
           task.poll.step \notin {"write", "down"}, s.step \notin Saving \union {"down", "epoch"},
           status'.round[1] = status.round[1],
           statusFile' = statusFile \/ statusFile' = status',
           \A b \in backups' : "round" \in DOMAIN b,
           LostBackup'
    PROVE  EInv'
<1>1. /\ "poll" \in Tasks /\ "poll" # "pull" /\ s.step \notin {"write", "index", "down"}
      /\ task["poll"].step \notin {"write", "down"}
  BY Zenon DEF Tasks, Saving
<1>2. ~jumped' => /\ ~jumped /\ Reached(status'.round[1]) /\ Reached(statusFile'.round[1])
                  /\ Reached(aggregator'.max[1])
  BY Zenon DEF EInv, EpochsReached
<1>3. \A m \in aggregator'.held : m.height > 0 => InEpoch(m)
  BY Zenon DEF EInv, ProofsTyped
<1> QED
  BY Zenon, <1>1, <1>2, <1>3, MoveProven

\* A poll that reads the statistics, votes or goes on to the next round.
LEMMA PollProven ==
    ASSUME IInv, EInv, PollStatistics \/ PollPrevote \/ PollNextRound
    PROVE  EInv'
<1>1. \A b \in backups : "round" \in DOMAIN b
  BY Zenon DEF EInv, ProofsTyped
<1>2. task' = [u \in Tasks |-> IF u = "poll" THEN task'.poll ELSE task[u]] /\ "poll" \in Tasks
  BY Zenon DEF PollStatistics, PollPrevote, PollNextRound, IInv, TasksInOrder, TaskShape, Goto, Tasks
<1>3. CASE PollStatistics
  <2> DEFINE s == [step |-> "epoch", statistics |-> index]
  <2>1. /\ Goto("poll", s) /\ task["poll"].step = "idle"
        /\ UNCHANGED <<proofs, index, crashes, jumped, aggregator, status, statusFile, backups>>
    BY Zenon, <1>3 DEF PollStatistics, diskVars
  <2>2. s.step = "epoch" /\ s.statistics = index
    BY Zenon
  <2>3. index.height \in Nat /\ index.height <= index.height
    BY DEF EInv, ProofsTyped, InEpoch
  <2>4. LostBackup'
    BY Zenon, <1>2, <2>1, <2>2 DEF LostBackup, Goto
  <2>5. ~jumped' => /\ ~jumped /\ Reached(status'.round[1]) /\ Reached(statusFile'.round[1])
                    /\ Reached(aggregator'.max[1])
    BY Zenon, <2>1 DEF EInv, EpochsReached
  <2>6. \A m \in aggregator'.held : m.height > 0 => InEpoch(m)
    BY Zenon, <2>1 DEF EInv, ProofsTyped
  <2> HIDE DEF s
  <2> QED
    BY ZenonT(60), <1>1, <1>2, <2>1, <2>2, <2>3, <2>4, <2>5, <2>6, MoveProven DEF Saving
<1>4. CASE PollPrevote
  <2> DEFINE s == [step |-> "backup", first |-> index.height]
  <2>1. /\ Goto("poll", s) /\ task.poll.step = "vote"
        /\ UNCHANGED <<proofs, index, crashes, jumped, aggregator, status, statusFile, backups>>
    BY Zenon, <1>4 DEF PollPrevote, diskVars
  <2>2. s.step = "backup"
    BY Zenon
  <2>3. LostBackup'
    BY Zenon, <1>2, <2>1, <2>2 DEF LostBackup, Goto
  <2> HIDE DEF s
  <2> QED
    BY Zenon, <1>1, <2>1, <2>2, <2>3, PollMoveProven DEF Saving
<1>5. CASE PollNextRound
  <2> DEFINE s == [step |-> "finalize"]
  <2>1. /\ Goto("poll", s) /\ task.poll.step \in {"vote", "nextRound"} /\ statusFile' = status'
        /\ UNCHANGED <<proofs, index, crashes, jumped, aggregator, backups>>
        /\ (status' = status \/ status' = [round |-> <<status.round[1], status.round[2] + 1>>, prevote |-> FALSE])
    BY Zenon, <1>5 DEF PollNextRound, VotingStatus
  <2>2. s.step = "finalize"
    BY Zenon
  <2>3. LostBackup'
    BY Zenon, <1>2, <2>1, <2>2 DEF LostBackup, Goto
  <2> HIDE DEF s
  <2>4. status'.round[1] = status.round[1]
    BY <2>1
  <2> QED
    BY Zenon, <1>1, <2>1, <2>2, <2>3, <2>4, PollMoveProven DEF Saving
<1> QED
  BY Zenon, <1>3, <1>4, <1>5

\* A prevote whose backup is gone does not end the process while the last proof of an epoch is rewritten.
LEMMA LostBackupProven ==
    ASSUME IInv, EInv, task.poll.step \in {"blocks", "backupIndex"}, CurrentBackups = {}, Terminate,
           UNCHANGED <<jumped, crashes>>
    PROVE  EInv'
<1>1. ASSUME IsWriting(index.round[1]) PROVE index.height # VotingSetEndHeight(index.round[1])
  <2>1. PICK t \in Tasks : task[t].step = "write" /\ task[t].proof.round[1] = index.round[1]
    BY Zenon, <1>1 DEF IsWriting
  <2>2. t = "pull"
    BY Zenon, <2>1 DEF Tasks
  <2>3. task.pull.proof.height > index.height
    BY Zenon, <2>1, <2>2 DEF EInv, LostBackup
  <2>4. InEpoch(task.pull.proof) /\ index.height \in Nat /\ index.round \in AllRounds
    BY Zenon, <2>1, <2>2 DEF EInv, ProofsTyped, Saving, InEpoch
  <2>5. VotingSetEndHeight(index.round[1]) >= task.pull.proof.height /\ task.pull.proof.height \in Nat
    BY Zenon, <2>1, <2>2, <2>4 DEF InEpoch
  <2>6. index.round[1] \in Nat \ {0}
    BY LastEpochExists DEF EInv, ProofsTyped, InEpoch
  <2>7. VotingSetEndHeight(index.round[1]) \in Nat
    BY Zenon, <2>6, EpochEnds
  <2> QED
    BY <2>3, <2>4, <2>5, <2>7
<1>2. crashes' \in Nat /\ crashes' >= crashes
  BY DEF EInv, ProofsTyped
<1> QED
  BY Zenon, <1>1, <1>2, StopProven

\* The backup of a prevote.
LEMMA BackupProven ==
    ASSUME IInv, EInv, CreateBackup \/ WriteBackupBlocks \/ WriteBackupIndex
    PROVE  EInv'
<1>1. \A b \in backups : "round" \in DOMAIN b
  BY Zenon DEF EInv, ProofsTyped
<1>2. CASE CreateBackup
  <2>1. /\ UNCHANGED <<proofs, index, crashes, jumped, aggregator, status, statusFile>> /\ task.poll.step = "backup"
    BY ZenonT(60), <1>2 DEF CreateBackup
  <2>2. PICK s : Goto("poll", s) /\ s.step = "blocks"
    BY <1>2 DEF CreateBackup
  <2>3. \E b \in backups' : b.round = status.round
    <3>1. PICK b : b = [round |-> status.round, first |-> task.poll.first, last |-> task.poll.first - 1, main |-> chain.main,
                        indexed |-> FALSE]
      BY Zenon
    <3>2. b \in backups'
      BY Zenon, <1>2, <3>1 DEF CreateBackup
    <3>3. b.round = status.round
      BY Zenon, <3>1
    <3> QED
      BY Zenon, <3>2, <3>3
  <2>4. LostBackup'
    BY Zenon, <2>1, <2>3 DEF LostBackup, CurrentBackups
  <2>5. \A b \in backups' : "round" \in DOMAIN b
    BY <1>1, <1>2 DEF CreateBackup
  <2> QED
    BY Zenon, <2>1, <2>2, <2>4, <2>5, PollMoveProven DEF Saving
<1>3. CASE WriteBackupBlocks \/ WriteBackupIndex
  <2>1. task.poll.step \in {"blocks", "backupIndex"} /\ UNCHANGED <<crashes, jumped>>
    BY Zenon, <1>3 DEF WriteBackupBlocks, WriteBackupIndex
  <2>2. CASE CurrentBackups = {}
    BY Zenon, <1>3, <2>1, <2>2, LostBackupProven DEF WriteBackupBlocks, WriteBackupIndex
  <2>3. CASE CurrentBackups # {}
    <3>1. UNCHANGED <<proofs, index, aggregator, statusFile>>
      BY Zenon, <1>3, <2>3 DEF WriteBackupBlocks, WriteBackupIndex
    <3>2. status' = status \/ status' = [status EXCEPT !.prevote = TRUE]
      BY Zenon, <1>3, <2>3 DEF WriteBackupBlocks, WriteBackupIndex
    <3>3. status'.round = status.round
      BY Zenon, <3>2 DEF IInv, StatusInOrder, IsStatusInOrder
    <3>4. PICK s : Goto("poll", s) /\ s.step \in {"backupIndex", "nextRound"}
      BY <1>3, <2>3 DEF WriteBackupBlocks, WriteBackupIndex
    <3>5. \A b \in backups' : "round" \in DOMAIN b
      BY <1>1, <1>3, <2>3 DEF WriteBackupBlocks, WriteBackupIndex, CurrentBackups
    <3>6. \E b \in backups' : b.round = status.round
      <4>1. PICK b \in CurrentBackups : TRUE
        BY Zenon, <2>3
      <4>2. b \in backups /\ b.round = status.round /\ "round" \in DOMAIN b
        BY Zenon, <1>1, <4>1 DEF CurrentBackups
      <4>3. \/ [b EXCEPT !.last = task.poll.last] \in backups'
            \/ [b EXCEPT !.indexed = TRUE] \in backups'
        BY Zenon, <1>3, <2>3, <4>1 DEF WriteBackupBlocks, WriteBackupIndex
      <4> QED
        BY Zenon, <4>2, <4>3
    <3>7. LostBackup'
      BY Zenon, <3>3, <3>6 DEF LostBackup, CurrentBackups
    <3> QED
      BY Zenon, <2>1, <3>1, <3>3, <3>4, <3>5, <3>7, PollMoveProven DEF Saving
  <2> QED
    BY Zenon, <2>2, <2>3
<1> QED
  BY Zenon, <1>2, <1>3

\* A poll that enters an epoch has read that the one before is over, or it has jumped.
LEMMA PollEpochProven ==
    ASSUME IInv, EInv, PollEpoch
    PROVE  EInv'
<1> DEFINE statistics == task.poll.statistics
           entered == [round |-> <<statistics.round[1] + 1, 1>>, prevote |-> FALSE]
<1>1. UNCHANGED <<proofs, index, statusFile, backups, crashes>> /\ task.poll.step = "epoch"
  BY Zenon DEF PollEpoch, diskVars
<1>2. PICK s : Goto("poll", s) /\ s.step \in {"idle", "vote"}
  BY DEF PollEpoch, Idle
<1>3. task' = [u \in Tasks |-> IF u = "poll" THEN s ELSE task[u]] /\ "poll" \in Tasks
  BY Zenon, <1>2 DEF IInv, TasksInOrder, TaskShape, Goto, Tasks
<1>4. LostBackup'
  BY Zenon, <1>2, <1>3 DEF LostBackup
<1>5. /\ ~jumped' => ~jumped
      /\ ~jumped' /\ status' # status =>
             status' = entered /\ statistics.height = VotingSetEndHeight((statistics.round[1] + 1) - 1)
  <2>1. CASE UNCHANGED <<status, jumped>>
    BY Zenon, <2>1
  <2>2. CASE \E newStatus \in {status, entered} :
                 /\ status' = newStatus
                 /\ jumped' = (jumped \/ (newStatus # status /\ statistics.height # VotingSetEndHeight((statistics.round[1] + 1) - 1)))
    <3> HIDE DEF entered, statistics
    <3> QED
      BY Zenon, <2>2
  <2>3. ASSUME ~UNCHANGED <<status, jumped>>
        PROVE  \E newStatus \in {status, entered} :
                   /\ status' = newStatus
                   /\ jumped' = (jumped \/ (newStatus # status /\ statistics.height # VotingSetEndHeight((statistics.round[1] + 1) - 1)))
    <3>1. PICK newStatus :
              newStatus = IF EpochStatus(status.round[1], statistics) = "Advance" /\ statistics.round[1] + 1 # status.round[1]
                          THEN entered ELSE status
      BY Zenon
    <3>2. newStatus \in {status, entered}
      BY Zenon, <3>1
    <3>3. /\ status' = newStatus
          /\ jumped' = (jumped \/ (newStatus # status /\ statistics.height # VotingSetEndHeight((statistics.round[1] + 1) - 1)))
      BY Zenon, <2>3, <3>1 DEF PollEpoch, VotingStatus
    <3> QED
      BY Zenon, <3>2, <3>3
  <2> QED
    BY Zenon, <2>1, <2>2, <2>3
<1>6. aggregator'.held = aggregator.held /\ (aggregator'.max = aggregator.max \/ aggregator'.max = status'.round)
  BY Zenon DEF PollEpoch, SetMaxFinalizationRound, IInv, AggregatorInOrder
<1>7. ASSUME ~jumped' PROVE ~jumped /\ Reached(status'.round[1])
  <2>1. ~jumped /\ Reached(status.round[1])
    BY Zenon, <1>5, <1>7 DEF EInv, EpochsReached
  <2>2. CASE status' = status
    BY Zenon, <2>1, <2>2
  <2>3. CASE status' # status
    <3>1. statistics.height <= index.height
      BY Zenon, <1>1 DEF EInv, ReadsOld
    <3>2. status'.round[1] = statistics.round[1] + 1 /\ statistics.height = VotingSetEndHeight((statistics.round[1] + 1) - 1)
      BY <1>5, <1>7, <2>3
    <3> HIDE DEF statistics, entered
    <3>3. PICK epoch : epoch = statistics.round[1] + 1
      BY Zenon
    <3>4. VotingSetEndHeight(epoch - 1) <= index.height /\ status'.round[1] = epoch
      BY Zenon, <3>1, <3>2, <3>3
    <3> QED
      BY Zenon, <2>1, <3>4 DEF Reached
  <2> QED
    BY Zenon, <2>2, <2>3
<1>8. ~jumped' => /\ ~jumped /\ Reached(status'.round[1]) /\ Reached(statusFile'.round[1])
                  /\ Reached(aggregator'.max[1])
  BY Zenon, <1>1, <1>6, <1>7 DEF EInv, EpochsReached
<1>9. /\ \A m \in aggregator'.held : m.height > 0 => InEpoch(m)
      /\ \A b \in backups' : "round" \in DOMAIN b
  BY Zenon, <1>1, <1>6 DEF EInv, ProofsTyped
<1>10. task["poll"].step \notin {"write", "down"} /\ s.step \notin Saving \union {"write", "index", "down", "epoch"}
  BY Zenon, <1>1, <1>2 DEF Saving
<1> QED
  BY Zenon, <1>1, <1>2, <1>3, <1>4, <1>8, <1>9, <1>10, MoveProven

\* The finalizer has messages of epochs that the node has entered.
LEMMA FinalizeProven ==
    ASSUME IInv, EInv, Finalize
    PROVE  EInv'
<1>1. /\ UNCHANGED <<proofs, index, statusFile, backups, crashes, jumped, aggregator, status>>
      /\ task.poll.step = "finalize" /\ "poll" \in Tasks
  BY Zenon DEF Finalize, diskVars, Tasks
<1>2. /\ \A b \in backups' : "round" \in DOMAIN b
      /\ \A m \in aggregator'.held : m.height > 0 => InEpoch(m)
      /\ ~jumped' => /\ ~jumped /\ Reached(status'.round[1]) /\ Reached(statusFile'.round[1])
                     /\ Reached(aggregator'.max[1])
  BY Zenon, <1>1 DEF EInv, ProofsTyped, EpochsReached
<1>3. ASSUME NEW s, Goto("poll", s), s.step \in {"idle", "save"} PROVE LostBackup'
  <2>1. task'.poll = s
    BY Zenon, <1>3 DEF IInv, TasksInOrder, TaskShape, Goto, Tasks
  <2> QED
    BY Zenon, <1>3, <2>1 DEF LostBackup
<1>4. CASE Goto("poll", Idle)
  <2>1. Idle.step = "idle"
    BY Zenon DEF Idle
  <2> QED
    BY Zenon, <1>1, <1>2, <1>3, <1>4, <2>1, PollMoveProven DEF Saving
<1>5. ASSUME NEW m \in BestPrecommits, Goto("poll", [step |-> "save", proof |-> m]) PROVE EInv'
  <2> DEFINE s == [step |-> "save", proof |-> m]
  <2>1. m \in aggregator.held /\ m.height > 0 /\ InEpoch(m)
    BY Zenon DEF BestPrecommits, EInv, ProofsTyped
  <2>2. m.round[1] <= aggregator.max[1] /\ m.round[1] \in Nat /\ aggregator.max[1] \in Nat
    <3>1. m.round \in AllRounds /\ aggregator.max \in AllRounds /\ ~RoundLess(aggregator.max, m.round)
      BY Zenon, <2>1 DEF IInv, AggregatorInOrder, CanAdd
    <3> QED
      BY Zenon, <3>1, RoundOrder
  <2>3. index.height \in Nat
    BY Zenon DEF EInv, ProofsTyped, InEpoch
  <2>4. ~jumped => Reached(m.round[1])
    BY Zenon, <2>2, <2>3, ReachedBefore DEF EInv, EpochsReached
  <2>5. s.step = "save" /\ s.proof = m
    BY Zenon
  <2>6. LostBackup'
    BY Zenon, <1>3, <1>5, <2>5
  <2> HIDE DEF s
  <2>7. Goto("poll", s)
    BY Zenon, <1>5 DEF s
  <2> QED
    BY Zenon, <1>1, <1>2, <2>1, <2>4, <2>5, <2>6, <2>7, MoveProven
<1> QED
  BY Zenon, <1>4, <1>5 DEF Finalize

\* The proof task asks for epochs that are reached and saves proofs of them.
LEMMA PullProven ==
    ASSUME IInv, EInv, Pull
    PROVE  EInv'
<1>1. /\ UNCHANGED <<proofs, index, statusFile, backups, crashes, jumped, aggregator, status>>
      /\ task.pull.step \in {"idle", "request", "response"} /\ "pull" \in Tasks
  BY Zenon DEF Pull, PullStatistics, PullRequest, PullProof, PullNothing, diskVars, Tasks
<1>2. /\ \A b \in backups' : "round" \in DOMAIN b
      /\ \A m \in aggregator'.held : m.height > 0 => InEpoch(m)
      /\ ~jumped' => /\ ~jumped /\ Reached(status'.round[1]) /\ Reached(statusFile'.round[1])
                     /\ Reached(aggregator'.max[1])
  BY Zenon, <1>1 DEF EInv, ProofsTyped, EpochsReached
<1>3. index.height \in Nat \ {0}
  BY Zenon DEF EInv, ProofsTyped, InEpoch
<1>4. ASSUME NEW s, Goto("pull", s),
             s.step \in {"request", "response"} => s.height >= index.height \/ ~(CurrentBackups = {})
                                                   \/ task.poll.step \notin {"blocks", "backupIndex"},
             s.step \in {"save", "write", "index"} => s.proof.height > index.height \/ ~(CurrentBackups = {})
                                                   \/ task.poll.step \notin {"blocks", "backupIndex"}
      PROVE  LostBackup'
  <2>1. task'.pull = s /\ task'.poll = task.poll /\ CurrentBackups' = CurrentBackups
    BY Zenon, <1>1, <1>4 DEF IInv, TasksInOrder, TaskShape, Goto, Tasks, CurrentBackups
  <2> QED
    BY Zenon, <1>1, <1>4, <2>1 DEF LostBackup
<1>5. ASSUME Goto("pull", Idle) PROVE EInv'
  <2>1. Idle.step = "idle"
    BY DEF Idle
  <2>2. LostBackup'
    BY Zenon, <1>4, <1>5, <2>1
  <2> QED
    BY Zenon, <1>1, <1>2, <1>5, <2>1, <2>2, MoveProven DEF Saving
<1>6. CASE PullStatistics
  <2> DEFINE s == [step |-> "request", height |-> index.height]
  <2>1. Goto("pull", s) /\ s.step = "request" /\ s.height = index.height
    BY Zenon, <1>6 DEF PullStatistics
  <2> HIDE DEF s
  <2>2. s.height <= index.height /\ s.height >= index.height /\ s.height \in Nat \ {0}
    BY <1>3, <2>1
  <2>3. LostBackup'
    BY Zenon, <1>4, <2>1, <2>2
  <2> QED
    BY Zenon, <1>1, <1>2, <2>1, <2>2, <2>3, MoveProven DEF Saving
<1>7. CASE PullRequest
  <2>1. CASE RequestEpoch(task.pull.height) = 0
    BY Zenon, <1>5, <1>7, <2>1 DEF PullRequest
  <2>2. CASE RequestEpoch(task.pull.height) # 0
    <3> DEFINE s == [step |-> "response", height |-> task.pull.height, epoch |-> RequestEpoch(task.pull.height)]
    <3>1. Goto("pull", s) /\ task.pull.step = "request"
      BY Zenon, <1>7, <2>2 DEF PullRequest
    <3>2. s.step = "response" /\ s.height = task.pull.height /\ s.epoch = RequestEpoch(task.pull.height)
      BY Zenon
    <3> HIDE DEF s
    <3>3. task.pull.height \in Nat \ {0} /\ task.pull.height <= index.height
      BY Zenon, <3>1 DEF EInv, ReadsOld
    <3>4. s.epoch \in Nat /\ VotingSetEndHeight(s.epoch - 1) <= s.height
      BY Zenon, <2>2, <3>2, <3>3, RequestsReached
    <3>5. LostBackup'
      BY Zenon, <1>4, <3>1, <3>2 DEF EInv, LostBackup
    <3> QED
      BY ZenonT(60), <1>1, <1>2, <3>1, <3>2, <3>3, <3>4, <3>5, MoveProven DEF Saving
  <2> QED
    BY Zenon, <2>1, <2>2
<1>8. CASE PullProof
  <2>1. PICK proof \in KnownProofs : /\ proof.round[1] = task.pull.epoch
                                     /\ proof.height > task.pull.height
                                     /\ Goto("pull", [step |-> "save", proof |-> proof])
    BY Zenon, <1>8 DEF PullProof
  <2> DEFINE s == [step |-> "save", proof |-> proof]
  <2>2. Goto("pull", s) /\ s.step = "save" /\ s.proof = proof /\ task.pull.step = "response"
    BY Zenon, <1>8, <2>1 DEF PullProof
  <2> HIDE DEF s
  <2>3. InEpoch(proof)
    BY Zenon, KnownInEpoch
  <2>4. /\ task.pull.height \in Nat /\ task.pull.height <= index.height /\ task.pull.epoch \in Nat
        /\ task.pull.epoch >= 2 => VotingSetEndHeight(task.pull.epoch - 1) <= task.pull.height
    BY Zenon, <2>2 DEF EInv, ReadsOld
  <2>5. Reached(proof.round[1])
    <3> SUFFICES ASSUME task.pull.epoch >= 2 PROVE VotingSetEndHeight(task.pull.epoch - 1) <= index.height
      BY Zenon, <2>1 DEF Reached
    <3>1. task.pull.epoch - 1 \in Nat \ {0}
      BY <2>4
    <3>2. VotingSetEndHeight(task.pull.epoch - 1) \in Nat
      BY Zenon, <3>1, EpochEnds
    <3> QED
      BY <1>3, <2>4, <3>2
  <2>6. proof.height \in Nat
    BY Zenon, <2>3 DEF InEpoch
  <2>7. ASSUME task.poll.step \in {"blocks", "backupIndex"}, CurrentBackups = {} PROVE proof.height > index.height
    <3>1. task.pull.height >= index.height
      BY Zenon, <2>2, <2>7 DEF EInv, LostBackup
    <3> QED
      BY <1>3, <2>1, <2>4, <2>6, <3>1
  <2>8. LostBackup'
    BY Zenon, <1>4, <2>2, <2>7
  <2> QED
    BY Zenon, <1>1, <1>2, <2>2, <2>3, <2>5, <2>8, MoveProven
<1>9. CASE PullNothing
  BY Zenon, <1>5, <1>9 DEF PullNothing
<1> QED
  BY Zenon, <1>6, <1>7, <1>8, <1>9 DEF Pull

\* A save that ends without a write.
LEMMA AfterSaveProven ==
    ASSUME IInv, EInv, NEW t \in Tasks, AfterSave(t), task[t].step \in {"save", "notify"},
           UNCHANGED <<proofs, index, statusFile, status, crashes, jumped>>, backups' \subseteq backups
    PROVE  EInv'
<1>1. Goto(t, Idle) /\ Idle.step = "idle"
  BY Zenon DEF AfterSave, Idle
<1>2. aggregator'.held \subseteq aggregator.held /\ aggregator'.max = aggregator.max
  BY Zenon DEF AfterSave, Prune, IInv, AggregatorInOrder
<1>3. task' = [u \in Tasks |-> IF u = t THEN Idle ELSE task[u]] /\ "poll" \in Tasks /\ "pull" \in Tasks
  BY Zenon, <1>1 DEF IInv, TasksInOrder, TaskShape, Goto, Tasks
<1>4. LostBackup'
  BY Zenon, <1>1, <1>3 DEF LostBackup, Tasks
<1>5. /\ \A b \in backups' : "round" \in DOMAIN b
      /\ \A m \in aggregator'.held : m.height > 0 => InEpoch(m)
      /\ ~jumped' => /\ ~jumped /\ Reached(status'.round[1]) /\ Reached(statusFile'.round[1])
                     /\ Reached(aggregator'.max[1])
  BY Zenon, <1>2 DEF EInv, ProofsTyped, EpochsReached
<1> QED
  BY Zenon, <1>1, <1>4, <1>5, MoveProven DEF Saving

\* An exception while nothing is being written.
LEMMA ThrowProven ==
    ASSUME IInv, EInv, NEW t \in Tasks, Throw(t), UNCHANGED <<crashes, jumped>>,
           task[t].step \in {"save", "notify"}, \A u \in Tasks : task[u].step # "write"
    PROVE  EInv'
<1>1. CASE t = "poll"
  <2>1. ~IsWriting(index.round[1]) /\ crashes' \in Nat /\ crashes' >= crashes
    BY DEF IsWriting, EInv, ProofsTyped
  <2> QED
    BY Zenon, <1>1, <2>1, StopProven DEF Throw
<1>2. CASE t # "poll"
  <2> DEFINE s == [step |-> "stopped"]
  <2>1. /\ Goto(t, s) /\ s.step = "stopped"
        /\ UNCHANGED <<proofs, index, statusFile, backups, aggregator, status>>
    BY Zenon, <1>2 DEF Throw, diskVars
  <2> HIDE DEF s
  <2>2. task' = [u \in Tasks |-> IF u = t THEN s ELSE task[u]] /\ t = "pull"
    BY Zenon, <1>2, <2>1 DEF IInv, TasksInOrder, TaskShape, Goto, Tasks
  <2>3. LostBackup'
    BY Zenon, <2>1, <2>2 DEF LostBackup, Tasks
  <2>4. /\ \A b \in backups' : "round" \in DOMAIN b
        /\ \A m \in aggregator'.held : m.height > 0 => InEpoch(m)
        /\ ~jumped' => /\ ~jumped /\ Reached(status'.round[1]) /\ Reached(statusFile'.round[1])
                       /\ Reached(aggregator'.max[1])
    BY Zenon, <2>1 DEF EInv, ProofsTyped, EpochsReached
  <2> QED
    BY Zenon, <2>1, <2>3, <2>4, MoveProven DEF Saving
<1> QED
  BY Zenon, <1>1, <1>2

\* The file of the epoch of a proof is opened: the epoch of the storage or the one after it, and none before.
LEMMA SaveProofProven ==
    ASSUME IInv, EInv, NEW t \in Tasks, SaveProof(t)
    PROVE  EInv'
<1> DEFINE proof == task[t].proof
           e == proof.round[1]
           i == index.round[1]
<1>1. task[t].step = "save" /\ UNCHANGED <<crashes, jumped>>
      /\ \A u \in Tasks : task[u].step \notin {"write", "index", "notify"}
  BY Zenon DEF SaveProof, Locked
<1>2. CASE RoundLess(proof.round, index.round) /\ AfterSave(t) /\ UNCHANGED <<diskVars, status>>
  BY Zenon, <1>1, <1>2, AfterSaveProven DEF diskVars
<1>3. CASE Throw(t)
  BY Zenon, <1>1, <1>3, ThrowProven
<1>4. CASE /\ CanSave(proof)
           /\ proofs' = [proofs EXCEPT ![proof.round[1]] = Truncated]
           /\ Goto(t, [task[t] EXCEPT !.step = "write"])
           /\ UNCHANGED <<index, statusFile, backups, status, aggregator>>
  <2> DEFINE s == [task[t] EXCEPT !.step = "write"]
  <2>1. /\ s.step = "write" /\ s.proof = proof
        /\ task' = [u \in Tasks |-> IF u = t THEN s ELSE task[u]] /\ "poll" \in Tasks /\ "pull" \in Tasks
    BY Zenon, <1>1, <1>4 DEF IInv, TasksInOrder, TaskShape, Saving, Goto, Tasks
  <2>2. InEpoch(proof) /\ InEpoch(index)
    BY Zenon, <1>1 DEF EInv, ProofsTyped, Saving
  <2>3. e \in Nat /\ i \in Nat /\ i <= e /\ e <= i + 1 /\ e \in 1 .. MaxEpoch
    BY Zenon, <1>4, <2>2, RoundOrder DEF CanSave, InEpoch
  <2> HIDE DEF s
  <2>4. /\ proofs' = [epoch \in 1 .. MaxEpoch |-> IF epoch = e THEN Truncated ELSE proofs[epoch]]
        /\ UNCHANGED <<index, statusFile, backups, status, aggregator>>
    BY Zenon, <1>4 DEF EInv, ProofsTyped
  <2> HIDE DEF e, i
  <2>5. \A x : Reached(x)' <=> Reached(x)
    BY Zenon, <2>4 DEF Reached
  <2>6. ProofsTyped'
    BY Zenon, <1>1, <2>1, <2>2, <2>4 DEF EInv, ProofsTyped, InEpoch, Saving
  <2>7. ReadsOld'
    BY ZenonT(60), <1>1, <2>1, <2>4 DEF EInv, ReadsOld
  <2>8. EpochsReached'
    BY Zenon, <1>1, <2>1, <2>4, <2>5 DEF EInv, EpochsReached, Saving
  <2>9. FilesWritten'
    BY Zenon, <1>1, <2>1, <2>3, <2>4 DEF FilesWritten, e, i
  <2>10. LastEpochProven'
    <3>1. CASE e = i
      BY Zenon, <2>1, <2>4, <3>1 DEF LastEpochProven, IsWriting, e, i
    <3>2. CASE e # i
      <4>1. ~IsWriting(i)
        BY Zenon, <1>1 DEF IsWriting
      <4>2. proofs'[i] = proofs[i] /\ index' = index
        BY ZenonT(60), <2>2, <2>4, <3>2 DEF InEpoch, i
      <4> QED
        BY Zenon, <1>1, <4>1, <4>2 DEF EInv, LastEpochProven, Proven, i
    <3> QED
      BY Zenon, <3>1, <3>2
  <2>11. EpochsProvenUnlessJumped'
    <3>1. i \in 1 .. MaxEpoch /\ MaxEpoch \in Nat
      BY Zenon, <2>2, LastEpochExists DEF InEpoch, i
    <3>2. \A x \in 1 .. i - 1 : x \in 1 .. MaxEpoch /\ x # e
      BY <2>3, <3>1
    <3>3. \A x \in 1 .. i - 1 : proofs'[x] = proofs[x]
      BY Zenon, <2>4, <3>2
    <3> QED
      BY ZenonT(60), <1>1, <2>4, <3>3 DEF EInv, EpochsProvenUnlessJumped, i
  <2>12. LostBackup'
    BY Zenon, <1>1, <2>1, <2>4 DEF EInv, LostBackup, CurrentBackups, Tasks
  <2>13. DownTogether'
    BY Zenon, <1>1, <2>1 DEF EInv, DownTogether, IsDown, Tasks
  <2> QED
    BY Zenon, <2>6, <2>7, <2>8, <2>9, <2>10, <2>11, <2>12, <2>13 DEF EInv
<1> QED
  BY Zenon, <1>2, <1>3, <1>4 DEF SaveProof

\* The proof is written. It does not finalize less than the index.
LEMMA WriteProofProven ==
    ASSUME IInv, EInv, NEW t \in Tasks, WriteProof(t)
    PROVE  EInv'
<1> DEFINE proof == task[t].proof
           e == proof.round[1]
           i == index.round[1]
           s == [task[t] EXCEPT !.step = "index"]
<1>1. /\ task[t].step = "write"
      /\ UNCHANGED <<index, statusFile, backups, status, aggregator, jumped, crashes>>
  BY Zenon DEF WriteProof
<1>2. /\ s.step = "index" /\ s.proof = proof
      /\ task' = [u \in Tasks |-> IF u = t THEN s ELSE task[u]] /\ "poll" \in Tasks /\ "pull" \in Tasks
  BY Zenon, <1>1 DEF IInv, TasksInOrder, TaskShape, Saving, Goto, WriteProof, Tasks
<1> HIDE DEF s
<1>3. InEpoch(proof) /\ InEpoch(index)
  BY Zenon, <1>1 DEF EInv, ProofsTyped, Saving
<1>4. ~RoundLess(proof.round, index.round) /\ proof.height >= index.height /\ e <= i + 1
  BY ZenonT(60), <1>1 DEF IInv, TasksInOrder, SaversInOrder, EInv, FilesWritten
<1>5. e \in Nat /\ i \in Nat /\ i <= e /\ e \in 1 .. MaxEpoch
  BY ZenonT(60), <1>3, <1>4, RoundOrder DEF InEpoch
<1>6. \A u \in Tasks : u # t => task[u].step \notin {"write", "index", "notify"}
  BY Zenon, <1>1 DEF IInv, TasksInOrder, SaversInOrder, Locking
<1>7. proofs' = [epoch \in 1 .. MaxEpoch |-> IF epoch = e THEN proof ELSE proofs[epoch]]
  BY Zenon DEF EInv, ProofsTyped, WriteProof
<1> HIDE DEF e, i
<1>8. \A x : Reached(x)' <=> Reached(x)
  BY Zenon, <1>1 DEF Reached
<1>9. ProofsTyped'
  BY ZenonT(60), <1>1, <1>2, <1>3, <1>7 DEF EInv, ProofsTyped, InEpoch, Saving
<1>10. ReadsOld'
  BY ZenonT(60), <1>1, <1>2 DEF EInv, ReadsOld
<1>11. EpochsReached'
  BY Zenon, <1>1, <1>2, <1>8 DEF EInv, EpochsReached, Saving
<1>12. FilesWritten'
  BY Zenon, <1>1, <1>2, <1>4, <1>5, <1>6, <1>7 DEF FilesWritten, e, i
<1>13. LastEpochProven'
  <2>1. CASE e = i
    <3> SUFFICES ASSUME index.height = VotingSetEndHeight(i) PROVE proof.height = VotingSetEndHeight(i) /\ proofs'[i] = proof
      BY Zenon, <1>1 DEF LastEpochProven, Proven, i
    <3>1. proof.height <= VotingSetEndHeight(i) /\ proof.height \in Nat /\ index.height \in Nat
      BY Zenon, <1>3, <2>1 DEF InEpoch, e
    <3> QED
      BY <1>4, <1>5, <1>7, <2>1, <3>1
  <2>2. CASE e # i
    <3>1. ~IsWriting(i)
      BY Zenon, <1>6, <2>2 DEF IsWriting, e
    <3>2. proofs'[i] = proofs[i]
      BY Zenon, <1>3, <1>7, <2>2 DEF InEpoch, i
    <3> QED
      BY Zenon, <1>1, <3>1, <3>2 DEF EInv, LastEpochProven, Proven, i
  <2> QED
    BY Zenon, <2>1, <2>2
<1>14. EpochsProvenUnlessJumped'
  <2>1. \A x \in 1 .. i - 1 : proofs'[x] = proofs[x]
    <3>1. i <= MaxEpoch /\ MaxEpoch \in Nat
      BY <1>3, LastEpochExists DEF InEpoch, i
    <3> QED
      BY <1>5, <1>7, <3>1
  <2> QED
    BY Zenon, <1>1, <2>1 DEF EInv, EpochsProvenUnlessJumped, i
<1>15. LostBackup'
  BY Zenon, <1>1, <1>2 DEF EInv, LostBackup, CurrentBackups, Tasks
<1>16. DownTogether'
  BY Zenon, <1>1, <1>2 DEF EInv, DownTogether, IsDown, Tasks
<1> QED
  BY Zenon, <1>9, <1>10, <1>11, <1>12, <1>13, <1>14, <1>15, <1>16 DEF EInv

\* The index goes on to the next epoch only when the last one is over, and then it is proven.
LEMMA WriteIndexProven ==
    ASSUME IInv, EInv, NEW t \in Tasks, WriteIndex(t)
    PROVE  EInv'
<1> DEFINE proof == task[t].proof
           e == proof.round[1]
           i == index.round[1]
           s == [task[t] EXCEPT !.step = "notify"]
           ReachedNow(x) == x >= 2 => VotingSetEndHeight(x - 1) <= index'.height
<1>1. /\ task[t].step = "index" /\ index' = proof
      /\ UNCHANGED <<proofs, statusFile, backups, status, aggregator, jumped, crashes>>
  BY Zenon DEF WriteIndex
<1>2. /\ s.step = "notify" /\ s.proof = proof
      /\ task' = [u \in Tasks |-> IF u = t THEN s ELSE task[u]] /\ "poll" \in Tasks /\ "pull" \in Tasks
  BY Zenon, <1>1 DEF IInv, TasksInOrder, TaskShape, Saving, Goto, WriteIndex, Tasks
<1> HIDE DEF s
<1>3. InEpoch(proof) /\ InEpoch(index)
  BY Zenon, <1>1 DEF EInv, ProofsTyped, Saving
<1>4. ~RoundLess(proof.round, index.round) /\ proof.height >= index.height /\ e <= i + 1 /\ proofs[e] = proof
  BY ZenonT(60), <1>1 DEF IInv, TasksInOrder, SaversInOrder, EInv, FilesWritten
<1>5. e \in Nat \ {0} /\ i \in Nat \ {0} /\ i <= e /\ proof.height \in Nat /\ index.height \in Nat
  <2>1. proof.round \in AllRounds /\ index.round \in AllRounds /\ proof.height \in Nat /\ index.height \in Nat
    BY Zenon, <1>3 DEF InEpoch
  <2>2. e \in 1 .. MaxEpoch /\ i \in 1 .. MaxEpoch
    BY Zenon, <1>3 DEF InEpoch
  <2>3. e \in Nat /\ i \in Nat /\ i <= e
    BY Zenon, <1>4, <2>1, RoundOrder
  <2>4. e >= 1 /\ i >= 1
    BY <2>2, <2>3
  <2> QED
    BY <2>1, <2>3, <2>4
<1>6. \A u \in Tasks : task[u].step # "write" /\ (u # t => task[u].step \notin {"write", "index", "notify"})
  BY Zenon, <1>1 DEF IInv, TasksInOrder, SaversInOrder, Locking
<1>7. ASSUME NEW x \in Nat, Reached(x) PROVE ReachedNow(x)
  <2> SUFFICES ASSUME x >= 2 PROVE VotingSetEndHeight(x - 1) <= proof.height
    BY Zenon, <1>1
  <2>1. x - 1 \in Nat \ {0} /\ VotingSetEndHeight(x - 1) <= index.height
    BY <1>7 DEF Reached
  <2>2. VotingSetEndHeight(x - 1) \in Nat
    BY Zenon, <2>1, EpochEnds
  <2>3. PICK a \in Nat, b \in Nat, c \in Nat : a = VotingSetEndHeight(x - 1) /\ b = index.height /\ c = proof.height
    BY Zenon, <1>5, <2>2
  <2>4. a <= b /\ b <= c
    BY Zenon, <1>4, <2>1, <2>3
  <2> QED
    BY <2>3, <2>4
<1>8. ProofsTyped'
  BY ZenonT(60), <1>1, <1>2, <1>3 DEF EInv, ProofsTyped, InEpoch, Saving
<1>9. ReadsOld'
  <2>1. PICK b \in Nat, c \in Nat : b = index.height /\ c = proof.height
    BY Zenon, <1>5
  <2>2. index'.height = c /\ b <= c
    BY Zenon, <1>1, <1>4, <2>1
  <2>3. \A h \in Nat : h <= b => h <= c
    BY <2>2
  <2>4. \A h \in Nat : h <= index.height => h <= index'.height
    BY Zenon, <2>1, <2>2, <2>3
  <2> QED
    BY Zenon, <1>2, <2>4 DEF EInv, ReadsOld
<1> HIDE DEF ReachedNow
<1>10. EpochsReached'
  <2>1. status.round[1] \in Nat /\ statusFile.round[1] \in Nat /\ aggregator.max[1] \in Nat
    BY Zenon, RoundOrder DEF IInv, StatusInOrder, IsStatusInOrder, AggregatorInOrder
  <2>2. t = "pull" \/ ~jumped => ReachedNow(e)
    BY Zenon, <1>1, <1>5, <1>7 DEF EInv, EpochsReached, Saving, Tasks
  <2>3. \A u \in Tasks : task[u].step \in Saving => task[u].proof.round[1] \in Nat
    BY Zenon, RoundOrder DEF IInv, TasksInOrder, TaskShape
  <2>4. task'.pull.step \in Saving => ReachedNow(task'.pull.proof.round[1])
    <3>1. CASE t = "pull"
      BY Zenon, <1>2, <2>2, <3>1
    <3>2. CASE t # "pull"
      <4>1. task'.pull = task.pull
        BY Zenon, <1>2, <3>2
      <4> QED
        BY Zenon, <1>2, <1>7, <2>3, <4>1 DEF EInv, EpochsReached
    <3> QED
      BY Zenon, <3>1, <3>2
  <2>5. ~jumped /\ task'.poll.step \in Saving => ReachedNow(task'.poll.proof.round[1])
    <3>1. CASE t = "poll"
      BY Zenon, <1>2, <2>2, <3>1
    <3>2. CASE t # "poll"
      <4>1. task'.poll = task.poll
        BY Zenon, <1>2, <3>2
      <4> QED
        BY Zenon, <1>2, <1>7, <2>3, <4>1 DEF EInv, EpochsReached
    <3> QED
      BY Zenon, <3>1, <3>2
  <2>6. ~jumped => ReachedNow(status.round[1]) /\ ReachedNow(statusFile.round[1]) /\ ReachedNow(aggregator.max[1])
    BY Zenon, <1>7, <2>1 DEF EInv, EpochsReached
  <2> QED
    BY Zenon, <1>1, <2>2, <2>4, <2>5, <2>6 DEF EpochsReached, Reached, ReachedNow
<1>11. FilesWritten'
  BY Zenon, <1>2, <1>6 DEF FilesWritten
<1>12. LastEpochProven'
  BY Zenon, <1>1, <1>4 DEF LastEpochProven, Proven
<1>13. EpochsProvenUnlessJumped'
  <2> SUFFICES ASSUME ~jumped, NEW x \in 1 .. e - 1 PROVE Proven(x)
    BY Zenon, <1>1 DEF EpochsProvenUnlessJumped, Proven
  <2>1. CASE x <= i - 1
    BY <1>5, <2>1 DEF EInv, EpochsProvenUnlessJumped, Proven
  <2>2. CASE ~(x <= i - 1)
    <3>1. x = i /\ e = i + 1 /\ e >= 2 /\ e - 1 = i
      BY <1>4, <1>5, <2>2
    <3>2. Reached(e)
      BY Zenon, <1>1 DEF EInv, EpochsReached, Saving, Tasks
    <3>3. VotingSetEndHeight(i) <= index.height
      BY Zenon, <3>1, <3>2 DEF Reached
    <3>4. index.height <= VotingSetEndHeight(i) /\ VotingSetEndHeight(i) \in Nat
      BY Zenon, <1>3, <1>5, EpochEnds DEF InEpoch
    <3>5. index.height = VotingSetEndHeight(i)
      BY <1>5, <3>3, <3>4
    <3>6. ~IsWriting(i)
      BY Zenon, <1>6 DEF IsWriting
    <3> QED
      BY Zenon, <3>1, <3>5, <3>6 DEF EInv, LastEpochProven
  <2> QED
    BY Zenon, <2>1, <2>2
<1>14. LostBackup'
  <2>1. CASE t = "pull"
    BY Zenon, <1>2, <2>1 DEF LostBackup
  <2>2. CASE t = "poll"
    BY Zenon, <1>2, <2>2 DEF LostBackup
  <2> QED
    BY Zenon, <2>1, <2>2 DEF Tasks
<1>15. DownTogether'
  BY Zenon, <1>1, <1>2 DEF EInv, DownTogether, IsDown, Tasks
<1> QED
  BY Zenon, <1>8, <1>9, <1>10, <1>11, <1>12, <1>13, <1>14, <1>15 DEF EInv

\* The subscribers are told.
LEMMA NotifyProven ==
    ASSUME IInv, EInv, NEW t \in Tasks, Notify(t)
    PROVE  EInv'
<1>1. task[t].step = "notify" /\ UNCHANGED <<crashes, jumped>>
  BY Zenon DEF Notify
<1>2. \A u \in Tasks : task[u].step # "write"
  BY Zenon, <1>1 DEF IInv, TasksInOrder, SaversInOrder, Locking
<1>3. \/ Throw(t)
      \/ AfterSave(t) /\ UNCHANGED <<proofs, index, statusFile, status>> /\ backups' \subseteq backups
  BY Zenon DEF Notify, RemoveBackup
<1> QED
  BY Zenon, <1>1, <1>2, <1>3, ThrowProven, AfterSaveProven

\* A boot takes the epoch from the files.
LEMMA BootProven ==
    ASSUME IInv, EInv, Boot
    PROVE  EInv'
<1>1. /\ UNCHANGED <<proofs, index, statusFile, backups, crashes, jumped>>
      /\ aggregator' = [min |-> index.round, max |-> index.round, held |-> {}]
      /\ task' = [poll |-> [step |-> "idle"], pull |-> [step |-> "idle"]]
      /\ status'.round[1] \in {statusFile.round[1], index.round[1]}
  BY Zenon DEF Boot, BootStatus, VotingStatus, diskVars, Idle
<1>2. \A x : Reached(x)' <=> Reached(x)
  BY Zenon, <1>1 DEF Reached
<1>3. ~IsWriting(index.round[1])
  BY Zenon DEF Boot, IsDown, EInv, DownTogether, IsWriting, Tasks
<1>4. ProofsTyped'
  <2>1. (\A t \in Tasks : task'[t].step \notin Saving) /\ aggregator'.held = {}
    BY <1>1 DEF Tasks, Saving
  <2> QED
    BY Zenon, <1>1, <2>1 DEF EInv, ProofsTyped, InEpoch
<1>5. ReadsOld' /\ FilesWritten' /\ LostBackup' /\ DownTogether'
  <2>1. task'.poll.step = "idle" /\ task'.pull.step = "idle" /\ \A t \in Tasks : task'[t].step = "idle"
    BY <1>1 DEF Tasks
  <2>2. ReadsOld'
    BY Zenon, <2>1 DEF ReadsOld
  <2>3. FilesWritten'
    BY Zenon, <2>1 DEF FilesWritten
  <2>4. LostBackup'
    BY Zenon, <2>1 DEF LostBackup
  <2>5. DownTogether'
    BY Zenon, <2>1 DEF DownTogether, IsDown
  <2> QED
    BY Zenon, <2>2, <2>3, <2>4, <2>5
<1>6. EpochsReached'
  <2>1. aggregator'.max = index.round
    BY Zenon, <1>1
  <2> QED
    BY Zenon, <1>1, <1>2, <2>1 DEF EInv, EpochsReached, Saving
<1>7. LastEpochProven'
  BY ZenonT(60), <1>1, <1>3 DEF EInv, LastEpochProven, Proven
<1>8. EpochsProvenUnlessJumped'
  BY Zenon, <1>1 DEF EInv, EpochsProvenUnlessJumped
<1> QED
  BY Zenon, <1>4, <1>5, <1>6, <1>7, <1>8 DEF EInv

\* What the aggregator receives are votes without a precommit, or proofs of the network.
LEMMA EnvironmentProven ==
    ASSUME IInv, EInv,
           Decide \/ ReceiveVotes \/ ReceiveProof \/ Synchronize \/ PreprocessFork \/ Fork \/ UNCHANGED vars
    PROVE  EInv'
<1>1. UNCHANGED <<proofs, index, statusFile, backups, status, task, jumped, crashes>>
  BY Zenon DEF Decide, ReceiveVotes, ReceiveProof, Receive, Synchronize, PreprocessFork, Fork, vars, diskVars
<1>2. ASSUME NEW message, Receive(message), message.height > 0 => InEpoch(message)
      PROVE  aggregator'.max = aggregator.max /\ \A m \in aggregator'.held : m.height > 0 => InEpoch(m)
  BY Zenon, <1>2 DEF Receive, EInv, ProofsTyped, IInv, AggregatorInOrder
<1>3. aggregator'.max = aggregator.max /\ \A m \in aggregator'.held : m.height > 0 => InEpoch(m)
  <2>1. CASE Decide \/ Synchronize \/ PreprocessFork \/ Fork \/ UNCHANGED vars
    BY Zenon, <2>1 DEF Decide, Synchronize, PreprocessFork, Fork, vars, EInv, ProofsTyped
  <2>2. CASE ReceiveVotes
    <3>1. Proof(status.round, 0).height = 0
      BY Zenon DEF Proof
    <3> QED
      BY <1>2, <2>2, <3>1 DEF ReceiveVotes
  <2>3. CASE ReceiveProof
    BY Zenon, <1>2, <2>3, KnownInEpoch DEF ReceiveProof
  <2> QED
    BY Zenon, <2>1, <2>2, <2>3
<1>4. \A x : Reached(x)' <=> Reached(x)
  BY Zenon, <1>1 DEF Reached
<1>5. ProofsTyped'
  BY Zenon, <1>1, <1>3 DEF EInv, ProofsTyped, InEpoch
<1>6. ReadsOld' /\ FilesWritten' /\ LostBackup' /\ DownTogether'
  BY Zenon, <1>1 DEF EInv, ReadsOld, FilesWritten, LostBackup, CurrentBackups, DownTogether, IsDown
<1>7. EpochsReached'
  BY ZenonT(60), <1>1, <1>3, <1>4 DEF EInv, EpochsReached
<1>8. LastEpochProven' /\ EpochsProvenUnlessJumped'
  BY Zenon, <1>1 DEF EInv, LastEpochProven, IsWriting, Proven, EpochsProvenUnlessJumped
<1> QED
  BY Zenon, <1>5, <1>6, <1>7, <1>8 DEF EInv

\* One step of the node or of its environment.
LEMMA ProvenStep ==
    ASSUME IInv, EInv, [Next]_vars
    PROVE  EInv'
<1>1. CASE Poll
  BY Zenon, <1>1, PollProven, PollEpochProven, BackupProven, FinalizeProven DEF Poll
<1>2. CASE Pull
  BY Zenon, <1>2, PullProven
<1>3. ASSUME NEW t \in Tasks, Save(t)
      PROVE  EInv'
  BY Zenon, <1>3, SaveProofProven, WriteProofProven, WriteIndexProven, NotifyProven DEF Save
<1>4. CASE Decide \/ ReceiveVotes \/ ReceiveProof \/ Synchronize \/ PreprocessFork \/ Fork \/ UNCHANGED vars
  BY Zenon, <1>4, EnvironmentProven
<1>5. CASE Crash
  <2>1. crashes \in Nat /\ crashes' = crashes + 1 /\ Terminate /\ UNCHANGED jumped
    BY Zenon, <1>5 DEF Crash, EInv, ProofsTyped
  <2>2. crashes' \in Nat /\ crashes' >= crashes /\ crashes' > 0
    BY <2>1
  <2> QED
    BY Zenon, <2>1, <2>2, StopProven
<1>6. CASE Boot
  BY <1>6, BootProven
<1> QED
  BY Zenon, <1>1, <1>2, <1>3, <1>4, <1>5, <1>6 DEF Next

\* The storage has a proof of the last block of every epoch it has left, whichever of the finalizer and the proof task
\* saves, whatever they have read before and wherever the node stops, unless the orchestrator has jumped over the end
\* of an epoch or the node was stopped while it wrote a proof again.
THEOREM EpochsStayProven == Spec => []EpochsProvenUnlessJumped
<1>1. EInv => EpochsProvenUnlessJumped
  BY DEF EInv
<1> QED
  BY <1>1, EpochsInit, ProvenStep, Inductive, PTL DEF Spec
=============================================================================
