---------------------------- MODULE BacktestProofs ----------------------------
(***************************************************************************)
(* The backtest engine's two ways to a result.  First the scanners'        *)
(* bookkeeping, for any number of blocks, tasks at a time, legs and        *)
(* capitals, whatever the quoter answers and whichever calls fail; then    *)
(* the report of a backtest, for every series of observations, all costs,  *)
(* windows and days, and limbs of every size.                              *)
(***************************************************************************)
EXTENDS BlockScan, BacktestReport, FiniteFacts, SequenceTheorems

RunningTasks == {b \in Ranks : status[b] = "running"}

\* The strengthening: the blocks are spawned in their order, so the next one has no task yet.
SpawnedInOrder == \A b \in Ranks : status[b] = "none" <=> b > spawned

ScanInv ==
  /\ TypeOK
  /\ SpawnedInOrder
  /\ PermitsConserved

LEMMA RunningFinite == IsFiniteSet(RunningTasks) /\ Cardinality(RunningTasks) \in Nat
<1>1. IsFiniteSet(Ranks)
  BY FS_Interval, ScanAssumption DEF Ranks
<1>2. RunningTasks \subseteq Ranks
  BY DEF RunningTasks
<1>3. IsFiniteSet(RunningTasks)
  BY <1>1, <1>2, FS_Subset
<1> QED
  BY <1>3, FS_CardinalityType

LEMMA CapitalsNotEmpty == Len(Capitals) \in Nat \ {0} /\ Legs \in Nat \ {0}
<1>1. Capitals \in Seq(Nat) /\ Capitals # <<>> /\ Legs \in Nat \ {0}
  BY ScanAssumption
<1> QED
  BY <1>1

LEMMA InitEstablishes == Init => ScanInv
<1> SUFFICES ASSUME Init PROVE ScanInv
  OBVIOUS
<1>1. TypeOK
  BY CapitalsNotEmpty, ScanAssumption DEF Init, TypeOK, Statuses
<1>2. SpawnedInOrder
  BY DEF Init, SpawnedInOrder, Ranks
<1>3. PermitsConserved
  <2>1. RunningTasks = {}
    BY DEF Init, RunningTasks
  <2>2. Cardinality(RunningTasks) = 0
    BY <2>1, FS_EmptySet
  <2> QED
    BY <2>2, ScanAssumption DEF Init, PermitsConserved, RunningTasks
<1> QED
  BY <1>1, <1>2, <1>3 DEF ScanInv

\* main takes a permit before it spawns a task, and never goes below none.
LEMMA SpawnKeeps == ASSUME ScanInv, Spawn PROVE ScanInv'
<1>1. /\ spawned < NBlocks /\ spawned \in 0..NBlocks /\ permits > 0 /\ permits \in Nat
      /\ permits' = permits - 1 /\ spawned' = spawned + 1
      /\ status' = [status EXCEPT ![spawned + 1] = "running"]
      /\ status \in [Ranks -> Statuses]
      /\ UNCHANGED <<joined, leg, round, errors, outcome>>
  BY DEF ScanInv, TypeOK, Spawn, collected
<1>2. spawned + 1 \in Ranks /\ NBlocks \in Nat
  BY <1>1, ScanAssumption DEF Ranks
<1>3. TypeOK'
  <2>1. status' \in [Ranks -> Statuses]
    BY <1>1 DEF Statuses
  <2>2. spawned' \in 0..NBlocks /\ joined' \in 0..spawned' /\ permits' \in Nat
    BY <1>1, <1>2 DEF ScanInv, TypeOK
  <2> QED
    BY <1>1, <2>1, <2>2 DEF ScanInv, TypeOK
<1>4. SpawnedInOrder'
  BY <1>1, <1>2 DEF ScanInv, SpawnedInOrder, Ranks
<1>5. PermitsConserved'
  <2>1. status[spawned + 1] = "none"
    BY <1>1, <1>2 DEF ScanInv, SpawnedInOrder
  <2>2. RunningTasks' = RunningTasks \cup {spawned + 1} /\ spawned + 1 \notin RunningTasks
    BY <1>1, <1>2, <2>1 DEF RunningTasks
  <2>3. Cardinality(RunningTasks') = Cardinality(RunningTasks) + 1
    BY <2>2, RunningFinite, FS_AddElement
  <2>4. permits + Cardinality(RunningTasks) = Concurrency
    BY DEF ScanInv, PermitsConserved, RunningTasks
  <2>5. permits' + Cardinality(RunningTasks') = Concurrency
    BY <1>1, <2>3, <2>4, RunningFinite, ScanAssumption
  <2> QED
    BY <2>5 DEF PermitsConserved, RunningTasks
<1> QED
  BY <1>3, <1>4, <1>5 DEF ScanInv

\* A task that ends gives its permit back, whichever way it ends.
LEMMA EndsWithKeeps ==
  ASSUME ScanInv, NEW b \in Ranks, status[b] = "running",
         NEW how \in {"ok", "failed", "panicked"}, EndsWith(b, how),
         UNCHANGED <<spawned, joined, leg, round, errors, outcome>>
  PROVE  ScanInv'
<1>1. /\ status' = [status EXCEPT ![b] = how] /\ permits' = permits + 1
      /\ status \in [Ranks -> Statuses] /\ permits \in Nat
  BY DEF EndsWith, ScanInv, TypeOK
<1>2. TypeOK'
  <2>1. status' \in [Ranks -> Statuses]
    BY <1>1 DEF Statuses
  <2> QED
    BY <1>1, <2>1 DEF ScanInv, TypeOK
<1>3. SpawnedInOrder'
  BY <1>1 DEF ScanInv, SpawnedInOrder
<1>4. PermitsConserved'
  <2>1. RunningTasks' = RunningTasks \ {b} /\ b \in RunningTasks
    BY <1>1 DEF RunningTasks
  <2>2. Cardinality(RunningTasks') = Cardinality(RunningTasks) - 1
    BY <2>1, RunningFinite, FS_RemoveElement
  <2>3. permits + Cardinality(RunningTasks) = Concurrency
    BY DEF ScanInv, PermitsConserved, RunningTasks
  <2>4. permits' + Cardinality(RunningTasks') = Concurrency
    BY <1>1, <2>2, <2>3, RunningFinite, ScanAssumption
  <2> QED
    BY <2>4 DEF PermitsConserved, RunningTasks
<1> QED
  BY <1>2, <1>3, <1>4 DEF ScanInv

\* What changes neither a task's status nor the permits.
LEMMA OthersKeep ==
  ASSUME ScanInv, TypeOK', UNCHANGED <<status, permits, spawned>>
  PROVE  ScanInv'
  BY DEF ScanInv, SpawnedInOrder, PermitsConserved

LEMMA TaskKeeps == ASSUME ScanInv, NEW b \in Ranks, Task(b) PROVE ScanInv'
<1>1. CASE QuoteFails(b)
  BY <1>1, EndsWithKeeps DEF QuoteFails, Running, collected
<1>2. CASE QuoteArrives(b)
  <2> DEFINE out == Quoted(b, leg[b], amount[b])
  <2>1. /\ status[b] = "running" /\ UNCHANGED <<spawned, joined, errors, outcome>>
        /\ leg \in [Ranks -> 1..Legs] /\ round \in [Ranks -> 1..Len(Capitals)]
    BY <1>2 DEF QuoteArrives, Running, ScanInv, TypeOK, collected
  <2>2. CASE EndsWith(b, "panicked") /\ UNCHANGED <<leg, round>>
    BY <2>1, <2>2, EndsWithKeeps
  <2>3. CASE EndsWith(b, "ok") /\ UNCHANGED <<leg, round>>
    BY <2>1, <2>3, EndsWithKeeps
  <2>4. CASE /\ leg[b] < Legs /\ leg' = [leg EXCEPT ![b] = leg[b] + 1]
             /\ UNCHANGED <<status, permits, round>>
    <3>1. leg' \in [Ranks -> 1..Legs]
      BY <2>1, <2>4, CapitalsNotEmpty
    <3> QED
      BY <2>1, <2>4, <3>1, OthersKeep DEF ScanInv, TypeOK
  <2>5. CASE /\ round[b] < Len(Capitals) /\ leg' = [leg EXCEPT ![b] = 1]
             /\ round' = [round EXCEPT ![b] = round[b] + 1]
             /\ UNCHANGED <<status, permits>>
    <3>1. leg' \in [Ranks -> 1..Legs] /\ round' \in [Ranks -> 1..Len(Capitals)]
      BY <2>1, <2>5, CapitalsNotEmpty
    <3> QED
      BY <2>1, <2>5, <3>1, OthersKeep DEF ScanInv, TypeOK
  <2> QED
    BY <1>2, <2>2, <2>3, <2>4, <2>5 DEF QuoteArrives
<1> QED
  BY <1>1, <1>2 DEF Task

LEMMA NextKeeps == ScanInv /\ [Next]_vars => ScanInv'
<1> SUFFICES ASSUME ScanInv, [Next]_vars PROVE ScanInv'
  OBVIOUS
<1>1. CASE Join
  <2>1. TypeOK'
    BY <1>1, ScanAssumption DEF Join, ScanInv, TypeOK, tasks
  <2> QED
    BY <1>1, <2>1, OthersKeep DEF Join, tasks
<1>2. CASE Report
  <2>1. TypeOK'
    BY <1>2 DEF Report, ScanInv, TypeOK, tasks
  <2> QED
    BY <1>2, <2>1, OthersKeep DEF Report, tasks
<1>3. CASE UNCHANGED vars
  <2>1. TypeOK'
    BY <1>3 DEF vars, ScanInv, TypeOK, tasks, collected
  <2> QED
    BY <1>3, <2>1, OthersKeep DEF vars, tasks
<1> QED
  BY <1>1, <1>2, <1>3, SpawnKeeps, TaskKeeps DEF Next

LEMMA ScanInvariant == Spec => []ScanInv
  BY InitEstablishes, NextKeeps, PTL DEF Spec

\* The scan's variables keep their types: main awaits no task it has not spawned, no task
\* leaves its legs and capitals, and no permit is taken that is not there.
THEOREM ScanTypeCorrect == Spec => []TypeOK
<1>1. ScanInv => TypeOK
  BY DEF ScanInv
<1> QED
  BY <1>1, ScanInvariant, PTL

\* Permits and running tasks together are always as many as the concurrency, however many
\* blocks there are and however their tasks end: the scan neither stalls for a lost permit
\* nor runs more tasks than it was told to.
THEOREM PermitsNeverLost == Spec => []PermitsConserved
<1>1. ScanInv => PermitsConserved
  BY DEF ScanInv
<1> QED
  BY <1>1, ScanInvariant, PTL
-----------------------------------------------------------------------------
(* What a report says, block by block.  The strengthening follows every    *)
(* task to its end: the amount going into a leg is what the legs before    *)
(* make of the capital at that block, and the edges found so far are those *)
(* of the capitals before.  main has collected, in the order of the        *)
(* blocks, the edges of the tasks it has awaited.                          *)

IsTrip(f, rates, capital) ==
  f = [l \in 0..Legs |-> IF l = 0 THEN capital ELSE (f[l - 1] * rates[l]) \div RateUnit]

\* What rates make of a capital, after each leg.
After(rates, capital) == CHOOSE f : IsTrip(f, rates, capital)

TrueEdge(b, c) == EdgeOf(After(price[b], Capitals[c])[Legs], Capitals[c])

TasksTyped ==
  /\ price \in [Ranks -> PriceChoices]
  /\ amount \in [Ranks -> Nat] /\ edges \in [Ranks -> Seq(Int)]

OnCourse(b) ==
  /\ status[b] \in {"none", "running"} =>
       /\ Len(edges[b]) = round[b] - 1
       /\ amount[b] = After(price[b], Capitals[round[b]])[leg[b] - 1]
  /\ status[b] = "ok" => Len(edges[b]) = Len(Capitals)
  /\ \A c \in 1..Len(edges[b]) : edges[b][c] = TrueEdge(b, c)

TaskOnCourse == \A b \in Ranks : OnCourse(b)

Samples == Seq([block : Ranks, edge : Int])

ResultsInOrder ==
  /\ results \in [1..Len(Capitals) -> Samples]
  /\ outcome = "reported" => joined = NBlocks
  /\ \A c \in 1..Len(Capitals) :
       /\ outcome # "panicked" => Len(results[c]) + errors = joined
       /\ Len(results[c]) = Len(results[1])
       /\ \A i \in 1..Len(results[c]) :
            /\ results[c][i].block <= joined
            /\ results[c][i].edge = TrueEdge(results[c][i].block, c)
            /\ results[c][i].block = results[1][i].block
       /\ \A i, j \in 1..Len(results[c]) : i < j => results[c][i].block < results[c][j].block

CountInv == ScanInv /\ TasksTyped /\ TaskOnCourse /\ ResultsInOrder

LEMMA ScanConstants ==
  /\ Capitals \in Seq(Nat) /\ Len(Capitals) \in Nat \ {0} /\ Legs \in Nat \ {0}
  /\ RateUnit \in Nat \ {0} /\ NBlocks \in Nat /\ FeeBps \in Nat
  /\ PriceChoices \subseteq [1..Legs -> Nat]
  /\ \A c \in 1..Len(Capitals) : Capitals[c] \in Nat
  /\ DOMAIN Capitals = 1..Len(Capitals)
  BY ScanAssumption, CapitalsNotEmpty

LEMMA QuotientIsNatural ==
  ASSUME NEW x \in Nat, NEW y \in Nat, NEW d \in Nat \ {0}
  PROVE  (x * y) \div d \in Nat
<1>1. x * y \in Nat
  BY SMT
<1>2. \A n \in Nat : n \div d \in Nat
  BY SMT
<1> QED
  BY <1>1, <1>2

LEMMA TripFacts ==
  ASSUME NEW rates \in [1..Legs -> Nat], NEW capital \in Nat
  PROVE  /\ After(rates, capital)[0] = capital
         /\ \A l \in 1..Legs :
              After(rates, capital)[l] = (After(rates, capital)[l - 1] * rates[l]) \div RateUnit
         /\ \A l \in 0..Legs : After(rates, capital)[l] \in Nat
<1> DEFINE step == [kv \in Nat \X Nat |->
                      IF kv[1] \in 1..Legs THEN (kv[2] * rates[kv[1]]) \div RateUnit ELSE 0]
           f == After(rates, capital)
<1>1. step \in [Nat \X Nat -> Nat]
  <2>1. \A k \in 1..Legs, v \in Nat : (v * rates[k]) \div RateUnit \in Nat
    BY ScanConstants, QuotientIsNatural
  <2> QED
    BY <2>1
<1>2. \E g : IsTrip(g, rates, capital)
  <2>1. PICK g \in [0..Legs -> Nat] : IsIteration(g, capital, step, Legs)
    <3> HIDE DEF step
    <3> QED
      BY <1>1, ScanConstants, IterationExists
  <2>2. \A l \in 0..Legs : g[l] = IF l = 0 THEN capital ELSE (g[l - 1] * rates[l]) \div RateUnit
    <3> SUFFICES ASSUME NEW l \in 0..Legs
                 PROVE  g[l] = IF l = 0 THEN capital ELSE (g[l - 1] * rates[l]) \div RateUnit
      OBVIOUS
    <3>1. g[l] = IF l = 0 THEN capital ELSE step[<<l, g[l - 1]>>]
      <4> HIDE DEF step
      <4> QED
        BY <2>1 DEF IsIteration
    <3>2. CASE l # 0
      <4>1. l \in 1..Legs /\ l - 1 \in 0..Legs /\ l \in Nat
        BY <3>2, ScanConstants
      <4>2. g[l - 1] \in Nat
        BY <4>1
      <4> QED
        BY <3>1, <3>2, <4>1, <4>2
    <3> QED
      BY <3>1, <3>2
  <2>3. g = [l \in 0..Legs |-> IF l = 0 THEN capital ELSE (g[l - 1] * rates[l]) \div RateUnit]
    BY <2>2
  <2> QED
    BY <2>3 DEF IsTrip
<1>3. IsTrip(f, rates, capital)
  BY <1>2, Zenon DEF After
<1> HIDE DEF f, step
<1>4. \A l \in 0..Legs : f[l] = IF l = 0 THEN capital ELSE (f[l - 1] * rates[l]) \div RateUnit
  BY <1>3 DEF IsTrip
<1>5. f[0] = capital /\ \A l \in 1..Legs : f[l] = (f[l - 1] * rates[l]) \div RateUnit
  <2>1. 0 \in 0..Legs /\ \A l \in 1..Legs : l \in 0..Legs /\ l # 0
    BY ScanConstants
  <2> QED
    BY <1>4, <2>1
<1>6. \A l \in 0..Legs : f[l] \in Nat
  <2> DEFINE N == {l \in Nat : l \in 0..Legs => f[l] \in Nat}
  <2>1. 0 \in N
    BY <1>5
  <2>2. ASSUME NEW l \in Nat, l \in N PROVE l + 1 \in N
    <3> SUFFICES ASSUME l + 1 \in 0..Legs PROVE f[l + 1] \in Nat
      OBVIOUS
    <3>1. l \in 0..Legs /\ l + 1 \in 1..Legs /\ (l + 1) - 1 = l
      BY ScanConstants
    <3>2. f[l] \in Nat /\ rates[l + 1] \in Nat
      BY <2>2, <3>1
    <3>3. f[l + 1] = (f[l] * rates[l + 1]) \div RateUnit
      BY <1>5, <3>1
    <3>4. \A x, y \in Nat : (x * y) \div RateUnit \in Nat
      BY ScanConstants, QuotientIsNatural
    <3> QED
      BY <3>2, <3>3, <3>4
  <2> HIDE DEF N
  <2>3. Nat \subseteq N
    BY <2>1, <2>2, SetInduction
  <2> QED
    BY <2>3, ScanConstants DEF N
<1> QED
  BY <1>5, <1>6 DEF f

LEMMA RoundTripIsTrip ==
  ASSUME NEW b \in Ranks, NEW capital \in Nat
  PROVE  RoundTrip(b, capital) = After(price[b], capital)[Legs]
  BY DEF RoundTrip, After, IsTrip, Quoted

\* A profit after fees returns more than the capital.
LEMMA EdgeFacts ==
  ASSUME NEW out \in Nat, NEW capital \in Nat
  PROVE  /\ EdgeOf(out, capital) \in Int
         /\ EdgeOf(out, capital) - FeeBps > 0 => out > capital
<1>1. CASE capital = 0
  BY <1>1, ScanConstants DEF EdgeOf
<1>2. CASE capital # 0
  <2> DEFINE q == (out * Bps) \div capital
  <2>1. out * Bps \in Nat /\ capital \in Nat \ {0}
    BY <1>2, SMT DEF Bps
  <2>2. \A n \in Nat, d \in Nat \ {0} : n \div d \in Int /\ d * (n \div d) <= n
    BY SMT
  <2>3. q \in Int /\ capital * q <= out * Bps
    BY <2>1, <2>2
  <2> HIDE DEF q
  <2>4. EdgeOf(out, capital) = q - Bps
    BY <1>2 DEF EdgeOf, Ratio, q
  <2>5. ASSUME q - Bps - FeeBps > 0 PROVE out > capital
    <3>1. q >= 10001
      BY <2>3, <2>5, ScanConstants DEF Bps
    <3>2. capital * q >= capital * 10001
      BY <2>3, <3>1, SMT
    <3> QED
      BY <2>1, <2>3, <3>2, SMT DEF Bps
  <2> QED
    BY <2>3, <2>4, <2>5 DEF Bps
<1> QED
  BY <1>1, <1>2

\* Sorting leaves what is in order already as it is.
LEMMA SortKeepsAscending ==
  ASSUME NEW n \in Nat, NEW s, s = [i \in 1..n |-> s[i]],
         \A i \in 1..n : s[i].block \in Nat,
         \A i, j \in 1..n : i < j => s[i].block < s[j].block
  PROVE  SortedByBlock(s) = s
<1> DEFINE Before(i, j) == s[i].block < s[j].block \/ (s[i].block = s[j].block /\ i < j)
           Orders(p) == /\ \A i \in 1..n : \E j \in 1..n : p[j] = i
                        /\ \A i, j \in 1..n : i < j => Before(p[i], p[j])
           order == CHOOSE p \in [1..n -> 1..n] : Orders(p)
           same == [i \in 1..n |-> i]
<1>1. DOMAIN s = 1..n
  OBVIOUS
<1>2. \A i, j \in 1..n : Before(i, j) => i < j
  <2> SUFFICES ASSUME NEW i \in 1..n, NEW j \in 1..n, Before(i, j), ~(i < j) PROVE FALSE
    OBVIOUS
  <2>1. i = j \/ j < i
    OBVIOUS
  <2>2. s[i].block \in Nat /\ s[j].block \in Nat
    OBVIOUS
  <2> QED
    BY <2>1, <2>2
<1>3. same \in [1..n -> 1..n] /\ Orders(same)
  OBVIOUS
<1> HIDE DEF same
<1>4. order \in [1..n -> 1..n] /\ Orders(order)
  <2> HIDE DEF Orders
  <2> QED
    BY <1>3
<1>5. SortedByBlock(s) = [i \in 1..n |-> s[order[i]]]
  BY <1>1 DEF SortedByBlock
<1> HIDE DEF order
<1>6. \A i, j \in 1..n : i < j => order[i] < order[j]
  <2>1. \A i \in 1..n : order[i] \in 1..n
    BY <1>4
  <2> HIDE DEF Before
  <2> QED
    BY <1>2, <1>4, <2>1
<1> HIDE DEF Orders
<1>7. \A i \in 1..n : order[i] >= i
  <2> DEFINE T == {i \in 1..n : order[i] < i}
  <2> SUFFICES ASSUME T # {} PROVE FALSE
    BY <1>4
  <2>1. PICK k \in T : \A y \in T : k <= y
    <3>1. T \in SUBSET Nat
      OBVIOUS
    <3> HIDE DEF T
    <3> QED
      BY <3>1, LeastNatural
  <2>2. k - 1 \in 1..n /\ k \in 1..n /\ order[k] < k /\ order[k] \in 1..n
    BY <1>4
  <2>3. order[k - 1] < order[k] /\ order[k - 1] \in 1..n
    BY <1>4, <1>6, <2>2
  <2>4. k - 1 \in T
    BY <2>2, <2>3
  <2> HIDE DEF T
  <2> QED
    BY <2>1, <2>2, <2>4
<1>8. \A i \in 1..n : order[i] <= i
  <2> DEFINE T == {d \in Nat : d < n /\ order[n - d] > n - d}
  <2>0. \A i \in 1..n : order[i] \in 1..n /\ n - i \in Nat /\ n - i < n /\ n - (n - i) = i
    BY <1>4
  <2> SUFFICES ASSUME T # {} PROVE FALSE
    <3>1. \A i \in 1..n : order[i] > i => n - i \in T
      BY <2>0
    <3> HIDE DEF T
    <3> QED
      BY <2>0, <3>1
  <2>1. PICK d \in T : \A y \in T : d <= y
    BY LeastNatural
  <2> DEFINE k == n - d
  <2>2. k \in 1..n /\ order[k] > k /\ d \in Nat
    OBVIOUS
  <2>3. k + 1 \in 1..n
    BY <2>0, <2>2
  <2>4. order[k] < order[k + 1]
    BY <1>6, <2>2, <2>3
  <2>5. order[k + 1] > k + 1
    <3>1. order[k] \in Int /\ order[k + 1] \in Int /\ k \in Int
      BY <2>0, <2>2, <2>3
    <3> HIDE DEF k
    <3> QED
      BY <2>2, <2>4, <3>1
  <2>6. d - 1 \in Nat /\ n - (d - 1) = k + 1 /\ d - 1 < n
    BY <2>2, <2>3
  <2>7. d - 1 \in T
    BY <2>5, <2>6
  <2> HIDE DEF T
  <2> QED
    BY <2>1, <2>2, <2>7
<1>9. \A i \in 1..n : order[i] = i
  BY <1>4, <1>7, <1>8
<1> QED
  BY <1>5, <1>9

LEMMA TypedFacts ==
  ASSUME CountInv, NEW b \in Ranks
  PROVE  /\ price[b] \in [1..Legs -> Nat] /\ leg[b] \in 1..Legs /\ round[b] \in 1..Len(Capitals)
         /\ Capitals[round[b]] \in Nat /\ amount[b] \in Nat /\ edges[b] \in Seq(Int)
         /\ price \in [Ranks -> PriceChoices] /\ leg \in [Ranks -> 1..Legs]
         /\ round \in [Ranks -> 1..Len(Capitals)] /\ status \in [Ranks -> Statuses]
         /\ amount \in [Ranks -> Nat] /\ edges \in [Ranks -> Seq(Int)]
<1>1. /\ price \in [Ranks -> PriceChoices] /\ leg \in [Ranks -> 1..Legs]
      /\ round \in [Ranks -> 1..Len(Capitals)] /\ status \in [Ranks -> Statuses]
      /\ amount \in [Ranks -> Nat] /\ edges \in [Ranks -> Seq(Int)]
  BY DEF CountInv, ScanInv, TypeOK, TasksTyped
<1>2. price[b] \in PriceChoices
  BY <1>1
<1> QED
  BY <1>1, <1>2, ScanConstants

LEMMA CountInit == Init => CountInv
<1> SUFFICES ASSUME Init PROVE CountInv
  OBVIOUS
<1>1. ScanInv
  BY InitEstablishes
<1>2. /\ price \in [Ranks -> PriceChoices] /\ joined = 0 /\ errors = 0 /\ outcome = "running"
      /\ \A b \in Ranks : /\ status[b] = "none" /\ leg[b] = 1 /\ round[b] = 1
                          /\ amount[b] = Capitals[1] /\ edges[b] = <<>>
      /\ amount = [b \in Ranks |-> Capitals[1]] /\ edges = [b \in Ranks |-> <<>>]
      /\ results = [c \in 1..Len(Capitals) |-> <<>>]
  BY ScanConstants DEF Init
<1>3. 1 \in 1..Len(Capitals) /\ Capitals[1] \in Nat
  BY ScanConstants
<1>4. TasksTyped
  BY <1>2, <1>3 DEF TasksTyped
<1>5. ASSUME NEW b \in Ranks PROVE OnCourse(b)
  <2>1. price[b] \in [1..Legs -> Nat]
    <3>1. price[b] \in PriceChoices
      BY <1>2
    <3> QED
      BY <3>1, ScanConstants
  <2>2. After(price[b], Capitals[1])[0] = Capitals[1]
    BY <1>3, <2>1, TripFacts
  <2> QED
    BY <1>2, <2>2 DEF OnCourse
<1>6. ResultsInOrder
  BY <1>2, <1>3 DEF ResultsInOrder, Samples
<1> QED
  BY <1>1, <1>4, <1>5, <1>6 DEF CountInv, TaskOnCourse

\* A step of one task leaves the others on their course.
LEMMA OthersOnCourse ==
  ASSUME CountInv, NEW b \in Ranks, price' = price, OnCourse(b)',
         \A o \in Ranks \ {b} : /\ status'[o] = status[o] /\ edges'[o] = edges[o]
                                /\ round'[o] = round[o] /\ leg'[o] = leg[o]
                                /\ amount'[o] = amount[o]
  PROVE  TaskOnCourse'
<1> SUFFICES ASSUME NEW o \in Ranks, o # b PROVE OnCourse(o)'
  BY DEF TaskOnCourse
<1>1. OnCourse(o)
  BY DEF CountInv, TaskOnCourse
<1> QED
  BY <1>1 DEF OnCourse, TrueEdge

\* What keeps the results, the counts and the chain as they are keeps what holds of them.
LEMMA ResultsKept ==
  ASSUME ResultsInOrder, UNCHANGED <<price, results, errors, joined, outcome>>
  PROVE  ResultsInOrder'
  BY DEF ResultsInOrder, TrueEdge

LEMMA TaskCounts == ASSUME CountInv, NEW b \in Ranks, Task(b) PROVE CountInv'
<1>1. ScanInv' /\ ScanInv /\ TasksTyped /\ ResultsInOrder /\ OnCourse(b)
  BY TaskKeeps DEF CountInv, TaskOnCourse
<1>2. /\ status[b] = "running" /\ outcome = "running"
      /\ UNCHANGED <<price, results, errors, joined, outcome>>
  BY DEF Task, QuoteArrives, QuoteFails, Running, collected
<1>3. ResultsInOrder'
  BY <1>1, <1>2, ResultsKept
<1>4. CASE EndsWith(b, "failed") /\ UNCHANGED <<leg, round, amount, edges>>
  <2>1. status' = [status EXCEPT ![b] = "failed"]
    BY <1>4 DEF EndsWith
  <2>2. OnCourse(b)'
    BY <1>1, <1>2, <1>4, <2>1, TypedFacts DEF OnCourse, TrueEdge
  <2>3. TaskOnCourse'
    BY <1>2, <1>4, <2>1, <2>2, TypedFacts, OthersOnCourse
  <2> QED
    BY <1>1, <1>2, <1>3, <1>4, <2>3 DEF CountInv, TasksTyped
<1>5. CASE EndsWith(b, "panicked") /\ UNCHANGED <<leg, round, amount, edges>>
  <2>1. status' = [status EXCEPT ![b] = "panicked"]
    BY <1>5 DEF EndsWith
  <2>2. OnCourse(b)'
    BY <1>1, <1>2, <1>5, <2>1, TypedFacts DEF OnCourse, TrueEdge
  <2>3. TaskOnCourse'
    BY <1>2, <1>5, <2>1, <2>2, TypedFacts, OthersOnCourse
  <2> QED
    BY <1>1, <1>2, <1>3, <1>5, <2>3 DEF CountInv, TasksTyped
<1> DEFINE trip == After(price[b], Capitals[round[b]])
           out == Quoted(b, leg[b], amount[b])
<1>6. /\ out = trip[leg[b]] /\ out \in Nat /\ leg[b] \in 1..Legs
      /\ Len(edges[b]) = round[b] - 1
  <2>1. amount[b] = trip[leg[b] - 1] /\ Len(edges[b]) = round[b] - 1
    BY <1>1, <1>2 DEF OnCourse
  <2>2. /\ leg[b] \in 1..Legs /\ leg[b] \in 0..Legs
        /\ price[b] \in [1..Legs -> Nat] /\ Capitals[round[b]] \in Nat
    BY TypedFacts, ScanConstants
  <2>3. /\ \A l \in 1..Legs : trip[l] = (trip[l - 1] * price[b][l]) \div RateUnit
        /\ \A l \in 0..Legs : trip[l] \in Nat
    BY <2>2, TripFacts
  <2> HIDE DEF trip
  <2> QED
    BY <2>1, <2>2, <2>3 DEF Quoted
<1>7. CASE /\ leg[b] < Legs /\ leg' = [leg EXCEPT ![b] = leg[b] + 1]
           /\ amount' = [amount EXCEPT ![b] = out]
           /\ UNCHANGED <<status, round, edges>>
  <2>1. leg'[b] = leg[b] + 1 /\ amount'[b] = out /\ (leg[b] + 1) - 1 = leg[b]
    <3>1. /\ leg \in [Ranks -> 1..Legs] /\ amount \in [Ranks -> Nat] /\ leg[b] \in 1..Legs
          /\ leg[b] \in Int
      BY TypedFacts, ScanConstants
    <3> HIDE DEF out
    <3> QED
      BY <1>7, <3>1
  <2>2. OnCourse(b)'
    <3>1. amount'[b] = After(price[b], Capitals[round[b]])[leg'[b] - 1]
      BY <1>6, <2>1
    <3> HIDE DEF trip, out
    <3> QED
      BY <1>1, <1>2, <1>7, <3>1 DEF OnCourse, TrueEdge
  <2>3. TasksTyped'
    <3>1. amount' \in [Ranks -> Nat]
      BY <1>6, <1>7, TypedFacts
    <3> HIDE DEF trip, out
    <3> QED
      BY <1>1, <1>2, <1>7, <3>1 DEF TasksTyped
  <2> HIDE DEF trip, out
  <2>4. TaskOnCourse'
    BY <1>2, <1>7, <2>2, TypedFacts, OthersOnCourse
  <2> QED
    BY <1>1, <1>3, <2>3, <2>4 DEF CountInv
<1> DEFINE e == EdgeOf(out, Capitals[round[b]])
<1>8. ASSUME leg[b] = Legs, edges' = [edges EXCEPT ![b] = Append(edges[b], e)]
      PROVE  /\ edges' \in [Ranks -> Seq(Int)] /\ Len(edges'[b]) = round[b]
             /\ \A c \in 1..Len(edges'[b]) : edges'[b][c] = TrueEdge(b, c)
             /\ edges'[b] \in Seq(Int)
  <2>1. e \in Int
    BY <1>6, TypedFacts, EdgeFacts
  <2>2. e = TrueEdge(b, round[b])
    BY <1>6, <1>8 DEF TrueEdge
  <2> HIDE DEF e
  <2>3. /\ edges[b] \in Seq(Int) /\ edges \in [Ranks -> Seq(Int)]
        /\ round[b] \in 1..Len(Capitals)
        /\ \A c \in 1..Len(edges[b]) : edges[b][c] = TrueEdge(b, c)
    BY <1>1, TypedFacts DEF OnCourse
  <2> DEFINE s == edges[b]
  <2>4. /\ Append(s, e) \in Seq(Int) /\ Len(Append(s, e)) = Len(s) + 1
        /\ \A c \in 1..Len(s) : Append(s, e)[c] = s[c]
        /\ Append(s, e)[Len(s) + 1] = e
    <3> HIDE DEF s
    <3>1. s \in Seq(Int)
      BY <2>3 DEF s
    <3> QED
      BY <2>1, <3>1, AppendProperties
  <2>5. edges'[b] = Append(s, e) /\ edges' \in [Ranks -> Seq(Int)]
    BY <1>8, <2>3, <2>4
  <2>6. Len(edges'[b]) = round[b] /\ Len(s) + 1 = round[b]
    BY <1>6, <2>3, <2>4, <2>5, ScanConstants
  <2>7. ASSUME NEW c \in 1..Len(edges'[b]) PROVE edges'[b][c] = TrueEdge(b, c)
    <3>1. c \in 1..Len(s) \/ c = Len(s) + 1
      BY <2>3, <2>6, ScanConstants
    <3> QED
      BY <2>2, <2>3, <2>4, <2>5, <2>6, <3>1
  <2> QED
    BY <2>4, <2>5, <2>6, <2>7
<1>9. CASE /\ leg[b] = Legs /\ edges' = [edges EXCEPT ![b] = Append(edges[b], e)]
           /\ round[b] < Len(Capitals) /\ leg' = [leg EXCEPT ![b] = 1]
           /\ round' = [round EXCEPT ![b] = round[b] + 1]
           /\ amount' = [amount EXCEPT ![b] = Capitals[round[b] + 1]]
           /\ UNCHANGED status
  <2> HIDE DEF e, out, trip
  <2>1. /\ edges' \in [Ranks -> Seq(Int)] /\ Len(edges'[b]) = round[b]
        /\ \A c \in 1..Len(edges'[b]) : edges'[b][c] = TrueEdge(b, c)
    BY <1>8, <1>9
  <2>2. /\ round[b] + 1 \in 1..Len(Capitals) /\ Capitals[round[b] + 1] \in Nat
        /\ leg'[b] = 1 /\ round'[b] = round[b] + 1 /\ amount'[b] = Capitals[round[b] + 1]
        /\ amount' \in [Ranks -> Nat]
    <3>1. /\ round \in [Ranks -> 1..Len(Capitals)] /\ leg \in [Ranks -> 1..Legs]
          /\ amount \in [Ranks -> Nat] /\ round[b] \in 1..Len(Capitals)
      BY TypedFacts
    <3>2. round[b] + 1 \in 1..Len(Capitals)
      BY <1>9, <3>1, ScanConstants
    <3>3. Capitals[round[b] + 1] \in Nat
      BY <3>2, ScanConstants
    <3> QED
      BY <1>9, <3>1, <3>2, <3>3
  <2>3. After(price[b], Capitals[round[b] + 1])[0] = Capitals[round[b] + 1]
    BY <2>2, TypedFacts, TripFacts
  <2>4. OnCourse(b)'
    <3>1. Len(edges'[b]) = round'[b] - 1
      BY <2>1, <2>2, TypedFacts, ScanConstants
    <3>2. amount'[b] = After(price[b], Capitals[round'[b]])[leg'[b] - 1]
      BY <2>2, <2>3
    <3> QED
      BY <1>2, <1>9, <2>1, <3>1, <3>2 DEF OnCourse, TrueEdge
  <2>5. TaskOnCourse'
    BY <1>2, <1>9, <2>4, TypedFacts, OthersOnCourse
  <2>6. TasksTyped'
    BY <1>1, <1>2, <2>1, <2>2 DEF TasksTyped
  <2> QED
    BY <1>1, <1>3, <2>5, <2>6 DEF CountInv
<1>10. CASE /\ leg[b] = Legs /\ edges' = [edges EXCEPT ![b] = Append(edges[b], e)]
           /\ ~(round[b] < Len(Capitals)) /\ EndsWith(b, "ok")
           /\ UNCHANGED <<leg, round, amount>>
  <2> HIDE DEF e, out, trip
  <2>1. /\ edges' \in [Ranks -> Seq(Int)] /\ Len(edges'[b]) = round[b]
        /\ \A c \in 1..Len(edges'[b]) : edges'[b][c] = TrueEdge(b, c)
    BY <1>8, <1>10
  <2>2. status' = [status EXCEPT ![b] = "ok"] /\ status'[b] = "ok"
    BY <1>10, TypedFacts DEF EndsWith
  <2>3. round[b] = Len(Capitals)
    BY <1>10, TypedFacts, ScanConstants
  <2>4. OnCourse(b)'
    BY <1>2, <2>1, <2>2, <2>3 DEF OnCourse, TrueEdge
  <2>5. TaskOnCourse'
    BY <1>2, <1>10, <2>2, <2>4, TypedFacts, OthersOnCourse
  <2>6. TasksTyped'
    BY <1>1, <1>2, <1>10, <2>1 DEF TasksTyped
  <2> QED
    BY <1>1, <1>3, <2>5, <2>6 DEF CountInv
<1>11. CASE QuoteFails(b)
  <2> HIDE DEF e, out, trip
  <2> QED
    BY <1>4, <1>11 DEF QuoteFails
<1>12. CASE QuoteArrives(b)
  <2>1. \/ EndsWith(b, "panicked") /\ UNCHANGED <<leg, round, amount, edges>>
        \/ /\ leg[b] < Legs /\ leg' = [leg EXCEPT ![b] = leg[b] + 1]
           /\ amount' = [amount EXCEPT ![b] = out]
           /\ UNCHANGED <<status, round, edges>>
        \/ /\ leg[b] = Legs /\ edges' = [edges EXCEPT ![b] = Append(edges[b], e)]
           /\ round[b] < Len(Capitals) /\ leg' = [leg EXCEPT ![b] = 1]
           /\ round' = [round EXCEPT ![b] = round[b] + 1]
           /\ amount' = [amount EXCEPT ![b] = Capitals[round[b] + 1]]
           /\ UNCHANGED status
        \/ /\ leg[b] = Legs /\ edges' = [edges EXCEPT ![b] = Append(edges[b], e)]
           /\ ~(round[b] < Len(Capitals)) /\ EndsWith(b, "ok")
           /\ UNCHANGED <<leg, round, amount>>
    BY <1>12, Zenon DEF QuoteArrives, NextInput
  <2> HIDE DEF e, out, trip
  <2> QED
    BY <1>5, <1>7, <1>9, <1>10, <2>1
<1> QED
  BY <1>11, <1>12 DEF Task

LEMMA SampleFacts ==
  ASSUME NEW s \in Samples
  PROVE  /\ Len(s) \in Nat /\ DOMAIN s = 1..Len(s) /\ s = [i \in 1..Len(s) |-> s[i]]
         /\ \A i \in 1..Len(s) : s[i].block \in Ranks /\ s[i].block \in Nat
<1> DEFINE Sample == [block : Ranks, edge : Int]
<1>1. \A x \in Sample : x.block \in Ranks /\ x.block \in Nat
  BY DEF Ranks
<1>2. s \in Seq(Sample)
  BY DEF Samples
<1> HIDE DEF Sample
<1> QED
  BY <1>1, <1>2

LEMMA SpawnCounts == ASSUME CountInv, Spawn PROVE CountInv'
<1>1. ScanInv' /\ ScanInv /\ TasksTyped /\ ResultsInOrder /\ TaskOnCourse
  BY SpawnKeeps DEF CountInv
<1>2. /\ spawned + 1 \in Ranks /\ spawned \in Nat
      /\ status' = [status EXCEPT ![spawned + 1] = "running"]
      /\ UNCHANGED <<price, joined, leg, round, amount, edges, results, errors, outcome>>
  BY <1>1, ScanConstants DEF Spawn, ScanInv, TypeOK, Ranks, collected
<1>3. PICK b \in Ranks : b = spawned + 1
  BY <1>2
<1>4. /\ status' = [status EXCEPT ![b] = "running"]
      /\ UNCHANGED <<price, joined, leg, round, amount, edges, results, errors, outcome>>
  BY <1>2, <1>3
<1>5. status[b] = "none"
  BY <1>1, <1>2, <1>3, ScanConstants DEF ScanInv, SpawnedInOrder, TypeOK
<1>6. OnCourse(b)'
  <2>1. status'[b] = "running"
    BY <1>4, TypedFacts
  <2> QED
    BY <1>1, <1>4, <1>5, <2>1 DEF TaskOnCourse, OnCourse, TrueEdge
<1>7. TaskOnCourse'
  BY <1>4, <1>6, TypedFacts, OthersOnCourse
<1>8. TasksTyped'
  BY <1>1, <1>4 DEF TasksTyped
<1>9. ResultsInOrder'
  BY <1>1, <1>4, ResultsKept
<1> QED
  BY <1>1, <1>7, <1>8, <1>9 DEF CountInv

\* What main does leaves the tasks where they are.
LEMMA TasksKept ==
  ASSUME TasksTyped, TaskOnCourse, UNCHANGED <<price, tasks>>
  PROVE  TasksTyped' /\ TaskOnCourse'
  BY DEF TasksTyped, TaskOnCourse, OnCourse, TrueEdge, tasks

\* Awaiting the next block's task adds its edges, one for every capital, after those of the
\* blocks before it.
LEMMA JoinCounts == ASSUME CountInv, Join PROVE CountInv'
<1> DEFINE b == joined + 1
<1>1. /\ ScanInv /\ TasksTyped /\ ResultsInOrder /\ TaskOnCourse
      /\ TasksTyped' /\ TaskOnCourse' /\ ScanInv' /\ price' = price
  BY TasksKept, NextKeeps DEF CountInv, Join, Next
<1>2. /\ outcome = "running" /\ joined < NBlocks /\ joined' = b
      /\ joined \in Nat /\ b \in Ranks /\ b > joined /\ errors \in Nat
      /\ NBlocks \in Nat
  BY <1>1, ScanConstants DEF Join, ScanInv, TypeOK, Ranks
<1>3. \/ status[b] = "ok" /\ results' = Collected(b) /\ errors' = errors /\ outcome' = outcome
      \/ /\ status[b] \in {"failed", "panicked"} /\ results' = results
         /\ errors' = IF status[b] = "failed" THEN errors + 1 ELSE errors
         /\ outcome' = IF status[b] = "panicked" THEN "panicked" ELSE outcome
  BY DEF Join
<1>4. /\ results \in [1..Len(Capitals) -> Samples]
      /\ \A c \in 1..Len(Capitals) :
           /\ Len(results[c]) + errors = joined
           /\ Len(results[c]) = Len(results[1])
           /\ \A i \in 1..Len(results[c]) :
                /\ results[c][i].block <= joined
                /\ results[c][i].edge = TrueEdge(results[c][i].block, c)
                /\ results[c][i].block = results[1][i].block
           /\ \A i, j \in 1..Len(results[c]) : i < j => results[c][i].block < results[c][j].block
  BY <1>1, <1>2 DEF ResultsInOrder
<1>5. \A c \in 1..Len(Capitals) : /\ Len(results[c]) \in Nat
                                  /\ \A i \in 1..Len(results[c]) : results[c][i].block \in Ranks
  BY <1>4, SampleFacts
<1>6. outcome' # "reported"
  BY <1>2, <1>3
<1>7. ResultsInOrder'
  <2>1. CASE /\ status[b] \in {"failed", "panicked"} /\ results' = results
             /\ errors' = IF status[b] = "failed" THEN errors + 1 ELSE errors
             /\ outcome' = IF status[b] = "panicked" THEN "panicked" ELSE outcome
    <3> SUFFICES ASSUME NEW c \in 1..Len(Capitals)
                 PROVE  /\ outcome' # "panicked" => Len(results[c]) + errors' = joined'
                        /\ \A i \in 1..Len(results[c]) : results[c][i].block <= joined'
      BY <1>1, <1>4, <1>6, <2>1 DEF ResultsInOrder, TrueEdge
    <3> QED
      BY <1>2, <1>4, <1>5, <2>1 DEF Ranks
  <2>2. CASE status[b] = "ok" /\ results' = Collected(b) /\ errors' = errors /\ outcome' = outcome
    <3> DEFINE new(c) == [block |-> b, edge |-> edges[b][c]]
               Sample == [block : Ranks, edge : Int]
    <3>1. /\ Len(edges[b]) = Len(Capitals) /\ edges[b] \in Seq(Int)
          /\ \A c \in 1..Len(Capitals) : edges[b][c] = TrueEdge(b, c)
      <4>1. OnCourse(b) /\ edges[b] \in Seq(Int)
        BY <1>1, <1>2 DEF TaskOnCourse, TasksTyped
      <4> HIDE DEF b
      <4> QED
        BY <2>2, <4>1 DEF OnCourse
    <3>2. results' = [c \in 1..Len(Capitals) |-> Append(results[c], new(c))]
      BY <1>4, <2>2 DEF Collected
    <3>3. \A c \in 1..Len(Capitals) : new(c) \in Sample /\ results[c] \in Seq(Sample)
      <4>1. \A c \in 1..Len(Capitals) : edges[b][c] \in Int
        <5> HIDE DEF b
        <5> QED
          BY <3>1
      <4>2. \A c \in 1..Len(Capitals) : results[c] \in Seq(Sample)
        BY <1>4 DEF Samples
      <4>3. b \in Ranks
        BY <1>2
      <4> HIDE DEF b
      <4> QED
        BY <4>1, <4>2, <4>3
    <3>4. ASSUME NEW c \in 1..Len(Capitals)
          PROVE  /\ results'[c] \in Seq(Sample) /\ Len(results'[c]) = Len(results[c]) + 1
                 /\ \A i \in 1..Len(results[c]) : results'[c][i] = results[c][i]
                 /\ results'[c][Len(results[c]) + 1].block = b
                 /\ results'[c][Len(results[c]) + 1].edge = TrueEdge(b, c)
      <4>1. new(c) \in Sample /\ results[c] \in Seq(Sample)
        BY <3>3
      <4>2. new(c).block = b /\ new(c).edge = TrueEdge(b, c)
        BY <3>1
      <4> HIDE DEF new, Sample
      <4>3. results'[c] = Append(results[c], new(c))
        BY <3>2
      <4> QED
        BY <4>1, <4>2, <4>3, AppendProperties
    <3>5. results' \in [1..Len(Capitals) -> Samples]
      <4>1. \A c \in 1..Len(Capitals) : results'[c] \in Seq(Sample)
        BY <3>4
      <4> HIDE DEF new
      <4> QED
        BY <3>2, <4>1 DEF Samples
    <3> HIDE DEF new, b
    <3>6. 1 \in 1..Len(Capitals)
      BY ScanConstants
    <3>7. ASSUME NEW c \in 1..Len(Capitals)
          PROVE  /\ Len(results'[c]) + errors' = joined'
                 /\ Len(results'[c]) = Len(results'[1])
      <4>1. Len(results'[c]) = Len(results[c]) + 1 /\ Len(results'[1]) = Len(results[1]) + 1
        BY <3>4, <3>6
      <4>2. Len(results[c]) + errors = joined /\ Len(results[c]) = Len(results[1]) /\ Len(results[c]) \in Nat
        BY <1>4, <1>5
      <4>3. joined' = joined + 1 /\ errors' = errors
        BY <1>2, <2>2 DEF b
      <4> QED
        BY <1>2, <4>1, <4>2, <4>3
    <3>8. ASSUME NEW c \in 1..Len(Capitals), NEW i \in 1..Len(results'[c])
          PROVE  /\ results'[c][i].block <= joined'
                 /\ results'[c][i].edge = TrueEdge(results'[c][i].block, c)
                 /\ results'[c][i].block = results'[1][i].block
                 /\ i \in 1..Len(results[c]) => results'[c][i].block < b
                 /\ i \in 1..Len(results[c]) \/ i = Len(results[c]) + 1
                 /\ i = Len(results[c]) + 1 => results'[c][i].block = b
      <4>1. /\ Len(results'[c]) = Len(results[c]) + 1 /\ Len(results[c]) \in Nat
            /\ Len(results[1]) = Len(results[c])
        BY <1>4, <1>5, <3>4
      <4>2. CASE i \in 1..Len(results[c])
        <5>1. /\ results'[c][i] = results[c][i] /\ results'[1][i] = results[1][i]
          BY <3>4, <3>6, <4>1, <4>2
        <5>2. /\ results[c][i].block <= joined /\ results[c][i].block \in Ranks
              /\ results[c][i].edge = TrueEdge(results[c][i].block, c)
              /\ results[c][i].block = results[1][i].block
          BY <1>4, <1>5, <4>2
        <5>3. i # Len(results[c]) + 1
          BY <4>1, <4>2
        <5> QED
          <6>1. b = joined + 1 /\ joined' = joined + 1 /\ joined \in Int
            BY <1>2 DEF b
          <6>2. results[c][i].block \in Int
            BY <5>2 DEF Ranks
          <6> HIDE DEF b
          <6> QED
            BY <4>2, <5>1, <5>2, <5>3, <6>1, <6>2
      <4>3. CASE i = Len(results[c]) + 1
        <5>1. results'[c][i].block = b /\ results'[c][i].edge = TrueEdge(b, c) /\ results'[1][i].block = b
          BY <3>4, <3>6, <4>1, <4>3
        <5>2. i \notin 1..Len(results[c])
          BY <4>1, <4>3
        <5> QED
          BY <1>2, <4>3, <5>1, <5>2 DEF Ranks
      <4> QED
        BY <4>1, <4>2, <4>3
    <3>9. ASSUME NEW c \in 1..Len(Capitals), NEW i \in 1..Len(results'[c]),
                 NEW j \in 1..Len(results'[c]), i < j
          PROVE  results'[c][i].block < results'[c][j].block
      <4>1. /\ Len(results'[c]) = Len(results[c]) + 1 /\ Len(results[c]) \in Nat
        BY <1>5, <3>4
      <4>2. i \in 1..Len(results[c])
        BY <3>9, <4>1
      <4>3. CASE j \in 1..Len(results[c])
        <5>1. /\ results'[c][i] = results[c][i] /\ results'[c][j] = results[c][j]
          BY <3>4, <4>2, <4>3
        <5> QED
          BY <1>4, <3>9, <4>2, <4>3, <5>1
      <4>4. CASE j = Len(results[c]) + 1
        BY <3>8, <4>2, <4>4
      <4> QED
        BY <3>8, <4>3, <4>4
    <3>10. \A r, c : TrueEdge(r, c)' = TrueEdge(r, c)
      BY <1>1 DEF TrueEdge
    <3> QED
      BY <1>6, <3>5, <3>7, <3>8, <3>9, <3>10 DEF ResultsInOrder
  <2> QED
    BY <1>3, <2>1, <2>2
<1> QED
  BY <1>1, <1>7 DEF CountInv

\* The samples are in the order of the blocks before they are sorted.
LEMMA ReportCounts == ASSUME CountInv, Report PROVE CountInv'
<1>1. /\ ScanInv /\ TasksTyped /\ ResultsInOrder /\ TaskOnCourse
      /\ TasksTyped' /\ TaskOnCourse' /\ ScanInv' /\ price' = price
  BY TasksKept, NextKeeps DEF CountInv, Report, Next
<1>2. /\ outcome = "running" /\ joined = NBlocks /\ outcome' = "reported"
      /\ joined' = joined /\ errors' = errors
      /\ DOMAIN results = 1..Len(Capitals) /\ results \in [1..Len(Capitals) -> Samples]
      /\ results' = [c \in 1..Len(Capitals) |-> SortedByBlock(results[c])]
  BY <1>1 DEF Report, ResultsInOrder
<1>3. ASSUME NEW c \in 1..Len(Capitals) PROVE SortedByBlock(results[c]) = results[c]
  <2> DEFINE s == results[c]
             n == Len(s)
  <2>1. s \in Samples
    BY <1>2
  <2>2. n \in Nat /\ s = [i \in 1..n |-> s[i]] /\ \A i \in 1..n : s[i].block \in Nat
    <3> HIDE DEF s
    <3> QED
      BY <2>1, SampleFacts DEF n
  <2>3. \A i, j \in 1..n : i < j => s[i].block < s[j].block
    BY <1>1 DEF ResultsInOrder
  <2> HIDE DEF s, n
  <2>4. SortedByBlock(s) = s
    BY <2>2, <2>3, SortKeepsAscending
  <2> QED
    BY <2>4 DEF s
<1>4. results' = results
  BY <1>2, <1>3
<1>5. ResultsInOrder'
  <2>1. ResultsInOrder /\ joined = NBlocks /\ outcome # "panicked" /\ outcome' # "panicked"
    BY <1>1, <1>2
  <2>2. results' = results /\ joined' = joined /\ errors' = errors /\ price' = price
    BY <1>1, <1>2, <1>4
  <2> QED
    BY <2>1, <2>2 DEF ResultsInOrder, TrueEdge
<1> QED
  BY <1>1, <1>5 DEF CountInv

LEMMA CountStep == CountInv /\ [Next]_vars => CountInv'
<1> SUFFICES ASSUME CountInv, [Next]_vars PROVE CountInv'
  OBVIOUS
<1>1. CASE UNCHANGED vars
  <2>1. ScanInv' /\ TasksTyped' /\ TaskOnCourse' /\ ResultsInOrder'
    BY <1>1, NextKeeps, TasksKept, ResultsKept DEF CountInv, vars, collected
  <2> QED
    BY <2>1 DEF CountInv
<1> QED
  BY <1>1, TaskCounts, SpawnCounts, JoinCounts, ReportCounts DEF Next

LEMMA CountInvariant == Spec => []CountInv
  BY CountInit, CountStep, PTL DEF Spec

\* A report accounts for every block once, with the edge that the block's rates give, and
\* calls profitable only what returns more than its capital: whatever the number of blocks,
\* legs and capitals, the order in which the tasks were answered, and whichever failed
\* (triangle_scan.rs:98-145, two_pool_scan.rs:79-115).
THEOREM ReportsCountEveryBlock == Spec => []EveryBlockCounted
<1>1. CountInv => EveryBlockCounted
  <2> SUFFICES ASSUME CountInv, outcome = "reported", NEW c \in DOMAIN Capitals
               PROVE  /\ Len(results[c]) + errors = NBlocks
                      /\ \A i \in DOMAIN results[c] :
                           /\ results[c][i].edge
                                = EdgeOf(RoundTrip(results[c][i].block, Capitals[c]), Capitals[c])
                           /\ i > 1 => results[c][i - 1].block < results[c][i].block
                           /\ results[c][i].block = results[1][i].block
                      /\ \A i \in Profitable(c) :
                           RoundTrip(results[c][i].block, Capitals[c]) > Capitals[c]
    BY Zenon DEF EveryBlockCounted
  <2>1. c \in 1..Len(Capitals) /\ Capitals[c] \in Nat
    BY ScanConstants
  <2>2. /\ results[c] \in Samples /\ joined = NBlocks
        /\ Len(results[c]) + errors = NBlocks
        /\ \A i \in 1..Len(results[c]) :
             /\ results[c][i].edge = TrueEdge(results[c][i].block, c)
             /\ results[c][i].block = results[1][i].block
        /\ \A i, j \in 1..Len(results[c]) : i < j => results[c][i].block < results[c][j].block
    BY <2>1 DEF CountInv, ResultsInOrder
  <2>3. DOMAIN results[c] = 1..Len(results[c]) /\ Len(results[c]) \in Nat
    BY <2>2, SampleFacts
  <2>4. ASSUME NEW i \in DOMAIN results[c]
        PROVE  /\ RoundTrip(results[c][i].block, Capitals[c])
                    = After(price[results[c][i].block], Capitals[c])[Legs]
               /\ RoundTrip(results[c][i].block, Capitals[c]) \in Nat
    <3>1. results[c][i].block \in Ranks
      BY <2>2, <2>3, SampleFacts
    <3> DEFINE r == results[c][i].block
    <3>2. r \in Ranks
      BY <3>1
    <3>3. price[r] \in [1..Legs -> Nat]
      <4> HIDE DEF r
      <4> QED
        BY <3>2, TypedFacts
    <3> HIDE DEF r
    <3>4. After(price[r], Capitals[c])[Legs] \in Nat
      <4>1. Legs \in 0..Legs
        BY ScanConstants
      <4>2. \A l \in 0..Legs : After(price[r], Capitals[c])[l] \in Nat
        BY <2>1, <3>3, TripFacts
      <4> QED
        BY <4>1, <4>2, Zenon
    <3> QED
      BY <2>1, <3>1, <3>4, RoundTripIsTrip DEF r
  <2>5. ASSUME NEW i \in DOMAIN results[c]
        PROVE  results[c][i].edge = EdgeOf(RoundTrip(results[c][i].block, Capitals[c]), Capitals[c])
    BY <2>2, <2>3, <2>4 DEF TrueEdge
  <2>6. ASSUME NEW i \in DOMAIN results[c], i > 1
        PROVE  results[c][i - 1].block < results[c][i].block
    <3>1. i - 1 \in 1..Len(results[c]) /\ i - 1 < i
      BY <2>3, <2>6
    <3> QED
      BY <2>2, <2>3, <3>1
  <2>7. ASSUME NEW i \in Profitable(c)
        PROVE  RoundTrip(results[c][i].block, Capitals[c]) > Capitals[c]
    <3>1. i \in DOMAIN results[c] /\ results[c][i].edge - FeeBps > 0
      BY DEF Profitable
    <3> DEFINE out == RoundTrip(results[c][i].block, Capitals[c])
    <3>2. out \in Nat /\ EdgeOf(out, Capitals[c]) - FeeBps > 0
      BY <2>4, <2>5, <3>1
    <3> HIDE DEF out
    <3>3. out > Capitals[c]
      BY <2>1, <3>2, EdgeFacts
    <3> QED
      BY <3>3 DEF out
  <2> QED
    BY <2>2, <2>3, <2>5, <2>6, <2>7
<1> QED
  BY <1>1, CountInvariant, PTL

-----------------------------------------------------------------------------
(* The report of a backtest.  Points, and the words they are counted in.   *)

PnlPoint == [block : Nat, net : Amounts]
Series == Seq(PnlPoint)

LEMMA WordFacts == Word \in Nat /\ LimbBase \in Nat /\ 1 < LimbBase /\ LimbBase <= Word
<1> DEFINE b2 == LimbBase * LimbBase
           b3 == b2 * LimbBase
<1>1. LimbBase \in Nat /\ 1 < LimbBase
  BY LimbAssumption
<1>2. \A x \in Nat : x >= LimbBase => x * LimbBase \in Nat /\ x * LimbBase >= LimbBase
  <2> SUFFICES ASSUME NEW x \in Nat, x >= LimbBase
               PROVE  x * LimbBase \in Nat /\ x * LimbBase >= LimbBase
    OBVIOUS
  <2>1. x * LimbBase \in Nat /\ x * LimbBase >= 1 * LimbBase
    BY <1>1, SMT
  <2> QED
    BY <1>1, <2>1
<1>3. b2 \in Nat /\ b2 >= LimbBase
  BY <1>1, <1>2
<1> HIDE DEF b2
<1>4. b3 \in Nat /\ b3 >= LimbBase
  BY <1>2, <1>3
<1> HIDE DEF b3
<1>5. b3 * LimbBase \in Nat /\ b3 * LimbBase >= LimbBase
  BY <1>2, <1>4
<1> QED
  BY <1>1, <1>5 DEF Word, b2, b3

LEMMA SaturatingFacts ==
  ASSUME NEW a \in Amounts, NEW b \in Amounts
  PROVE  /\ SaturatingAdd(a, b) \in Amounts /\ a <= SaturatingAdd(a, b)
         /\ a \in Nat /\ b \in Nat
<1> HIDE DEF Word
<1> QED
  BY WordFacts DEF SaturatingAdd, Amounts

LEMMA SeriesFacts ==
  ASSUME NEW ps \in Series
  PROVE  /\ Len(ps) \in Nat /\ DOMAIN ps = 1..Len(ps) /\ IsFiniteSet(DOMAIN ps)
         /\ \A i \in 1..Len(ps) : /\ ps[i] \in [block : Nat, net : Amounts]
                                  /\ ps[i].block \in Nat /\ ps[i].net \in Amounts
<1>1. Len(ps) \in Nat /\ DOMAIN ps = 1..Len(ps)
  BY DEF Series, PnlPoint
<1>2. \A i \in 1..Len(ps) : ps[i] \in [block : Nat, net : Amounts]
  <2> DEFINE P == [block : Nat, net : Amounts]
  <2>1. ps \in Seq(P)
    BY DEF Series, PnlPoint
  <2> HIDE DEF P
  <2>2. \A i \in 1..Len(ps) : ps[i] \in P
    BY <2>1
  <2> QED
    BY <2>2 DEF P
<1>3. IsFiniteSet(1..Len(ps))
  BY <1>1, FS_Interval
<1> QED
  BY <1>1, <1>2, <1>3

-----------------------------------------------------------------------------
IsRunning(f, ps, I) ==
  f = [i \in 0..Len(ps) |->
         IF i = 0 THEN 0
         ELSE IF i \in I THEN SaturatingAdd(f[i - 1], ps[i].net) ELSE f[i - 1]]

LEMMA RunningSumFacts ==
  ASSUME NEW ps \in Series, NEW I
  PROVE  /\ RunningSum(ps, I)[0] = 0
         /\ \A i \in 1..Len(ps) :
              RunningSum(ps, I)[i] = IF i \in I THEN SaturatingAdd(RunningSum(ps, I)[i - 1], ps[i].net)
                                     ELSE RunningSum(ps, I)[i - 1]
         /\ \A i \in 0..Len(ps) : RunningSum(ps, I)[i] \in Amounts
<1> DEFINE step == [kv \in Nat \X Amounts |->
                      IF kv[1] \in I /\ kv[1] \in 1..Len(ps)
                      THEN SaturatingAdd(kv[2], ps[kv[1]].net) ELSE kv[2]]
           f == RunningSum(ps, I)
<1>1. step \in [Nat \X Amounts -> Amounts]
  <2>1. \A k \in 1..Len(ps), v \in Amounts : SaturatingAdd(v, ps[k].net) \in Amounts
    BY SeriesFacts, SaturatingFacts
  <2> QED
    BY <2>1
<1>2. 0 \in Amounts
  BY WordFacts DEF Amounts
<1>3. PICK g \in [0..Len(ps) -> Amounts] : IsIteration(g, 0, step, Len(ps))
  <2> HIDE DEF step
  <2> QED
    BY <1>1, <1>2, SeriesFacts, IterationExists
<1>4. \A i \in 0..Len(ps) : g[i] = IF i = 0 THEN 0
                                   ELSE IF i \in I THEN SaturatingAdd(g[i - 1], ps[i].net) ELSE g[i - 1]
  <2> SUFFICES ASSUME NEW i \in 0..Len(ps)
               PROVE  g[i] = IF i = 0 THEN 0
                             ELSE IF i \in I THEN SaturatingAdd(g[i - 1], ps[i].net) ELSE g[i - 1]
    OBVIOUS
  <2>1. g[i] = IF i = 0 THEN 0 ELSE step[<<i, g[i - 1]>>]
    <3> HIDE DEF step
    <3> QED
      BY <1>3 DEF IsIteration
  <2>2. CASE i # 0
    <3>1. i \in 1..Len(ps) /\ i - 1 \in 0..Len(ps) /\ i \in Nat
      BY <2>2, SeriesFacts
    <3>2. g[i - 1] \in Amounts
      BY <3>1
    <3> QED
      BY <2>1, <2>2, <3>1, <3>2
  <2> QED
    BY <2>1, <2>2
<1>5. IsRunning(g, ps, I)
  <2>1. g = [i \in 0..Len(ps) |-> IF i = 0 THEN 0
                                  ELSE IF i \in I THEN SaturatingAdd(g[i - 1], ps[i].net) ELSE g[i - 1]]
    BY <1>4
  <2> QED
    BY <2>1 DEF IsRunning
<1>6. f = CHOOSE h : IsRunning(h, ps, I)
  BY DEF RunningSum, IsRunning
<1>7. IsRunning(f, ps, I)
  BY <1>5, <1>6, Zenon
<1> HIDE DEF f, step
<1>8. \A i \in 0..Len(ps) : f[i] = IF i = 0 THEN 0
                                   ELSE IF i \in I THEN SaturatingAdd(f[i - 1], ps[i].net) ELSE f[i - 1]
  BY <1>7 DEF IsRunning
<1>9. f[0] = 0 /\ \A i \in 1..Len(ps) :
                    f[i] = IF i \in I THEN SaturatingAdd(f[i - 1], ps[i].net) ELSE f[i - 1]
  <2>1. 0 \in 0..Len(ps) /\ \A i \in 1..Len(ps) : i \in 0..Len(ps) /\ i # 0
    BY SeriesFacts
  <2> QED
    BY <1>8, <2>1
<1>10. \A i \in 0..Len(ps) : f[i] \in Amounts
  <2> DEFINE N == {i \in Nat : i <= Len(ps) => f[i] \in Amounts}
  <2>1. 0 \in N
    BY <1>2, <1>9
  <2>2. ASSUME NEW i \in Nat, i \in N PROVE i + 1 \in N
    <3> SUFFICES ASSUME i + 1 <= Len(ps) PROVE f[i + 1] \in Amounts
      OBVIOUS
    <3>1. i <= Len(ps) /\ i + 1 \in 1..Len(ps) /\ (i + 1) - 1 = i
      BY SeriesFacts
    <3>2. f[i] \in Amounts /\ ps[i + 1].net \in Amounts
      BY <2>2, <3>1, SeriesFacts
    <3>3. f[i + 1] = IF i + 1 \in I THEN SaturatingAdd(f[i], ps[i + 1].net) ELSE f[i]
      BY <1>9, <3>1
    <3>4. SaturatingAdd(f[i], ps[i + 1].net) \in Amounts
      BY <3>2, SaturatingFacts
    <3> QED
      BY <3>2, <3>3, <3>4
  <2> HIDE DEF N
  <2>3. Nat \subseteq N
    BY <2>1, <2>2, SetInduction
  <2> QED
    BY <2>3, SeriesFacts DEF N
<1> QED
  BY <1>9, <1>10 DEF f

-----------------------------------------------------------------------------
(* The daily sums.                                                         *)

LEMMA CappedStep ==
  ASSUME NEW sum \in Nat, NEW part \in Amounts, part <= sum, NEW x \in Amounts
  PROVE  SaturatingAdd(Capped(sum), x) = Capped(sum - part + SaturatingAdd(part, x))
  BY WordFacts DEF SaturatingAdd, Capped, Amounts

LEMMA DailyTotal ==
  ASSUME NEW ps \in Series
  PROVE  SumProfit(ps, DOMAIN ps) = Capped(SumFunction(DailyPnl(ps)))
<1> DEFINE days == Days(ps)
           all == RunningSum(ps, DOMAIN ps)
           day(i) == BlockToDay(ps[i].block)
           Of(d) == RunningSum(ps, OfDay(ps, d))
           daily(i) == [d \in days |-> Of(d)[i]]
<1>1. IsFiniteSet(days) /\ \A i \in 1..Len(ps) : day(i) \in days
  <2>1. days = {day(i) : i \in 1..Len(ps)}
    BY SeriesFacts DEF Days
  <2> DEFINE dayOf == [i \in 1..Len(ps) |-> day(i)]
  <2>2. dayOf \in Surjection(1..Len(ps), days)
    <3>1. dayOf \in [1..Len(ps) -> days] /\ \A d \in days : \E i \in 1..Len(ps) : dayOf[i] = d
      BY <2>1
    <3> QED
      BY <3>1 DEF Surjection
  <2>3. IsFiniteSet(1..Len(ps))
    BY SeriesFacts, FS_Interval
  <2>4. IsFiniteSet(days)
    <3> HIDE DEF dayOf, days
    <3> QED
      BY <2>2, <2>3, FS_Surjection
  <2> QED
    BY <2>1, <2>4
<1>2. ASSUME NEW i \in 0..Len(ps) PROVE daily(i) \in [days -> Amounts] /\ daily(i) \in [days -> Nat]
  <2>1. \A d \in days : Of(d)[i] \in Amounts
    BY RunningSumFacts
  <2>2. Amounts \subseteq Nat
    BY WordFacts DEF Amounts
  <2> HIDE DEF days, Of
  <2> QED
    BY <2>1, <2>2
<1> DEFINE N == {i \in Nat : i <= Len(ps) => all[i] = Capped(SumFunction(daily(i)))}
<1>3. 0 \in N
  <2>1. daily(0) = [d \in days |-> 0]
    BY RunningSumFacts
  <2>2. SumFunction([d \in days |-> 0]) = 0
    <3> HIDE DEF days
    <3> QED
      BY <1>1, SumOfZeros, Zenon DEF IsSum
  <2>3. all[0] = 0
    BY RunningSumFacts
  <2>4. Capped(0) = 0
    BY WordFacts DEF Capped
  <2> HIDE DEF days, all, daily
  <2> QED
    BY <2>1, <2>2, <2>3, <2>4
<1>4. ASSUME NEW i \in Nat, i \in N PROVE i + 1 \in N
  <2> SUFFICES ASSUME i + 1 <= Len(ps) PROVE all[i + 1] = Capped(SumFunction(daily(i + 1)))
    OBVIOUS
  <2>1. /\ i <= Len(ps) /\ i \in 0..Len(ps) /\ i + 1 \in 0..Len(ps) /\ i + 1 \in 1..Len(ps)
        /\ (i + 1) - 1 = i
    BY SeriesFacts
  <2> DEFINE d0 == day(i + 1)
             x == ps[i + 1].net
             old == daily(i)
             new == daily(i + 1)
  <2>2. d0 \in days /\ x \in Amounts
    BY <1>1, <2>1, SeriesFacts
  <2>3. all[i] = Capped(SumFunction(old))
    BY <1>4, <2>1
  <2>4. all[i + 1] = SaturatingAdd(all[i], x)
    BY <2>1, RunningSumFacts, SeriesFacts
  <2>5. \A d \in days : Of(d)[i + 1] = IF d = d0 THEN SaturatingAdd(Of(d)[i], x) ELSE Of(d)[i]
    <3> SUFFICES ASSUME NEW d \in days
                 PROVE  Of(d)[i + 1] = IF d = d0 THEN SaturatingAdd(Of(d)[i], x) ELSE Of(d)[i]
      OBVIOUS
    <3>1. i + 1 \in OfDay(ps, d) <=> d = d0
      BY <2>1, SeriesFacts DEF OfDay
    <3>2. Of(d)[i + 1] = IF i + 1 \in OfDay(ps, d) THEN SaturatingAdd(Of(d)[(i + 1) - 1], x)
                         ELSE Of(d)[(i + 1) - 1]
      BY <2>1, RunningSumFacts
    <3> HIDE DEF Of, d0, x
    <3> QED
      BY <2>1, <3>1, <3>2
  <2>6. /\ old \in [days -> Nat] /\ new \in [days -> Nat] /\ old[d0] \in Amounts
        /\ new[d0] = SaturatingAdd(old[d0], x)
        /\ \A d \in days : d # d0 => new[d] = old[d]
    <3>1. old \in [days -> Nat] /\ new \in [days -> Nat] /\ old \in [days -> Amounts]
      BY <1>2, <2>1
    <3> HIDE DEF Of, d0, x, days
    <3> QED
      BY <2>2, <2>5, <3>1
  <2> HIDE DEF old, new, d0, x, all, days
  <2>7. SumFunction(new) = SumFunction(old) - old[d0] + new[d0]
    BY <1>1, <2>2, <2>6, SumsDiffer, ZenonT(40)
  <2>8. SumFunction(old) \in Nat /\ old[d0] <= SumFunction(old)
    BY <1>1, <2>2, <2>6, MemberAtMostSum DEF IsSum
  <2>9. SaturatingAdd(Capped(SumFunction(old)), x)
          = Capped(SumFunction(old) - old[d0] + SaturatingAdd(old[d0], x))
    BY <2>2, <2>6, <2>8, CappedStep
  <2>10. all[i + 1] = Capped(SumFunction(new))
    BY <2>3, <2>4, <2>6, <2>7, <2>9
  <2> QED
    BY <2>10 DEF new
<1>5. all[Len(ps)] = Capped(SumFunction(daily(Len(ps))))
  <2> HIDE DEF N
  <2>1. Nat \subseteq N
    BY <1>3, <1>4, SetInduction
  <2> QED
    BY <2>1, SeriesFacts DEF N
<1>6. daily(Len(ps)) = DailyPnl(ps)
  BY DEF DailyPnl, SumProfit
<1> HIDE DEF daily
<1> QED
  BY <1>5, <1>6 DEF SumProfit

LEMMA EveryTradeCounted ==
  ASSUME NEW ps \in Series
  PROVE  Len(ps) = Cardinality({i \in DOMAIN ps : ps[i].net > 0})
                     + Cardinality({i \in DOMAIN ps : ps[i].net = 0})
<1> DEFINE W == {i \in DOMAIN ps : ps[i].net > 0}
           L == {i \in DOMAIN ps : ps[i].net = 0}
<1>1. \A i \in DOMAIN ps : ps[i].net \in Nat
  BY SeriesFacts, WordFacts DEF Amounts
<1>2. W \cup L = 1..Len(ps) /\ W \cap L = {} /\ W \subseteq DOMAIN ps /\ L \subseteq DOMAIN ps
  BY <1>1, SeriesFacts
<1> HIDE DEF W, L
<1>3. IsFiniteSet(W) /\ IsFiniteSet(L)
  BY <1>2, SeriesFacts, FS_Subset
<1>4. Cardinality(W \cup L) = Cardinality(W) + Cardinality(L) - Cardinality(W \cap L)
  BY <1>3, FS_Union
<1>5. Cardinality(1..Len(ps)) = Len(ps)
  <2>1. \A n \in Nat : Cardinality(1..n) = n
    BY FS_Interval
  <2> QED
    BY <2>1, SeriesFacts
<1>6. Cardinality(W) \in Nat /\ Cardinality(L) \in Nat /\ Cardinality({}) = 0
  BY <1>3, FS_CardinalityType, FS_EmptySet
<1>7. Len(ps) = Cardinality(W) + Cardinality(L)
  <2>1. Cardinality(1..Len(ps)) = Cardinality(W) + Cardinality(L) - Cardinality({})
    BY <1>2, <1>4
  <2> QED
    BY <1>5, <1>6, <2>1
<1> QED
  BY <1>7 DEF W, L

LEMMA AverageIsShare ==
  ASSUME NEW total \in Nat, NEW n \in Nat \ {0}
  PROVE  (total \div n) * n <= total /\ total < (total \div n + 1) * n
<1>1. total \div n \in Int /\ n * (total \div n) <= total /\ total < n * (total \div n) + n
  BY DivBounds
<1> DEFINE q == total \div n
<1>2. q * n = n * q /\ (q + 1) * n = n * q + n
  BY <1>1, SMT
<1> HIDE DEF q
<1> QED
  BY <1>1, <1>2 DEF q

LEMMA MetricsAddUp ==
  ASSUME NEW ps \in Series, NEW m, m = Compute(ps)
  PROVE  /\ m.total = Capped(SumFunction(m.daily))
         /\ ps # <<>> => m.total = m.curve[Len(ps)]
         /\ m.trades = m.winning + m.losing
         /\ m.average * m.trades <= m.total
         /\ ps # <<>> => m.total < (m.average + 1) * m.trades
<1> DEFINE total == SumProfit(ps, DOMAIN ps)
<1>1. /\ m.total = total /\ m.trades = Len(ps) /\ m.daily = DailyPnl(ps)
      /\ m.winning = Cardinality({i \in DOMAIN ps : ps[i].net > 0})
      /\ m.losing = Cardinality({i \in DOMAIN ps : ps[i].net = 0})
      /\ m.average = IF ps = <<>> THEN 0 ELSE total \div Len(ps)
      /\ m.curve = EquityCurve(ps)
  BY Zenon DEF Compute
<1>2. total \in Nat
  <2>1. total \in Amounts
    BY RunningSumFacts, SeriesFacts DEF SumProfit
  <2> QED
    BY <2>1, WordFacts DEF Amounts
<1>3. total = Capped(SumFunction(DailyPnl(ps)))
  BY DailyTotal
<1>4. ASSUME ps # <<>> PROVE total = EquityCurve(ps)[Len(ps)] /\ Len(ps) \in Nat \ {0}
  <2>1. Len(ps) \in Nat \ {0}
    BY <1>4, SeriesFacts DEF Series, PnlPoint
  <2>2. Len(ps) \in DOMAIN ps
    BY <2>1, SeriesFacts
  <2> QED
    BY <2>1, <2>2 DEF EquityCurve, SumProfit
<1> HIDE DEF total
<1>5. m.average * m.trades <= m.total /\ (ps # <<>> => m.total < (m.average + 1) * m.trades)
  <2>1. CASE ps = <<>>
    <3>1. m.average = 0 /\ m.trades \in Nat /\ 0 * m.trades = 0
      BY <1>1, <2>1, SeriesFacts
    <3> QED
      BY <1>1, <1>2, <2>1, <3>1
  <2>2. CASE ps # <<>>
    <3>1. m.average = total \div Len(ps) /\ Len(ps) \in Nat \ {0}
      BY <1>1, <1>4, <2>2
    <3>2. (total \div Len(ps)) * Len(ps) <= total /\ total < (total \div Len(ps) + 1) * Len(ps)
      BY <1>2, <3>1, AverageIsShare
    <3> QED
      BY <1>1, <3>1, <3>2
  <2> QED
    BY <2>1, <2>2
<1> QED
  BY <1>1, <1>3, <1>4, <1>5, EveryTradeCounted

-----------------------------------------------------------------------------
(* The equity never falls, and below one limb it is read in its order.     *)

LEMMA EquityGrows ==
  ASSUME NEW ps \in Series, NEW I, NEW i \in 0..Len(ps), NEW j \in 0..Len(ps), i <= j
  PROVE  RunningSum(ps, I)[i] <= RunningSum(ps, I)[j]
<1> DEFINE f == RunningSum(ps, I)
           N == {k \in Nat : i <= k /\ k <= Len(ps) => f[i] <= f[k]}
<1>1. \A k \in 0..Len(ps) : f[k] \in Nat /\ f[k] \in Amounts
  BY RunningSumFacts, WordFacts DEF Amounts
<1>2. ASSUME NEW k \in Nat, k \in N, i <= k + 1, k + 1 <= Len(ps) PROVE f[i] <= f[k + 1]
  <2>1. CASE i = k + 1
    BY <1>1, <2>1
  <2>2. CASE i # k + 1
    <3>1. i <= k /\ k \in 0..Len(ps) /\ k + 1 \in 1..Len(ps) /\ (k + 1) - 1 = k /\ k + 1 \in 0..Len(ps)
      BY <1>2, <2>2, SeriesFacts
    <3>2. f[i] <= f[k]
      BY <1>2, <3>1
    <3>3. f[k + 1] = IF k + 1 \in I THEN SaturatingAdd(f[k], ps[k + 1].net) ELSE f[k]
      BY <3>1, RunningSumFacts
    <3>4. f[k] <= SaturatingAdd(f[k], ps[k + 1].net)
      BY <1>1, <3>1, SeriesFacts, SaturatingFacts
    <3>5. f[k] <= f[k + 1]
      BY <1>1, <3>1, <3>3, <3>4
    <3> HIDE DEF f
    <3> QED
      BY <1>1, <3>1, <3>2, <3>5
  <2> QED
    BY <2>1, <2>2
<1>3. 0 \in N
  BY <1>1
<1>4. Nat \subseteq N
  <2>1. \A k \in Nat : k \in N => k + 1 \in N
    BY <1>2
  <2> HIDE DEF N
  <2> QED
    BY <1>3, <2>1, SetInduction
<1> QED
  BY <1>4, SeriesFacts

Top == LimbBase * (LimbBase * LimbBase)

LEMMA SmallQuotient ==
  ASSUME NEW x \in Nat, NEW d \in Nat, x < d
  PROVE  x \div d = 0 /\ x % d = x
  BY SMT

LEMMA ReversedSmall ==
  ASSUME NEW x \in Nat, x < LimbBase
  PROVE  Reversed(x) = Top * x
<1> DEFINE b2 == LimbBase * LimbBase
           b3 == LimbBase * LimbBase * LimbBase
<1>1. LimbBase \in Nat /\ 1 < LimbBase
  BY WordFacts
<1>2. b2 \in Nat /\ LimbBase <= b2
  BY <1>1, SMT
<1>3. b3 \in Nat /\ b3 = b2 * LimbBase /\ b2 <= b3
  <2> HIDE DEF b2
  <2>1. b2 * LimbBase \in Nat /\ b2 <= b2 * LimbBase
    BY <1>1, <1>2, SMT
  <2> QED
    BY <2>1 DEF b2
<1> HIDE DEF b2, b3
<1>4. x < b2 /\ x < b3
  BY <1>1, <1>2, <1>3
<1>5. x \div LimbBase = 0 /\ x \div b2 = 0 /\ x \div b3 = 0 /\ x % LimbBase = x /\ 0 % LimbBase = 0
  BY <1>1, <1>2, <1>3, <1>4, SmallQuotient
<1>6. x \div 1 = x
  BY SMT
<1>7. Limb(x, 0) = x
  BY <1>5, <1>6 DEF Limb
<1>8. Limb(x, 1) = 0 /\ Limb(x, 2) = 0 /\ Limb(x, 3) = 0
  BY <1>5 DEF Limb, b2, b3
<1>9. Reversed(x) = 0 + LimbBase * (0 + LimbBase * (0 + LimbBase * x))
  BY <1>7, <1>8 DEF Reversed, Number
<1>10. LimbBase * (LimbBase * (LimbBase * x)) = Top * x
  BY <1>1, SMT DEF Top
<1> QED
  BY <1>1, <1>9, <1>10, SMT

LEMMA ReversedIsInt ==
  ASSUME NEW x \in Nat
  PROVE  Reversed(x) \in Int
<1>1. LimbBase \in Nat \ {0}
  BY WordFacts
<1>2. \A y \in Int : y % LimbBase \in Int
  BY <1>1
<1>3. \A d \in Nat \ {0} : x \div d \in Int
  BY DivBounds
<1>4. LimbBase * LimbBase \in Nat \ {0} /\ LimbBase * LimbBase * LimbBase \in Nat \ {0}
  <2>1. \A a, b \in Nat \ {0} : a * b \in Nat \ {0}
    BY SMT
  <2> QED
    BY <1>1, <2>1
<1>5. Limb(x, 0) \in Int /\ Limb(x, 1) \in Int /\ Limb(x, 2) \in Int /\ Limb(x, 3) \in Int
  BY <1>1, <1>2, <1>3, <1>4 DEF Limb
<1>6. \A a, b \in Int : a + LimbBase * b \in Int
  BY <1>1, SMT
<1> QED
  BY <1>5, <1>6 DEF Reversed, Number

LEMMA NoFallNoDrawdown ==
  ASSUME NEW n \in Nat, NEW value \in [0..n -> Int],
         \A i, j \in 0..n : i <= j => value[i] <= value[j]
  PROVE  LargestFall(value, n) = 0
<1> DEFINE falls == {value[p[1]] - value[p[2]] : p \in {q \in (0..n) \X (0..n) : q[1] <= q[2]}}
           Is(d) == d \in falls /\ \A e \in falls : e <= d
<1>1. \A e \in falls : e \in Int /\ e <= 0
  <2> SUFFICES ASSUME NEW i \in 0..n, NEW j \in 0..n, i <= j
               PROVE  value[i] - value[j] \in Int /\ value[i] - value[j] <= 0
    OBVIOUS
  <2>1. value[i] \in Int /\ value[j] \in Int /\ value[i] <= value[j]
    OBVIOUS
  <2> QED
    BY <2>1
<1>2. 0 \in falls
  <2>1. <<0, 0>> \in {q \in (0..n) \X (0..n) : q[1] <= q[2]} /\ value[0] - value[0] = 0
    OBVIOUS
  <2> QED
    BY <2>1
<1>3. LargestFall(value, n) = CHOOSE d : Is(d)
  BY DEF LargestFall
<1> HIDE DEF falls
<1>4. Is(0)
  BY <1>1, <1>2
<1>5. Is(LargestFall(value, n))
  <2> HIDE DEF Is
  <2> QED
    BY <1>3, <1>4, Zenon
<1> QED
  BY <1>1, <1>2, <1>5

LEMMA SmallProfitNoDrawdown ==
  ASSUME NEW ps \in Series, SumProfit(ps, DOMAIN ps) < LimbBase
  PROVE  MaxDrawdown(ps) = 0
<1> DEFINE n == Len(ps)
           S == RunningSum(ps, DOMAIN ps)
           C == AmountToF64(Capital)
           curve == EquityCurve(ps)
           value == [i \in 0..n |-> C + (IF i = 0 THEN 0 ELSE AmountToF64(curve[i]))]
<1>1. n \in Nat /\ LimbBase \in Nat /\ S[0] = 0
  BY SeriesFacts, WordFacts, RunningSumFacts
<1>2. C \in Int
  BY ReversedIsInt, ReportAssumption, WordFacts DEF AmountToF64, Amounts
<1>3. Top \in Nat
  BY <1>1, SMT DEF Top
<1>4. \A i \in 0..n : S[i] \in Nat /\ S[i] < LimbBase
  <2>1. \A i \in 0..n : S[i] \in Nat
    BY RunningSumFacts, WordFacts DEF Amounts
  <2>2. n \in 0..n /\ \A i \in 0..n : i <= n
    BY <1>1
  <2>3. \A i \in 0..n : S[i] <= S[n]
    BY <2>2, EquityGrows
  <2>4. S[n] < LimbBase
    BY DEF SumProfit
  <2> HIDE DEF S
  <2> QED
    BY <1>1, <2>1, <2>2, <2>3, <2>4
<1>5. \A i \in 0..n : value[i] = C + Top * S[i]
  <2> SUFFICES ASSUME NEW i \in 0..n PROVE value[i] = C + Top * S[i]
    OBVIOUS
  <2>1. CASE i = 0
    BY <1>1, <1>2, <1>3, <2>1
  <2>2. CASE i # 0
    <3>1. i \in DOMAIN ps
      BY <2>2, SeriesFacts
    <3>2. curve[i] = S[i]
      BY <3>1 DEF EquityCurve
    <3>3. AmountToF64(curve[i]) = Top * S[i]
      BY <1>4, <3>2, ReversedSmall DEF AmountToF64
    <3> QED
      BY <2>2, <3>3
  <2> QED
    BY <2>1, <2>2
<1>6. \A i, j \in 0..n : i <= j => S[i] <= S[j]
  BY EquityGrows
<1> HIDE DEF S, C
<1>7. \A i \in 0..n : Top * S[i] \in Int /\ C + Top * S[i] \in Int
  BY <1>2, <1>3, <1>4, SMT
<1>8. \A i, j \in 0..n : i <= j => C + Top * S[i] <= C + Top * S[j]
  <2> SUFFICES ASSUME NEW i \in 0..n, NEW j \in 0..n, i <= j
               PROVE  C + Top * S[i] <= C + Top * S[j]
    OBVIOUS
  <2>1. S[i] \in Nat /\ S[j] \in Nat /\ S[i] <= S[j]
    BY <1>4, <1>6
  <2>2. Top * S[i] <= Top * S[j]
    BY <1>3, <2>1, SMT
  <2> QED
    BY <1>2, <1>7, <2>2
<1>9. value \in [0..n -> Int] /\ \A i, j \in 0..n : i <= j => value[i] <= value[j]
  <2>1. \A i \in 0..n : value[i] \in Int
    BY <1>5, <1>7
  <2>2. value \in [0..n -> Int]
    BY <2>1
  <2> HIDE DEF value
  <2> QED
    BY <1>5, <1>8, <2>2
<1>10. MaxDrawdown(ps) = LargestFall(value, n)
  BY DEF MaxDrawdown
<1> HIDE DEF value, n
<1> QED
  BY <1>1, <1>9, <1>10, NoFallNoDrawdown

-----------------------------------------------------------------------------
(* The windows.                                                            *)

IsKept(f, ps, I) ==
  f = [i \in 0..Len(ps) |->
         IF i = 0 THEN <<>>
         ELSE IF i \in I THEN Append(f[i - 1], ps[i]) ELSE f[i - 1]]

\* What is kept of the first points.
KeptUpTo(ps, I) == CHOOSE f : IsKept(f, ps, I)

LEMMA KeptFacts ==
  ASSUME NEW ps \in Series, NEW I
  PROVE  /\ Kept(ps, I) = KeptUpTo(ps, I)[Len(ps)]
         /\ KeptUpTo(ps, I)[0] = <<>>
         /\ \A i \in 1..Len(ps) :
              KeptUpTo(ps, I)[i] = IF i \in I THEN Append(KeptUpTo(ps, I)[i - 1], ps[i])
                                   ELSE KeptUpTo(ps, I)[i - 1]
         /\ \A i \in 0..Len(ps) : KeptUpTo(ps, I)[i] \in Series
<1> DEFINE step == [kv \in Nat \X Series |->
                      IF kv[1] \in I /\ kv[1] \in 1..Len(ps) THEN Append(kv[2], ps[kv[1]]) ELSE kv[2]]
           f == KeptUpTo(ps, I)
<1>1. \A k \in 1..Len(ps), v \in Series : Append(v, ps[k]) \in Series
  <2> DEFINE P == [block : Nat, net : Amounts]
  <2>1. \A k \in 1..Len(ps) : ps[k] \in P
    BY SeriesFacts
  <2> HIDE DEF P
  <2>2. \A v \in Seq(P), e \in P : Append(v, e) \in Seq(P)
    BY AppendProperties
  <2>3. Series = Seq(P)
    BY DEF Series, PnlPoint, P
  <2> QED
    BY <2>1, <2>2, <2>3
<1>2. step \in [Nat \X Series -> Series]
  BY <1>1
<1>3. <<>> \in Series
  BY DEF Series, PnlPoint
<1>4. PICK g \in [0..Len(ps) -> Series] : IsIteration(g, <<>>, step, Len(ps))
  <2> HIDE DEF step
  <2> QED
    BY <1>2, <1>3, SeriesFacts, IterationExists
<1>5. \A i \in 0..Len(ps) : g[i] = IF i = 0 THEN <<>>
                                   ELSE IF i \in I THEN Append(g[i - 1], ps[i]) ELSE g[i - 1]
  <2> SUFFICES ASSUME NEW i \in 0..Len(ps)
               PROVE  g[i] = IF i = 0 THEN <<>>
                             ELSE IF i \in I THEN Append(g[i - 1], ps[i]) ELSE g[i - 1]
    OBVIOUS
  <2>1. g[i] = IF i = 0 THEN <<>> ELSE step[<<i, g[i - 1]>>]
    <3> HIDE DEF step
    <3> QED
      BY <1>4 DEF IsIteration
  <2>2. CASE i # 0
    <3>1. i \in 1..Len(ps) /\ i - 1 \in 0..Len(ps) /\ i \in Nat
      BY <2>2, SeriesFacts
    <3>2. g[i - 1] \in Series
      BY <3>1
    <3> QED
      BY <2>1, <2>2, <3>1, <3>2
  <2> QED
    BY <2>1, <2>2
<1>6. IsKept(g, ps, I)
  <2>1. g = [i \in 0..Len(ps) |-> IF i = 0 THEN <<>>
                                  ELSE IF i \in I THEN Append(g[i - 1], ps[i]) ELSE g[i - 1]]
    BY <1>5
  <2> QED
    BY <2>1 DEF IsKept
<1>7. IsKept(f, ps, I)
  BY <1>6, Zenon DEF KeptUpTo
<1>8. Kept(ps, I) = f[Len(ps)]
  BY DEF Kept, IsKept, KeptUpTo
<1> HIDE DEF f, step
<1>9. \A i \in 0..Len(ps) : f[i] = IF i = 0 THEN <<>>
                                   ELSE IF i \in I THEN Append(f[i - 1], ps[i]) ELSE f[i - 1]
  BY <1>7 DEF IsKept
<1>10. f[0] = <<>> /\ \A i \in 1..Len(ps) :
                    f[i] = IF i \in I THEN Append(f[i - 1], ps[i]) ELSE f[i - 1]
  <2>1. 0 \in 0..Len(ps) /\ \A i \in 1..Len(ps) : i \in 0..Len(ps) /\ i # 0
    BY SeriesFacts
  <2> QED
    BY <1>9, <2>1
<1>11. \A i \in 0..Len(ps) : f[i] \in Series
  <2> DEFINE N == {i \in Nat : i <= Len(ps) => f[i] \in Series}
  <2>1. 0 \in N
    BY <1>3, <1>10
  <2>2. ASSUME NEW i \in Nat, i \in N PROVE i + 1 \in N
    <3> SUFFICES ASSUME i + 1 <= Len(ps) PROVE f[i + 1] \in Series
      OBVIOUS
    <3>1. i <= Len(ps) /\ i + 1 \in 1..Len(ps) /\ (i + 1) - 1 = i
      BY SeriesFacts
    <3>2. f[i] \in Series
      BY <2>2, <3>1
    <3>3. f[i + 1] = IF i + 1 \in I THEN Append(f[i], ps[i + 1]) ELSE f[i]
      BY <1>10, <3>1
    <3>4. Append(f[i], ps[i + 1]) \in Series
      BY <1>1, <3>1, <3>2
    <3> QED
      BY <3>2, <3>3, <3>4
  <2> HIDE DEF N
  <2>3. Nat \subseteq N
    BY <2>1, <2>2, SetInduction
  <2> QED
    BY <2>3, SeriesFacts DEF N
<1> QED
  BY <1>8, <1>10, <1>11 DEF f

LEMMA KeptMembers ==
  ASSUME NEW ps \in Series, NEW I, NEW m \in DOMAIN Kept(ps, I)
  PROVE  \E i \in DOMAIN ps : i \in I /\ Kept(ps, I)[m] = ps[i]
<1> DEFINE f == KeptUpTo(ps, I)
           From(s) == \A k \in 1..Len(s) : \E i \in 1..Len(ps) : i \in I /\ s[k] = ps[i]
           N == {j \in Nat : j <= Len(ps) => From(f[j])}
<1>1. 0 \in N
  <2>1. Len(f[0]) = 0
    BY KeptFacts
  <2> QED
    BY <2>1
<1>2. ASSUME NEW j \in Nat, j \in N PROVE j + 1 \in N
  <2> HIDE DEF From, f
  <2> SUFFICES ASSUME j + 1 <= Len(ps) PROVE From(f[j + 1])
    OBVIOUS
  <2> USE DEF From, f
  <2>1. j <= Len(ps) /\ j \in 0..Len(ps) /\ j + 1 \in 1..Len(ps) /\ (j + 1) - 1 = j
    BY SeriesFacts
  <2>2. f[j] \in Series /\ f[j + 1] = IF j + 1 \in I THEN Append(f[j], ps[j + 1]) ELSE f[j]
    BY <2>1, KeptFacts
  <2>3. From(f[j])
    BY <1>2, <2>1
  <2>4. CASE j + 1 \in I
    <3> DEFINE s == f[j]
               e == ps[j + 1]
    <3>1. /\ Len(s) \in Nat /\ Len(Append(s, e)) = Len(s) + 1 /\ Append(s, e)[Len(s) + 1] = e
          /\ \A k \in 1..Len(s) : Append(s, e)[k] = s[k]
      BY <2>1, <2>2, SeriesFacts, AppendProperties DEF Series, PnlPoint
    <3>2. From(s) /\ f[j + 1] = Append(s, e) /\ e = ps[j + 1]
      BY <2>2, <2>3, <2>4
    <3> HIDE DEF s, e, f
    <3> SUFFICES ASSUME NEW k \in 1..(Len(s) + 1)
                 PROVE  \E i \in 1..Len(ps) : i \in I /\ Append(s, e)[k] = ps[i]
      BY <3>1, <3>2
    <3>3. CASE k \in 1..Len(s)
      BY <3>1, <3>2, <3>3
    <3>4. CASE k = Len(s) + 1
      BY <2>1, <2>4, <3>1, <3>2, <3>4
    <3> QED
      BY <3>1, <3>3, <3>4
  <2>5. CASE j + 1 \notin I
    BY <2>2, <2>3, <2>5
  <2> QED
    BY <2>4, <2>5
<1>3. From(f[Len(ps)])
  <2> HIDE DEF N
  <2>1. Nat \subseteq N
    BY <1>1, <1>2, SetInduction
  <2> QED
    BY <2>1, SeriesFacts DEF N
<1>4. Kept(ps, I) = f[Len(ps)] /\ f[Len(ps)] \in Series
  BY KeptFacts, SeriesFacts
<1>5. m \in 1..Len(f[Len(ps)])
  BY <1>4 DEF Series, PnlPoint
<1> HIDE DEF f
<1> QED
  BY <1>3, <1>4, <1>5, SeriesFacts

LEMMA AppendToSecond ==
  ASSUME NEW s \in Series, NEW t \in Series, NEW e \in PnlPoint
  PROVE  Append(s \o t, e) = s \o Append(t, e)
<1>1. s \in Seq(PnlPoint) /\ t \in Seq(PnlPoint)
  BY DEF Series
<1>2. Append(t, e) = t \o <<e>> /\ <<e>> \in Seq(PnlPoint)
  BY <1>1, AppendIsConcat
<1>3. s \o t \in Seq(PnlPoint)
  BY <1>1, ConcatProperties
<1>4. Append(s \o t, e) = (s \o t) \o <<e>>
  BY <1>3, AppendIsConcat
<1>5. (s \o t) \o <<e>> = s \o (t \o <<e>>)
  BY <1>1, <1>2, ConcatAssociative, SMTT(30)
<1> QED
  BY <1>2, <1>4, <1>5

\* What is kept at positions that all come before others, and then at those, is what is
\* kept at both.
LEMMA KeptInTurn ==
  ASSUME NEW ps \in Series, NEW I, NEW J, \A i \in I, j \in J : i < j
  PROVE  Kept(ps, I) \o Kept(ps, J) = Kept(ps, I \cup J)
<1> DEFINE f == KeptUpTo(ps, I)
           g == KeptUpTo(ps, J)
           h == KeptUpTo(ps, I \cup J)
           Joined(k) == /\ f[k] \o g[k] = h[k]
                        /\ (\A j \in J : ~(j \in 1..k)) => g[k] = <<>>
           N == {k \in Nat : k <= Len(ps) => Joined(k)}
<1>1. 0 \in N
  <2>1. f[0] = <<>> /\ g[0] = <<>> /\ h[0] = <<>>
    BY KeptFacts
  <2>2. <<>> \o <<>> = <<>>
    OBVIOUS
  <2> QED
    BY <2>1, <2>2
<1>2. ASSUME NEW k \in Nat, k \in N PROVE k + 1 \in N
  <2> HIDE DEF Joined
  <2> SUFFICES ASSUME k + 1 <= Len(ps) PROVE Joined(k + 1)
    OBVIOUS
  <2> USE DEF Joined
  <2>1. k <= Len(ps) /\ k \in 0..Len(ps) /\ k + 1 \in 1..Len(ps) /\ (k + 1) - 1 = k
    BY SeriesFacts
  <2> DEFINE e == ps[k + 1]
             P == [block : Nat, net : Amounts]
  <2>2. /\ f[k] \in Seq(P) /\ g[k] \in Seq(P) /\ h[k] \in Seq(P)
        /\ f[k + 1] = IF k + 1 \in I THEN Append(f[k], e) ELSE f[k]
        /\ g[k + 1] = IF k + 1 \in J THEN Append(g[k], e) ELSE g[k]
        /\ h[k + 1] = IF k + 1 \in I \cup J THEN Append(h[k], e) ELSE h[k]
    <3>1. Series = Seq(P)
      BY DEF Series, PnlPoint
    <3> HIDE DEF P
    <3>2. /\ f[k] \in Series /\ g[k] \in Series /\ h[k] \in Series
          /\ f[k + 1] = IF k + 1 \in I THEN Append(f[(k + 1) - 1], e) ELSE f[(k + 1) - 1]
          /\ g[k + 1] = IF k + 1 \in J THEN Append(g[(k + 1) - 1], e) ELSE g[(k + 1) - 1]
          /\ h[k + 1] = IF k + 1 \in I \cup J THEN Append(h[(k + 1) - 1], e) ELSE h[(k + 1) - 1]
      <4>1. \A I0 : /\ KeptUpTo(ps, I0)[k] \in Series
                   /\ KeptUpTo(ps, I0)[k + 1] =
                        IF k + 1 \in I0 THEN Append(KeptUpTo(ps, I0)[(k + 1) - 1], ps[k + 1])
                        ELSE KeptUpTo(ps, I0)[(k + 1) - 1]
        <5> HIDE DEF N
        <5> QED
          BY <2>1, KeptFacts
      <4> QED
        BY <4>1, Zenon
    <3> HIDE DEF f, g, h, e, N
    <3> QED
      BY <2>1, <3>1, <3>2
  <2>3. f[k] \o g[k] = h[k] /\ ((\A j \in J : ~(j \in 1..k)) => g[k] = <<>>)
    BY <1>2, <2>1
  <2>4. e \in P
    BY <2>1, SeriesFacts
  <2> HIDE DEF P, e, f, g, h, N
  <2>5. CASE k + 1 \in J
    <3>1. k + 1 \notin I
      BY <2>5
    <3>2. Append(f[k] \o g[k], e) = f[k] \o Append(g[k], e)
      <4>1. f[k] \in Series /\ g[k] \in Series /\ e \in PnlPoint
        BY <2>2, <2>4 DEF Series, PnlPoint, P
      <4> QED
        BY <4>1, AppendToSecond, Zenon
    <3>3. k + 1 \in 1..(k + 1)
      OBVIOUS
    <3> QED
      BY <2>2, <2>3, <2>5, <3>1, <3>2, <3>3
  <2>6. CASE k + 1 \in I
    <3>1. k + 1 \notin J /\ \A j \in J : ~(j \in 1..k) /\ ~(j \in 1..(k + 1))
      BY <2>6
    <3>2. g[k] = <<>> /\ f[k] = h[k]
      <4>1. g[k] = <<>>
        BY <2>3, <3>1
      <4>2. f[k] \o <<>> = f[k]
        BY <2>2
      <4> QED
        BY <2>3, <4>1, <4>2
    <3>3. Append(f[k], e) \o <<>> = Append(f[k], e)
      BY <2>2, <2>4
    <3> QED
      BY <2>2, <2>6, <3>1, <3>2, <3>3
  <2>7. CASE k + 1 \notin I /\ k + 1 \notin J
    <3>1. (\A j \in J : ~(j \in 1..(k + 1))) => \A j \in J : ~(j \in 1..k)
      OBVIOUS
    <3> QED
      BY <2>2, <2>3, <2>7, <3>1
  <2> QED
    BY <2>5, <2>6, <2>7
<1>3. f[Len(ps)] \o g[Len(ps)] = h[Len(ps)]
  <2> HIDE DEF N
  <2>1. Nat \subseteq N
    BY <1>1, <1>2, SetInduction
  <2>2. Len(ps) \in N /\ Len(ps) <= Len(ps)
    BY <2>1, SeriesFacts
  <2> HIDE DEF f, g, h
  <2> QED
    BY <2>2, Zenon DEF N
<1> QED
  BY <1>3, KeptFacts

\* What is kept at the first n positions is the series up to there.
LEMMA KeptPrefix ==
  ASSUME NEW ps \in Series, NEW n \in 0..Len(ps)
  PROVE  Kept(ps, 1..n) = SubSeq(ps, 1, n)
<1> DEFINE f == KeptUpTo(ps, 1..n)
           P == [block : Nat, net : Amounts]
           upTo(k) == IF k <= n THEN k ELSE n
           N == {k \in Nat : k <= Len(ps) => f[k] = SubSeq(ps, 1, upTo(k))}
<1>1. n \in Nat /\ Len(ps) \in Nat /\ ps \in Seq(P)
  BY SeriesFacts DEF Series, PnlPoint
<1>2. 0 \in N
  <2>1. f[0] = <<>> /\ upTo(0) = 0
    BY <1>1, KeptFacts
  <2>2. SubSeq(ps, 1, 0) = <<>>
    BY SubSeqEmpty
  <2> QED
    BY <2>1, <2>2
<1>3. ASSUME NEW k \in Nat, k \in N PROVE k + 1 \in N
  <2> SUFFICES ASSUME k + 1 <= Len(ps) PROVE f[k + 1] = SubSeq(ps, 1, upTo(k + 1))
    OBVIOUS
  <2>1. k <= Len(ps) /\ k \in 0..Len(ps) /\ k + 1 \in 1..Len(ps) /\ (k + 1) - 1 = k
    BY <1>1
  <2>2. f[k + 1] = IF k + 1 \in 1..n THEN Append(f[k], ps[k + 1]) ELSE f[k]
    BY <2>1, KeptFacts
  <2>3. f[k] = SubSeq(ps, 1, upTo(k))
    BY <1>3, <2>1
  <2>4. CASE k + 1 <= n
    <3>1. upTo(k) = k /\ upTo(k + 1) = k + 1 /\ k + 1 \in 1..n /\ 1 \in 1..Len(ps) /\ k + 1 \in 1..Len(ps)
      BY <1>1, <2>1, <2>4
    <3> HIDE DEF P, f, N
    <3>2. SubSeq(ps, 1, k + 1) = SubSeq(ps, 1, k) \o <<ps[k + 1]>>
      BY <1>1, <2>1, <3>1, SubSeqRecursiveSecond
    <3>3. SubSeq(ps, 1, k) \in Seq(P) /\ ps[k + 1] \in P
      <4>1. \A i \in 1..Len(ps) : ps[i] \in P
        BY <1>1
      <4>2. \A i \in 1..k : ps[i] \in P
        BY <1>1, <2>1, <4>1
      <4> QED
        BY <2>1, <4>1, <4>2, SubSeqProperties
    <3>4. Append(SubSeq(ps, 1, k), ps[k + 1]) = SubSeq(ps, 1, k) \o <<ps[k + 1]>>
      BY <3>3, AppendIsConcat
    <3> QED
      BY <2>2, <2>3, <3>1, <3>2, <3>4
  <2>5. CASE ~(k + 1 <= n)
    <3>1. upTo(k + 1) = n /\ upTo(k) = n /\ k + 1 \notin 1..n
      BY <1>1, <2>5
    <3> QED
      BY <2>2, <2>3, <3>1
  <2> QED
    BY <2>4, <2>5
<1>4. f[Len(ps)] = SubSeq(ps, 1, n)
  <2>1. upTo(Len(ps)) = n
    BY <1>1
  <2> HIDE DEF N
  <2>2. Nat \subseteq N
    BY <1>2, <1>3, SetInduction
  <2> QED
    BY <1>1, <2>1, <2>2 DEF N
<1> QED
  BY <1>4, KeptFacts

Ascending(ps) == \A i, j \in DOMAIN ps : i < j => ps[i].block < ps[j].block

\* In a series in the order of its blocks, the points below a block are the first ones.
LEMMA BelowIsPrefix ==
  ASSUME NEW ps \in Series, Ascending(ps), NEW end \in Int, NEW B,
         B = {i \in DOMAIN ps : ps[i].block < end}
  PROVE  Cardinality(B) \in 0..Len(ps) /\ B = 1..Cardinality(B)
<1> DEFINE n == Len(ps)
           Out == {i \in Nat : i >= 1 /\ i \notin B}
<1>1. n \in Nat /\ DOMAIN ps = 1..n /\ \A i \in 1..n : ps[i].block \in Nat
  BY SeriesFacts
<1>2. n + 1 \in Out
  BY <1>1
<1>3. PICK m \in Out : \A y \in Out : m <= y
  <2>1. Out \in SUBSET Nat /\ Out # {}
    BY <1>2
  <2> HIDE DEF Out
  <2> QED
    BY <2>1, LeastNatural
<1>4. m \in Nat /\ m >= 1 /\ m - 1 \in Nat /\ m - 1 <= n /\ m \notin B
  BY <1>1, <1>2, <1>3
<1>5. \A i \in 1..(m - 1) : i \in B
  BY <1>3, <1>4
<1>6. \A i \in B : i \in 1..(m - 1)
  <2> SUFFICES ASSUME NEW i \in B, ~(i \in 1..(m - 1)) PROVE FALSE
    OBVIOUS
  <2>1. i \in 1..n /\ m < i /\ m \in 1..n
    BY <1>1, <1>4
  <2>2. ps[m].block < ps[i].block /\ ps[i].block < end
    BY <1>1, <2>1 DEF Ascending
  <2>3. ps[m].block < end
    BY <1>1, <2>1, <2>2
  <2> QED
    BY <1>1, <1>4, <2>1, <2>3
<1>7. B = 1..(m - 1)
  BY <1>5, <1>6
<1>8. Cardinality(1..(m - 1)) = m - 1
  <2>1. \A k \in Nat : Cardinality(1..k) = k
    BY FS_Interval
  <2> QED
    BY <1>4, <2>1
<1>9. Cardinality(B) = m - 1
  BY <1>7, <1>8
<1>10. m - 1 \in 0..Len(ps)
  BY <1>1, <1>4
<1> HIDE DEF n, Out
<1> QED
  BY <1>7, <1>9, <1>10, Zenon

LEMMA SplitIsUnseen ==
  ASSUME NEW ps \in Series, Ascending(ps), ps # <<>>, NEW split, split = WalkForwardSplit(ps)
  PROVE  /\ \A i \in DOMAIN split.train, j \in DOMAIN split.test :
              split.train[i].block < split.test[j].block
         /\ split.train \o split.test =
              SubSeq(ps, 1, Cardinality({i \in DOMAIN ps :
                                           ps[i].block < ps[1].block + TrainBlocks + TestBlocks}))
<1> DEFINE start == ps[1].block
           mid == start + TrainBlocks
           end == mid + TestBlocks
           I == Within(ps, start, mid)
           J == Within(ps, mid, end)
           B == {i \in DOMAIN ps : ps[i].block < end}
<1>1. split.train = Kept(ps, I) /\ split.test = Kept(ps, J)
  BY DEF WalkForwardSplit
<1>2. /\ Len(ps) \in Nat /\ DOMAIN ps = 1..Len(ps) /\ 1 \in 1..Len(ps)
      /\ \A i \in DOMAIN ps : ps[i].block \in Nat
  <2>1. Len(ps) # 0
    BY DEF Series, PnlPoint
  <2> QED
    BY <2>1, SeriesFacts
<1>3. start \in Nat /\ mid \in Nat /\ end \in Nat /\ start <= mid /\ mid <= end
  BY <1>2, ReportAssumption
<1>4. \A i \in DOMAIN ps : start <= ps[i].block
  <2> SUFFICES ASSUME NEW i \in DOMAIN ps PROVE start <= ps[i].block
    OBVIOUS
  <2>1. CASE i = 1
    BY <1>3, <2>1
  <2>2. CASE i # 1
    BY <1>2, <2>2 DEF Ascending
  <2> QED
    BY <2>1, <2>2
<1>5. /\ \A i \in I : i \in DOMAIN ps /\ ps[i].block < mid
      /\ \A j \in J : j \in DOMAIN ps /\ mid <= ps[j].block
  BY DEF Within
<1>6. I \cup J = B
  <2> HIDE DEF start, mid, end
  <2> SUFFICES ASSUME NEW i \in DOMAIN ps
               PROVE  i \in I \/ i \in J <=> ps[i].block < end
    BY DEF Within
  <2>1. ps[i].block \in Nat /\ start <= ps[i].block
    BY <1>2, <1>4
  <2> QED
    BY <1>3, <2>1 DEF Within
<1> HIDE DEF start, mid, I, J
<1>7. \A i \in DOMAIN split.train, j \in DOMAIN split.test :
        split.train[i].block < split.test[j].block
  <2> SUFFICES ASSUME NEW i \in DOMAIN Kept(ps, I), NEW j \in DOMAIN Kept(ps, J)
               PROVE  Kept(ps, I)[i].block < Kept(ps, J)[j].block
    BY <1>1
  <2>1. PICK x \in DOMAIN ps : x \in I /\ Kept(ps, I)[i] = ps[x]
    BY KeptMembers
  <2>2. PICK y \in DOMAIN ps : y \in J /\ Kept(ps, J)[j] = ps[y]
    BY KeptMembers
  <2>3. ps[x].block < ps[y].block
    BY <1>2, <1>3, <1>5, <2>1, <2>2
  <2> QED
    BY <2>1, <2>2, <2>3
<1>8. \A i \in I, j \in J : i < j
  <2> SUFFICES ASSUME NEW i \in I, NEW j \in J, ~(i < j) PROVE FALSE
    OBVIOUS
  <2>1. i \in 1..Len(ps) /\ j \in 1..Len(ps) /\ (j = i \/ j < i)
    BY <1>2, <1>5
  <2>2. ps[j].block = ps[i].block \/ ps[j].block < ps[i].block
    BY <1>2, <2>1 DEF Ascending
  <2> QED
    BY <1>2, <1>3, <1>5, <2>1, <2>2
<1>9. Kept(ps, I) \o Kept(ps, J) = Kept(ps, B)
  <2> HIDE DEF B
  <2>1. Kept(ps, I) \o Kept(ps, J) = Kept(ps, I \cup J)
    BY <1>8, KeptInTurn
  <2> QED
    BY <1>6, <2>1, Zenon
<1>10. Cardinality(B) \in 0..Len(ps) /\ B = 1..Cardinality(B)
  <2> DEFINE e == end
  <2>1. e \in Int
    BY <1>3
  <2>2. B = {i \in DOMAIN ps : ps[i].block < e}
    OBVIOUS
  <2> HIDE DEF e, B
  <2> QED
    BY <2>1, <2>2, BelowIsPrefix
<1>11. Kept(ps, B) = SubSeq(ps, 1, Cardinality(B))
  <2> HIDE DEF B
  <2>1. Kept(ps, 1..Cardinality(B)) = SubSeq(ps, 1, Cardinality(B))
    BY <1>10, KeptPrefix
  <2> QED
    BY <1>10, <2>1, Zenon
<1>12. split.train \o split.test = SubSeq(ps, 1, Cardinality(B))
  BY <1>1, <1>9, <1>11, Zenon
<1> QED
  BY <1>7, <1>12 DEF mid, start

-----------------------------------------------------------------------------
(* The strengthening: the driver collects the points in the order of their *)
(* blocks, none of them a loss, and a report is the one of its points.     *)

ReportInv ==
  /\ block \in Nat
  /\ points \in Series
  /\ \A i \in DOMAIN points : points[i].block < block
  /\ Ascending(points)
  /\ Done => report = [metrics |-> Compute(points), split |-> WalkForwardSplit(points)]

LEMMA NetIsAmount ==
  ASSUME NEW gross \in GrossProfits, NEW included, NEW reverted
  PROVE  Apply(gross, included, reverted).net \in Amounts
<1>1. gross \in Amounts /\ Word \in Nat /\ 1 < Word
  BY ReportAssumption, WordFacts
<1>2. \A n \in Int : Minus(gross, n % Word) \in Amounts
  <2> SUFFICES ASSUME NEW n \in Int PROVE Minus(gross, n % Word) \in Amounts
    OBVIOUS
  <2>1. n % Word \in Nat
    BY <1>1, SMT
  <2> QED
    BY <1>1, <2>1 DEF Minus, Amounts
<1>3. ASSUME NEW a \in Amounts, NEW f \in Nat PROVE ScaleAmount(a, f) \in Int
  <2>1. a \in Nat
    BY <1>1, <1>3 DEF Amounts
  <2>2. a * f \in Int
    BY <1>3, <2>1, SMT
  <2>3. (a * f) % Word \in Int
    BY <1>1, <2>2, SMT
  <2> QED
    BY <2>3, DivBounds DEF ScaleAmount, Ten4
<1>4. BribeFactor \in Nat
  <2>1. BribeBps * (Ten4 + BribeStressBps) + Ten4 \div 2 \in Nat
    BY ReportAssumption, SMT DEF Ten4
  <2>2. \A n \in Nat : n \div Ten4 \in Nat
    BY SMT DEF Ten4
  <2> QED
    BY <2>1, <2>2 DEF BribeFactor
<1>5. NetIfIncluded(gross) \in Amounts
  <2>1. ScaleAmount(GasCost, Ten4 + GasStressBps) + ScaleAmount(gross, BribeFactor) \in Int
    <3>1. Ten4 + GasStressBps \in Nat /\ GasCost \in Amounts
      BY ReportAssumption DEF Ten4
    <3>2. ScaleAmount(GasCost, Ten4 + GasStressBps) \in Int /\ ScaleAmount(gross, BribeFactor) \in Int
      BY <1>1, <1>3, <1>4, <3>1
    <3> QED
      BY <3>2
  <2> QED
    BY <1>2, <2>1 DEF NetIfIncluded
<1>6. 0 \in Amounts
  BY <1>1 DEF Amounts
<1> QED
  BY <1>5, <1>6 DEF Apply

LEMMA ReportInvInit == ReportInit => ReportInv
<1> SUFFICES ASSUME ReportInit PROVE ReportInv
  OBVIOUS
<1>1. block \in Nat /\ points = <<>> /\ ~Done
  BY ReportAssumption DEF ReportInit, Done
<1>2. points \in Series /\ DOMAIN points = {}
  BY <1>1 DEF Series, PnlPoint
<1> QED
  BY <1>1, <1>2 DEF ReportInv, Ascending

LEMMA ObserveInOrder == ASSUME ReportInv, Observe PROVE ReportInv'
<1> DEFINE P == [block : Nat, net : Amounts]
<1>1. PICK e \in P : points' = Append(points, e) /\ e.block = block
  <2>1. PICK gross \in GrossProfits, included \in Inclusions, reverted \in BOOLEAN :
          points' = Append(points, [block |-> block, net |-> Apply(gross, included, reverted).net])
    BY DEF Observe
  <2>2. Apply(gross, included, reverted).net \in Amounts /\ block \in Nat
    BY NetIsAmount DEF ReportInv
  <2> QED
    BY <2>1, <2>2
<1>2. block \in Nat /\ block' = block + 1 /\ ~Done /\ report' = report
  BY DEF ReportInv, Observe, Done
<1>3. points \in Seq(P)
  BY DEF ReportInv, Series, PnlPoint
<1>4. \A i \in 1..Len(points) : points[i].block < block /\ points[i].block \in Nat
  BY SeriesFacts DEF ReportInv
<1>5. \A i, j \in 1..Len(points) : i < j => points[i].block < points[j].block
  BY SeriesFacts DEF ReportInv, Ascending
<1> DEFINE n == Len(points)
           new == Append(points, e)
<1> HIDE DEF P
<1>6. /\ n \in Nat /\ new \in Seq(P) /\ Len(new) = n + 1 /\ new[n + 1] = e
      /\ \A i \in 1..n : new[i] = points[i]
  BY <1>3, AppendProperties
<1>7. DOMAIN new = 1..(n + 1)
  BY <1>6
<1> HIDE DEF n, new
<1>8. \A i \in 1..(n + 1) : new[i].block < block + 1
  <2> SUFFICES ASSUME NEW i \in 1..(n + 1) PROVE new[i].block < block + 1
    OBVIOUS
  <2>1. CASE i \in 1..n
    BY <1>2, <1>4, <1>6, <2>1 DEF n
  <2>2. CASE i = n + 1
    BY <1>1, <1>2, <1>6, <2>2
  <2> QED
    BY <1>6, <2>1, <2>2
<1>9. \A i, j \in 1..(n + 1) : i < j => new[i].block < new[j].block
  <2> SUFFICES ASSUME NEW i \in 1..(n + 1), NEW j \in 1..(n + 1), i < j
               PROVE  new[i].block < new[j].block
    OBVIOUS
  <2>1. i \in 1..n
    BY <1>6
  <2>2. CASE j \in 1..n
    BY <1>5, <1>6, <2>1, <2>2 DEF n
  <2>3. CASE j = n + 1
    BY <1>1, <1>4, <1>6, <2>1, <2>3 DEF n
  <2> QED
    BY <1>6, <2>2, <2>3
<1>10. points' = new
  BY <1>1 DEF new
<1>11. points' \in Series
  BY <1>6, <1>10 DEF Series, PnlPoint, P
<1>12. \A i \in DOMAIN points' : points'[i].block < block'
  BY <1>2, <1>7, <1>8, <1>10
<1>13. Ascending(points)'
  BY <1>7, <1>9, <1>10 DEF Ascending
<1> QED
  BY <1>2, <1>11, <1>12, <1>13 DEF ReportInv, Done

LEMMA ReportInvStep == ReportInv /\ [ReportNext]_reportVars => ReportInv'
<1> SUFFICES ASSUME ReportInv, [ReportNext]_reportVars PROVE ReportInv'
  OBVIOUS
<1>1. CASE Observe
  BY <1>1, ObserveInOrder
<1>2. CASE Skip
  <2>1. /\ block \in Nat /\ block' = block + 1 /\ points' = points /\ report' = report
        /\ \A i \in DOMAIN points : points[i].block < block /\ points[i].block \in Nat
    BY <1>2, SeriesFacts DEF ReportInv, Skip
  <2> QED
    BY <2>1 DEF ReportInv, Ascending, Done
<1>3. CASE Finish
  BY <1>3 DEF ReportInv, Finish, Ascending, Done
<1>4. CASE UNCHANGED reportVars
  BY <1>4 DEF ReportInv, reportVars, Ascending, Done
<1> QED
  BY <1>1, <1>2, <1>3, <1>4 DEF ReportNext

LEMMA ReportsOfTheirPoints == ReportSpec => []ReportInv
  BY ReportInvInit, ReportInvStep, PTL DEF ReportSpec

LEMMA ReportHas ==
  ASSUME ReportInv, Done
  PROVE  report.metrics = Compute(points) /\ report.split = WalkForwardSplit(points)
  BY DEF ReportInv

\* The figures of every report agree with each other, whatever the points, the costs and
\* the days are and wherever the sums saturate.
THEOREM ReportsAgree == ReportSpec => []ReportAddsUp
<1>1. ReportInv => ReportAddsUp
  <2> SUFFICES ASSUME ReportInv, Done PROVE ReportAddsUp
    BY DEF ReportAddsUp
  <2> DEFINE m == report.metrics
  <2>1. m = Compute(points) /\ points \in Series
    BY ReportHas DEF ReportInv
  <2> HIDE DEF m
  <2>2. /\ m.total = Capped(SumFunction(m.daily))
        /\ points # <<>> => m.total = m.curve[Len(points)]
        /\ m.trades = m.winning + m.losing
        /\ m.average * m.trades <= m.total
        /\ points # <<>> => m.total < (m.average + 1) * m.trades
    BY <2>1, MetricsAddUp, Zenon
  <2> QED
    BY <2>2, Zenon DEF ReportAddsUp, m
<1> QED
  BY <1>1, ReportsOfTheirPoints, PTL

\* No report has a drawdown as long as the whole profit fits one limb, for every size of
\* limb and every capital.
THEOREM DrawdownNeedsALimb == ReportSpec => []NoDrawdownWithinLimb
<1>1. ReportInv => NoDrawdownWithinLimb
  <2> SUFFICES ASSUME ReportInv, Done, report.metrics.drawdown > 0
               PROVE  report.metrics.total >= LimbBase
    BY DEF NoDrawdownWithinLimb
  <2>1. report.metrics = Compute(points) /\ points \in Series
    BY ReportHas DEF ReportInv
  <2>2. /\ report.metrics.total = SumProfit(points, DOMAIN points)
        /\ report.metrics.drawdown = MaxDrawdown(points)
    <3> DEFINE m == report.metrics
    <3>1. m = Compute(points)
      BY <2>1
    <3> HIDE DEF m
    <3>2. m.total = SumProfit(points, DOMAIN points) /\ m.drawdown = MaxDrawdown(points)
      BY <3>1, Zenon DEF Compute
    <3> QED
      BY <3>2 DEF m
  <2>3. ~(SumProfit(points, DOMAIN points) < LimbBase)
    <3>1. MaxDrawdown(points) # 0
      BY <2>2
    <3> QED
      BY <2>1, <3>1, SmallProfitNoDrawdown
  <2>4. SumProfit(points, DOMAIN points) \in Amounts
    BY <2>1, RunningSumFacts, SeriesFacts DEF SumProfit
  <2> QED
    BY <2>2, <2>3, <2>4, WordFacts DEF Amounts
<1> QED
  BY <1>1, ReportsOfTheirPoints, PTL

\* A test window holds only points after all that was trained on, and the two together are
\* the first points of the series, for windows of every length.
THEOREM TestsComeAfterTraining == ReportSpec => []TestIsUnseen
<1>1. ReportInv => TestIsUnseen
  <2> SUFFICES ASSUME ReportInv, Done, points # <<>> PROVE TestIsUnseen
    BY DEF TestIsUnseen
  <2> DEFINE split == report.split
  <2>1. split = WalkForwardSplit(points) /\ points \in Series /\ Ascending(points)
    BY ReportHas DEF ReportInv
  <2> HIDE DEF split
  <2>2. /\ \A i \in DOMAIN split.train, j \in DOMAIN split.test :
             split.train[i].block < split.test[j].block
        /\ split.train \o split.test =
             SubSeq(points, 1, Cardinality({i \in DOMAIN points :
                                              points[i].block < points[1].block + TrainBlocks + TestBlocks}))
    BY <2>1, SplitIsUnseen, Zenon
  <2> QED
    BY <2>2, Zenon DEF TestIsUnseen, split
<1> QED
  BY <1>1, ReportsOfTheirPoints, PTL
=============================================================================
