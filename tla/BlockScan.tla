------------------------------ MODULE BlockScan ------------------------------
(***************************************************************************)
(* The scanners of crates/backtest-engine/src/bin: triangle_scan.rs (three *)
(* legs, one capital) and two_pool_scan.rs (two legs, several capitals).   *)
(* main spawns a task per block, as many at a time as a semaphore allows,  *)
(* then awaits the tasks in the order of the blocks and adds up what they  *)
(* found.  A task quotes the legs one after the other, the output of one   *)
(* the input of the next.  The provider is external: the quoter's answers  *)
(* depend on the block alone, and any call may fail.                       *)
(***************************************************************************)
EXTENDS Integers, Sequences, FiniteSets

CONSTANTS
  NBlocks,      \* the blocks from..to by step, by their rank
  Concurrency,
  Capitals,     \* a sequence of amounts
  Legs,
  PriceChoices, \* what a block's pools may be: the rate of each leg, in units of RateUnit
  RateUnit, MaxU128, MaxU64, FeeBps

ASSUME ScanAssumption ==
  /\ NBlocks \in Nat /\ Concurrency \in Nat
  /\ Capitals \in Seq(Nat) /\ Capitals # <<>>
  /\ Legs \in Nat \ {0}
  /\ PriceChoices \subseteq [1..Legs -> Nat]
  /\ RateUnit \in Nat \ {0} /\ MaxU128 \in Nat /\ MaxU64 \in Nat /\ FeeBps \in Nat

Ranks == 1..NBlocks
Statuses == {"none", "running", "ok", "failed", "panicked"}

VARIABLES
  price,      \* the chain: the rates of each block
  spawned,    \* how many tasks main has spawned
  joined,     \* how many it has awaited
  permits,    \* the free permits of the semaphore
  status,     \* of each block's task
  leg, round, amount, edges,   \* where a task is: the leg and the capital it is to quote,
                               \* the amount going in, the edges of the capitals before
  results,    \* the edges collected, one sequence per capital
  errors,
  outcome     \* of main: "running", "reported" or "panicked"

tasks == <<status, leg, round, amount, edges>>
collected == <<results, errors>>
vars == <<price, spawned, joined, permits, tasks, collected, outcome>>

Init ==
  /\ price \in [Ranks -> PriceChoices]
  /\ spawned = 0 /\ joined = 0 /\ permits = Concurrency
  /\ status = [b \in Ranks |-> "none"]
  /\ leg = [b \in Ranks |-> 1] /\ round = [b \in Ranks |-> 1]
  /\ amount = [b \in Ranks |-> Capitals[1]]
  /\ edges = [b \in Ranks |-> <<>>]
  /\ results = [c \in DOMAIN Capitals |-> <<>>] /\ errors = 0
  /\ outcome = "running"

-----------------------------------------------------------------------------
(* Tasks.                                                                  *)

Bps == 10000

\* What the quoter answers.
Quoted(b, l, a) == (a * price[b][l]) \div RateUnit

Ratio(out, capital) == (out * Bps) \div capital

EdgeOf(out, capital) == IF capital = 0 THEN 0 ELSE Ratio(out, capital) - Bps

\* Mutant: a task that fails leaves without dropping its permit.
EndsWithPermit(b, how) ==
  /\ status' = [status EXCEPT ![b] = how]
  /\ permits' = IF how = "failed" THEN permits ELSE permits + 1

\* A task ends, and its permit with it.
EndsWith(b, how) ==
  /\ status' = [status EXCEPT ![b] = how]
  /\ permits' = permits + 1

Running(b) == outcome = "running" /\ status[b] = "running"

QuoteFails(b) ==
  /\ Running(b)
  /\ EndsWith(b, "failed")
  /\ UNCHANGED <<price, spawned, joined, leg, round, amount, edges, collected, outcome>>

\* The narrowing of an amount or of a ratio panics when it does not fit.
TooLarge(b, out) ==
  \/ out > MaxU128
  \/ leg[b] = Legs /\ Capitals[round[b]] > 0 /\ Ratio(out, Capitals[round[b]]) > MaxU64

NextInput(b, out) == out

\* The answer of one leg: the next leg, the next capital, or the end of the task.
QuoteArrives(b) ==
  /\ Running(b)
  /\ LET out == Quoted(b, leg[b], amount[b])
         capital == Capitals[round[b]]
     IN  \/ /\ TooLarge(b, out)
            /\ EndsWith(b, "panicked")
            /\ UNCHANGED <<leg, round, amount, edges>>
         \/ /\ ~TooLarge(b, out) /\ leg[b] < Legs
            /\ leg' = [leg EXCEPT ![b] = @ + 1]
            /\ amount' = [amount EXCEPT ![b] = NextInput(b, out)]
            /\ UNCHANGED <<status, permits, round, edges>>
         \/ /\ ~TooLarge(b, out) /\ leg[b] = Legs
            /\ edges' = [edges EXCEPT ![b] = Append(@, EdgeOf(out, capital))]
            /\ IF round[b] < Len(Capitals)
               THEN /\ leg' = [leg EXCEPT ![b] = 1]
                    /\ round' = [round EXCEPT ![b] = @ + 1]
                    /\ amount' = [amount EXCEPT ![b] = Capitals[round[b] + 1]]
                    /\ UNCHANGED <<status, permits>>
               ELSE EndsWith(b, "ok") /\ UNCHANGED <<leg, round, amount>>
  /\ UNCHANGED <<price, spawned, joined, collected, outcome>>

-----------------------------------------------------------------------------
(* main.                                                                   *)

\* Mutant: main does not wait for a permit.
SpawnAtOnce ==
  /\ outcome = "running" /\ spawned < NBlocks
  /\ permits' = permits - 1
  /\ spawned' = spawned + 1
  /\ status' = [status EXCEPT ![spawned + 1] = "running"]
  /\ UNCHANGED <<price, joined, leg, round, amount, edges, collected, outcome>>

\* acquire_owned, then spawn: main waits for a permit before each task.
Spawn ==
  /\ outcome = "running" /\ spawned < NBlocks /\ permits > 0
  /\ permits' = permits - 1
  /\ spawned' = spawned + 1
  /\ status' = [status EXCEPT ![spawned + 1] = "running"]
  /\ UNCHANGED <<price, joined, leg, round, amount, edges, collected, outcome>>

\* What the results become when a task has ended well.
Collected(b) == [c \in DOMAIN results |-> Append(results[c], [block |-> b, edge |-> edges[b][c]])]

\* Mutant: the edges a failed task had found are kept.
CollectedPartly(b) ==
  [c \in DOMAIN results |->
     IF c <= Len(edges[b]) THEN Append(results[c], [block |-> b, edge |-> edges[b][c]]) ELSE results[c]]

\* Mutant: see CollectedPartly.
JoinKeepsPartial ==
  /\ outcome = "running" /\ spawned = NBlocks /\ joined < NBlocks
  /\ LET b == joined + 1
     IN  /\ status[b] \in {"ok", "failed", "panicked"}
         /\ results' = CollectedPartly(b)
         /\ errors' = IF status[b] = "failed" THEN errors + 1 ELSE errors
         /\ outcome' = IF status[b] = "panicked" THEN "panicked" ELSE outcome
  /\ joined' = joined + 1
  /\ UNCHANGED <<price, spawned, permits, tasks>>

\* The panic of a task is the panic of main, and ends the other tasks.
Join ==
  /\ outcome = "running" /\ spawned = NBlocks /\ joined < NBlocks
  /\ LET b == joined + 1
     IN  /\ status[b] \in {"ok", "failed", "panicked"}
         /\ results' = IF status[b] = "ok" THEN Collected(b) ELSE results
         /\ errors' = IF status[b] = "failed" THEN errors + 1 ELSE errors
         /\ outcome' = IF status[b] = "panicked" THEN "panicked" ELSE outcome
  /\ joined' = joined + 1
  /\ UNCHANGED <<price, spawned, permits, tasks>>

\* sort_by_key is stable: samples of one block would keep their order.
SortedByBlock(s) ==
  LET Before(i, j) == s[i].block < s[j].block \/ (s[i].block = s[j].block /\ i < j)
      order == CHOOSE p \in [DOMAIN s -> DOMAIN s] :
                 /\ \A i \in DOMAIN s : \E j \in DOMAIN s : p[j] = i
                 /\ \A i, j \in DOMAIN s : i < j => Before(p[i], p[j])
  IN  [i \in DOMAIN s |-> s[order[i]]]

Report ==
  /\ outcome = "running" /\ joined = NBlocks
  /\ outcome' = "reported"
  /\ results' = [c \in DOMAIN results |-> SortedByBlock(results[c])]
  /\ UNCHANGED <<price, spawned, joined, permits, tasks, errors>>

\* Of the samples of a capital, those that are called profitable.
Profitable(c) == {i \in DOMAIN results[c] : results[c][i].edge - FeeBps > 0}

Task(b) == QuoteArrives(b) \/ QuoteFails(b)
Next == Spawn \/ Join \/ Report \/ \E b \in Ranks : Task(b)

\* The runtime schedules every task that can run, and every call to the provider ends: with
\* an answer, or with an error.
Fairness ==
  /\ WF_vars(Spawn) /\ WF_vars(Join) /\ WF_vars(Report)
  /\ \A b \in Ranks : WF_vars(Task(b))

Spec == Init /\ [][Next]_vars /\ Fairness

-----------------------------------------------------------------------------
(* Properties.                                                             *)

\* Every variable has its type.
TypeOK ==
  /\ spawned \in 0..NBlocks /\ joined \in 0..spawned
  /\ permits \in Nat /\ errors \in Nat
  /\ status \in [Ranks -> Statuses]
  /\ leg \in [Ranks -> 1..Legs] /\ round \in [Ranks -> 1..Len(Capitals)]
  /\ outcome \in {"running", "reported", "panicked"}

\* Permits are neither lost nor made, however tasks end: with those of the running tasks
\* there are always as many as the concurrency (triangle_scan.rs:84-96).
PermitsConserved ==
  permits + Cardinality({b \in Ranks : status[b] = "running"}) = Concurrency

\* What the chain's rates make of a capital, leg by leg.
RoundTrip(b, capital) ==
  LET after[l \in 0..Legs] == IF l = 0 THEN capital ELSE Quoted(b, l, after[l - 1])
  IN  after[Legs]

\* A report accounts for every block once: among the errors, with nothing of it among the
\* samples, or as one sample of every capital, which is the edge of that capital at that
\* block whatever the order in which tasks were answered; what it calls profitable returns
\* more than its capital (triangle_scan.rs:98-145, two_pool_scan.rs:79-115).
EveryBlockCounted ==
  outcome = "reported" =>
    \A c \in DOMAIN Capitals :
      /\ Len(results[c]) + errors = NBlocks
      /\ \A i \in DOMAIN results[c] :
           LET r == results[c][i]
           IN  /\ r.edge = EdgeOf(RoundTrip(r.block, Capitals[c]), Capitals[c])
               /\ i > 1 => results[c][i - 1].block < r.block
               /\ r.block = results[1][i].block
      /\ \A i \in Profitable(c) : RoundTrip(results[c][i].block, Capitals[c]) > Capitals[c]

\* The scan ends, however many calls fail and however few tasks run at a time: main is not
\* left waiting for a permit or for a task (triangle_scan.rs:83-99).
ScanEnds == <>(outcome # "running")
=============================================================================
