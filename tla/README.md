# On-Chain Arbitrage Lab: a TLA+ verification project

This directory models the on-chain arbitrage platform of this repository: the
Solidity contracts that hold and trade users' funds, and the off-chain programs
(Rust crates, TypeScript workers and API) around them. Modules are checked with TLC
on small instances; the core results are proved with TLAPS for every value of the
constants. File and line references are to the repository's sources.

## 1. Inventory

| Part | State it keeps | Operations | Interacts with |
|---|---|---|---|
| `ArbVault` (contracts/src/ArbVault.sol) | asset balance, shares, supply, fee, pause flag, cumulative profit | deposit, mint, withdraw, redeem, reportProfit, setters, pause | Accounting (call in try/catch), called by StrategyExecutor |
| `StrategyExecutor` | trusted vaults, adapter whitelist, token balances during and between calls | execute, setters | RiskManager, StrategyController, adapters, ArbVault, Accounting, all in one transaction |
| `RiskManager` | chains, paused scopes, blacklist, policy, daily losses | setters, recordLoss, checkExecution | read by StrategyExecutor |
| `StrategyController` | executor whitelist, allocations | setters, authorize | read by StrategyExecutor |
| `Accounting` | totals per vault | recordProfit, recordExecution | called by vault and executor, and by anyone who cares to |
| DEX adapters, `FlashLoanAdapter` | none | swap, borrow/onFlashLoan | venues (external) |
| `execution-router` (Rust) | pending nonce, transaction lifecycle | next, reconcile, transition, is_expired, submit, fee estimate, build_tx | relays and chain (external) |
| `strategy-core` (Rust) | token graph | find_cycles, quotes of V2, V3, Curve and Balancer pools | used by backtests and scanners |
| `backtest-engine` (Rust) | none (pure) | replay, simulate, cost model, metrics, walk-forward split | strategy-core |
| block scanners (Rust binaries) | permits, tasks, collected edges | spawn a task per block, quote its legs, join, report | an RPC provider (external) |
| workers (TypeScript) | BullMQ queues, Postgres rows, Redis keys | opportunity, simulation, execution, backtest, risk and accounting workers, indexer | Redis, Postgres (external), strategy models |
| API gateway (TypeScript) | none of its own | REST handlers, SSE feeds that poll Postgres | Postgres |

What is hard in it:

* **Transactions across contracts.** `execute` reads and writes five contracts; the
  order of transfer, report and fee minting decides the rate holders get. A revert
  undoes everything, so each revert condition is a guard.
* **Rounding.** Deposits, withdrawals, fees and fee shares round in integers, in
  mixes of any length.
* **Configuration racing requests.** The guardian changes policy, blacklist and pause
  between the construction of a request and its execution.
* **Accounting identities.** "Profit" is a balance difference; balances also move by
  gifts and leftovers.
* **Off-chain concurrency.** Nonces shared by senders with a reconciliation that reads
  the chain earlier than it writes; at-least-once queue jobs over shared rows; polling
  feeds over tables others insert into; a database and queues updated separately.
* **Search and arithmetic.** A bounded-hop negative-cycle search that relaxes edges in
  place, iterative invariant solvers, cost models applied twice.

What makes each part correct:

* vault: claims covered after any history and payable at any time, dilution only by
  capped fees, reports that do not depend on the public ledger;
* executor: the composed transaction is to share holders a receipt of assets; a cyclic
  route leaves no residue; a blacklist holds for every hop;
* router: no nonce is handed out twice, however stale the chain's nonce is; what is settled
  stays settled; a higher base fee never brings a lower tip;
* search: what is returned is a simple cycle along edges of the graph, with consistent
  predecessors and a bounded error in its profit (the hop bound does not bound its length, see
  finding 4);
* quotes and simulator: no quote beyond what the pool holds; no profit out of balanced pools;
* report: its figures agree with each other; the test window is unseen;
* scanners: no permit is lost, every block is counted once, the scan ends;
* workers: redelivery strands nothing; a completed job leaves its run done;
* API feeds: no row inserted after a query is passed over by the cursor set from its answer
  (rows that its LIMIT cuts off count as seen, and are lost), and a watched run is told done.

## 2. Modules

| Module | Models | Notes |
|---|---|---|
| `ShareMath` | the ERC-4626 conversions `ArbVault` inherits | external library, from its use in the vault |
| `ArbVault` | ArbVault.sol and Accounting.sol | one action per external function |
| `RiskManager`, `StrategyController` | the contracts of those names, for one vault | setters as actions, the views as predicates |
| `StrategyExecutor` | StrategyExecutor.sol composed with all of the above | one action `Execute` for the whole transaction |
| `SharePriceFund` | abstract specification: what a share holder is promised | refined by `StrategyExecutor` |
| `CycleSearch` | strategy-core's graph.rs and the cycle predicates of types.rs | one step per edge of the double loop, so that relaxation in place is what it is |
| `Limbs` | 256-bit amounts as four limbs, and how they are read as floats | shared by `GasOracle` and `BacktestReport` |
| `GasOracle` | gas_oracle.rs | operators |
| `ExecutionRouter` | nonce_tracker.rs, lifecycle.rs, relays.rs and the fees of `GasOracle`, driven by tasks | the driver, the relays and the chain are the environment |
| `PoolQuotes` | strategy-core's dex/ (V2, V3, StableSwap, weighted pools) | operators in words that wrap |
| `PlanSimulator` | simulator.rs over `PoolQuotes` | one step per hop |
| `BacktestReport` | cost_model.rs, metrics.rs, walk_forward.rs | one step per block, then the report |
| `BlockScan` | triangle_scan.rs and two_pool_scan.rs | main and one task per block; one step per answer of the quoter |
| `JobQueues` | the queue workers of queueWorkers.ts and the stream of a backtest in routes.ts | one step per write, queue call or poll |
| `RiskWatch` | the risk worker of queueWorkers.ts, the table `risk_events` and the stream of routes.ts that polls it | one action per database or Redis call |
| `FiniteFacts` | facts about sums, division, induction and iteration | used by the proofs |
| `ContractProofs` | theorems about `ArbVault` and `StrategyExecutor` | |
| `BacktestProofs` | theorems about `BlockScan` and `BacktestReport` | |
| `CycleSearchProofs`, `ExecutionRouterProofs`, `JobQueuesProofs`, `RiskWatchProofs`, `PlanSimulatorProofs` | theorems about the modules they are named for | |
| `MC...` | instances for TLC | one per specification |

**Contracts.** `asset` is the asset token's balance of every
address, `shares`/`totalSupply` the vault's own token, `totals` the entry of
`Accounting.totals`; `inventory` are the executor's balances in other tokens. A
successful external call is one step, a revert is no step. `Execute(req, outs)` walks
the route with `outs[i]` the amount the venue of hop `i` pays out: venues are external,
so any amount from `SwapOutputs` at or above the hop's floor is possible, which covers
the four adapters. Ownership checks (`onlyRole`, allowances) decide who may submit a
call and not what it does; the roles that matter to a property (`EXECUTOR_ROLE`, the
guardian's switches) are state. The external libraries and tokens are modelled from
their use and marked external in the map.

Anyone may call the ledger (`LedgerStep`), so `totals` starts a report with whatever was
written there, up to the largest number. `LedgersAfter` and `LedgersAfterExecution` are the
ledgers that a report and an execution may leave: credited, or as they were where the contract
is not set or the call fails, whose failure vault and executor swallow.

**Search.** In `CycleSearch`, `adj` and `nodes` are the `TokenGraph`; `dist` is the map of
distances without its infinite entries, so its domain is the set of reached tokens;
`prev` keeps the whole edge where the code keeps its two parts. `round`, `ni` and `ei`
are the counters of the three loops. Weights are integers: sums, comparisons and their
signs are those of the logarithms of rates that are powers of a common base; float
rounding is not modelled. A graph is built by any sequence of insertions, since the
order of insertion is the order of relaxation.

**Router.** `pending` is the counter behind the tracker's mutex. Each transaction has the
nonce and fees it was built with, its `TxLifecycle` (`life`), the place of
`RelayMultiplexer::submit` in its list of relays (`asking`) and, as the world's side of it, the
relays that hold its bundle, the receipt and the account's nonce on the chain. Nothing in
the repository calls the crate yet; the worker does what its comments say, one step per
call, with a reading of the chain's nonce that may be old when `reconcile` gets it, and
with receipts it may have looked for long ago. A restart forgets everything but the chain.

**Quotes.** `PoolQuotes` keeps the arithmetic and the guards and makes the scales
(1000, 10 000, 10^18, the constant `Q96`) constants, so that words of 15 bits hold their
products as 256-bit words hold the program's. A pool's state has all balances and
parameters; the kind of the quote is the kind of the route's hop. The program's loops are
`Iterate`, which applies a list of steps one after the other: the six terms of the logarithm,
the ten of the exponential, and the rounds of the two solvers, which `Solve` ends early as the
program does. A quote that panics (`QuotePanics`: the division of curve.rs:135 is unguarded)
ends the simulation without a result.

**Reports.** Observations are the input of `compute`: a gross profit of a small set passed
through the cost model, or none, per block. Amounts are read as floats by `Reversed`, which
is what the loop over `iter().rev()` computes.

**Scanners.** `leg`, `round`, `amount` and `edges` are the local variables of
`scan_block`; `permits` is the semaphore. Spawning and joining are main's two loops. With one
capital and three legs the module is the triangle scanner, with several capitals and two
legs the two-pool scanner; where the two differ only in what they print, one stands for
both.

**Queues.** A job (a simulation or a backtest run) has up to two deliveries; `run` is the
place of each delivery in its handler. Rows are apart from jobs: the opportunity worker
enqueues a simulation each time it finds an opportunity, its own job is delivered at least once,
and `add` is given no job id, so that several simulations may have one opportunity as their
`Subject`. BullMQ is modelled by its defaults: at most one redelivery after a stall, and no
attempts after an error, because `add` asks for none. `Stall` may happen while the first
delivery still runs, so that two handlers overlap. The execution worker always rejects (its
lookup of a model uses the first part of the id, which is "opp"), hence `Execute`. The ids are
no UUIDs, as the column demands: such an insertion fails and is logged (`Discover` leaves the
row absent), and the simulation's query fails too (`Throw`).

**Risk events.** In `RiskWatch`, `todo` and `checking` are the place of the worker in its loop, between
two awaits; `asked` is the feed's, between its query and the answer. `visible` is the
table as far as the feed can still see it: the rows later than `lastTs`. Setting the
cursor drops rows from it. Times are kept only as they compare with the cursor, a
JavaScript `Date` in milliseconds, while the table has microseconds: a row records
whether it begins a new millisecond and whether it falls exactly on one. `sent` and
`received` record what the client got; the code has no such state. The flags in Redis
are set and cleared by programs outside the repository.

## 3. Runs

Every property has a mutant of a mapped definition that TLC finds violating it.

| Run | Question | Bounds |
|---|---|---|
| `vault` | Are claims covered and payable, paused or not, can profit be reported whatever is in the ledger, who can dilute, after any mix of calls? | two share holders, four units of asset, amounts 0..3, fees 0, 50 % and (rejected) 100 %, profit reported up to 3, ledger entries up to 1 |
| `executor` | Does the composed transaction implement the abstract fund, and are its fee shares within the cap although it reports in mid-transaction? | one- and two-hop routes, principals and floors 0..1, venue outputs 0, 1 and 4, profit up to 4, with all administrator calls of the vault in between, ledger entries up to 1, no risk manager |
| `executor_policy` | Does the blacklist hold, and do cyclic routes leave no residue whatever the venues pay, while the guardian reconfigures everything? | all calls of risk manager, controller and executor, two days, routes of one and two hops in both tokens and a disconnected one, profit up to 1, a ledger that is full from the start |
| `cycle_search` | Are predecessors consistent, cycles real and no longer than the tokens allow, profits close, and is nothing found in a market without profit? | four tokens, a square of pools with a diagonal, all insertion orders and subsets, two pairs of rates, three rounds |
| `router` | Are nonces distinct, do tips follow base fees, and are settled transactions final? | two transactions, two relays, two attempts, nonces up to 2, limbs of three values, base fees within and beyond one limb, a tip of a half, a clock with two readings further apart than the time to live, in both directions |
| `simulator` | Do quotes stay within reserves, does k not fall, and is no profit found in balanced pools? | every pair of balances 0..8 of every kind, three fees up to 15 % and one of 60 %, amounts 0..10 and two far beyond what fits in a word, one and two hops, through the same pool or another, with and without a state for it |
| `backtest_report` | Do the figures agree, when is there a drawdown, is the test unseen? | six blocks, any of them without an observation, five gross profits that cross limbs of four values |
| `block_scan` | Are permits conserved, is every block counted once, does the scan end? | three blocks, two permits, two capitals, two legs, rates that keep, raise and lower, one that does not fit the integers |
| `job_queues` | What can redelivery, crashes and errors leave behind, and is the client told? | one opportunity with two simulations, or one backtest, two deliveries each, executions with any crash |
| `risk_watch` | Does the stream pass over rows inserted while it sends, how far does it repeat itself, and is a breach that persists told? | two vaults, a limit of two rows (the code's is 20), three rows past the cursor, so that a burst beyond the limit happens, two rows a millisecond |
| `executor_arrives`, `executor_loss_cap` | Does the code do what its documents say? It does not: see Findings | one vault, one execution |

The bounds are small because the hazards are: two holders suffice to see one dilute
the other, rounding shows at amounts of 1 to 3, a residue needs one hop whose output is
not the next input, and profit limits only cut off behaviours that repeat what already
happened. `MaxRealized`, `MaxInventory`, `MaxLoss`, `MaxTime`,
`MaxVisible`, `MaxPerMs`, `MaxNonce` and `MaxAttempts` are the bounds in the guards, each
commented "bound"; `MaxLedger` is no bound but the largest number of a ledger entry, small
enough for entries to be full. In `executor`, an output of 4 is the profit at which fee shares
priced before the transfer would exceed the cap.
In `simulator`, words have 15 bits, so that sums and products of the two large amounts wrap,
and a fee above a half and an amount beyond a concentrated pool's band are there because
`InputSuffices` and `NoProfitFromBalance` fail with them: each condition in those properties
is needed.
For the search, four tokens make routes long enough for a wrong order of hops to show,
and the diagonal gives cycles inside cycles, for the predecessors to be caught in; each
pool is inserted once (`MaxInsertions`). In the router, two tasks are enough for one to
reserve a nonce between the other's reading and reconciliation, and a second attempt is enough
for a bundle to be at two relays. In `job_queues`, two simulations of one opportunity are
enough for four deliveries to write its row in any order. Simulations and backtests share
neither rows nor jobs nor workers, so that the instance (`MCSpec`) has the jobs of one kind or of the
other in a behaviour: every interleaving within a kind, and not the product of the two.
`PlanSimulator`, `BacktestReport`, `BlockScan` and `JobQueues` may stop (a simulation, a
report, a scan or a set of jobs is over), so deadlock is not checked there, nor in
`CycleSearch`.

Fairness:

* none of the contracts or of the router, which promise nothing about when they are called,
  nor of the simulator and the report, which only have to be right when they are done;
* `RiskWatch` assumes that its two loops go on (weak fairness of `StartRound` and `Feed`:
  both are `while (true)` with a sleep) and strong fairness of each vault's check and
  insertion: an error may abort any number of rounds, but not every one before it reaches
  the vault. `BreachIsTold` says nothing once the stream has failed or its client has left, or
  when a query sees more rows than the limit. The bound `MaxVisible` makes the worker wait
  for the feed in the model only; while the stream is open, the feed always makes room;
* `BlockScan` assumes weak fairness of main's steps and of each task: the runtime is
  tokio's, and every call of the provider ends with an answer or an error. Failures have no
  fairness, and may always happen. `ScanEnds` holds with a concurrency above zero; with
  zero, main waits for ever for its first permit;
* `JobQueues` assumes weak fairness of what BullMQ and its workers do by themselves
  (delivery, the stalled check, a handler's next step) and of the stream's poll. Crashes,
  errors and broken streams have none. Nothing makes a job for a backtest come into
  existence, so `RunIsTold` starts from runs that have one.

## 4. Proofs

Every safety property that a run expects to hold is proved for all values of the constants,
but for the two that are stated with `ENABLED` (see the end of this section).
Each proof has the same plan: an inductive invariant,
`Init => Inv`, `Inv /\ [Next]_vars => Inv'` with one step per action, and the property from
the invariant. What a proof assumes of the constants is the named assumption in the module
that declares them, which TLC evaluates in the runs.

**Vault.** `ContractProofs` proves that `VaultInv` is inductive for all accounts, balances,
amounts and fees: types, "the supply is the sum of the shares" and the fee cap. The sum
(`IsSum`, `SumFunction` in `FiniteFacts`) is defined without recursion, with lemmas on how
updates and transfers change it. It is needed because a share balance can only be shown to be
at most the supply from it, and from that follows that a claim is payable: `ClaimsAdmitted` says
of every claim, and every part of it, that it meets all conditions `Redeem` and `Withdraw` put
on it, none of which is the pause, and `AdmittedIsTaken` that the rest of the two actions are
assignments. That is `EveryClaimPayable` without `ENABLED`, which the prover does not handle.
`ClaimsCovered` compares two sums term by term: each claim is its share of the assets
rounded down, so all of them together are at most the assets (`SumsCompare`). About the
ledger nothing is proved but its type: with writers of all kinds, no inequality between it and
the vault holds.

**Executor.** The same module carries `VaultInv` through the composed transaction with an
arbitrary route and arbitrary venue outputs (`ExecuteLemma`), and from it proves types,
admitted and covered claims, the bound on the fee shares of an execution
(`ExecutionDilutionBounded`, which needs that the vault has the profit when it prices them), the
refinement `Spec => Fund!FundSpec` under the assumption
`SingleAsset` (every request is in the vault's asset; run `executor_arrives` shows what
happens without it), that connected routes of any length avoid the blacklist, and that
cyclic routes of any length leave nothing.

**Search.** `CycleSearchProofs` proves, for any graph, weights and hop bound, that
the counters stay within the graph, that the predecessor structure is consistent, that
whatever is returned is a simple cycle along edges of the graph, with at most as many hops as
there are tokens (`DistinctInFiniteSet`) and as the guard of `reconstruct` lets through, and the
bound on the overstated profit. The inductive invariant adds to the types that every edge in `adj`
is listed under its source. The walk back from a token is a recursive function; facts
about it are proved with `SetInduction`, which is induction stated with a set in place of a
predicate and is itself proved from the well-foundedness of `<`, because an induction theorem
over an operator cannot be instantiated. `NoProfitNoCycle` (a market in which no sequence of
trades profits yields nothing) rests on `RootedUnlessNegative`: unless some simple cycle of
the graph has negative weight, the predecessors lead back from every reached token to the
start. It assumes that there are finitely many tokens.

**Router.** `ExecutionRouterProofs` proves the router's four properties for any set of
transactions, number of relays, readings of the clock, limb size and fee policy. `RouterInv`
adds to them that every nonce given out is below the counter (`NoncesBelow`): without it a
reconciliation could bring the counter back onto a nonce in use, and with it a stale reading
cannot, since `Reconciled` never lowers the counter. `TipFollowsBaseFee` goes through the
arithmetic: `FeesEstimated` says that the fees of what was sent are those of its base fee, and
for base fees of one limb the reversed reading, the scaling and the limbs that are written
back each keep the order of two amounts.

**Scanners.** `BacktestProofs` proves the types, that permits and running tasks add up to the
concurrency (by the cardinality of the set of running tasks as one enters or leaves it), and
`EveryBlockCounted`. The invariant for the last, `CountInv`, says of each task that its amounts
so far are those its rates give (`TaskOnCourse`), and of main that it has results of blocks
it has joined only, in the order of the blocks and with the edge their rates give
(`ResultsInOrder`), whatever order the tasks finished in. A stable sort of a
sequence that already ascends is the sequence itself, which is what the report needs of the
sort.

**Reports.** The same module proves the three properties of `BacktestReport` for every series of
observations, all costs, windows and days, and limbs of every size. `ReportInv` says that the points are in the order of their blocks, that a net profit is an amount
and that a report is the one of its points; the rest is about series. The model writes the
loops of metrics.rs and the filters of walk_forward.rs as functions of the position
(`RunningSum`, `Kept`), so that one induction over the positions (`SetInduction`) follows them.

* `DailyTotal`: adding a point changes one day and the total, and where either
  saturates both do (`CappedStep`), so the saturated total is the saturated sum of the
  saturated days.
* `SmallProfitNoDrawdown`: the running sum never falls (`EquityGrows`), and below one limb the
  reversed reading is a multiple of the amount (`ReversedSmall`), so the curve as it is read
  does not fall either.
* `SplitIsUnseen`: positions in the training window come before those in the test window,
  what is kept at the first and then at the second is what is kept at both (`KeptInTurn`), and the
  points below a block are the first ones of an ordered series (`BelowIsPrefix`). Without the
  order of the points this fails, since both windows start from the first point.

**Queues.** `JobQueuesProofs` proves types, `OnlyFailuresStrand` and `CompletedIsDone` from
`QueueInv`, for any number of simulations of an opportunity. It adds that deliveries of a job
begin in turn (`DeliveredInTurn`), that each enqueues at most one execution, at its end
(`OneExecutionEach`), and that a run whose job has
completed is done unless a delivery is between its two writes (`UndoneGoesOn`), which is
what a second delivery beside the first can bring about. `NoneStranded` reduces
`OnlyFailuresStrand` to what a step does to a single simulation.

**Risk events.** `RiskWatchProofs` proves the types, that the cursor never passes a row that no
query has seen (`CursorPassesTheSeen`, an action property), and that only rows of the cursor's
millisecond are sent again (`OnlyTheLastMsRepeats`). `WatchInv` adds that a row exactly on a
millisecond is the first of it, and `PastCursorIsTail` that what remains after the cursor moves
is a tail of the rows.

**Quotes and simulator.** `PlanSimulatorProofs` proves the four properties of `simulator` for words
of any width, pools of any size, routes of any length, every fee, and any number of rounds.

* `V2QuoteFacts`: where the sums of a quote do not wrap (`Fits`), it pays at most
  `a (M - f) r1 / (r0 M + a f)`, with equality where the products do not wrap either. A wrapped
  product only makes it smaller, so that no bound on the products is needed. From the fraction
  follow (`FractionBounds`) that it pays no more than the reserve for `a <= r0`, no more than
  `a` where `r1 <= r0`, and that the product of the reserves does not fall where the fee covers
  the trade.
* `AskedInputSuffices`: the two formulas are not each other's inverse, since one takes the fee
  off the input and the other adds it to the denominator. The difference between them is
  `out * in * (M - 2 f)`, which is why a fee of up to a half is safe and one above is not. Here
  the products must not wrap, and the bound is on the largest of them.
* `StableFacts`: nothing is known of where a solver ends, so nothing is assumed: whatever
  word it gives, the comparisons after it and the fallback keep the output at or below the input.
  `SolveFacts` shows that it gives a word or none, for any number of rounds;
  `AnnFacts` that `ann + 1` is never zero, as a multiple of four is never 2^256 - 1.
* `WeightedOutFacts`: the series of the exponential only adds to one, so the power is at least
  one unless the ratio is zero (`FpPowFacts`). So unequal weights pay nothing, unless the ratio
  rounds to zero, and then more than the pool's reserve was put in.
* `IterateStaysIn` is what stands in for induction over a loop: it stays in any set that no
  step leaves.
* `SimInv`, the inductive invariant: the amount between two hops is a word
  and, on a balanced route, never above the capital.

* `InBandNoQuote`: within the band of a concentrated pool (`InBand`) the new square root, a
  factor `Q96` short, is rounded down to zero, and there is no quote.

Beyond the band the square root falls where the comment of v3.rs:40 has it rise, the unsigned
difference of v3.rs:126 wraps, and the output is bounded by nothing: in the instance an input of 226
is quoted as 32228. That it is a word, which the next hop needs, is proved (`V3Facts`).

**Only model-checked.** The liveness properties `BreachIsTold`, `ScanEnds` and `RunIsTold`, since
the prover handles neither fairness nor `ENABLED`; for the latter reason also `EveryClaimPayable`
as it stands (see Vault) and `ReportsNeedNoLedger`. And what the violation runs refute.

## 5. Findings

Two have a violation run, and PROJECT.json quotes the lines:

1. The request's asset is never compared with the vault's, so a trade in another token is
   reported as profit that has not arrived (`executor_arrives`).
2. The daily loss cap is stored and never read (`executor_loss_cap`).

Other places where the code does not do what a comment or document says, or that surprise
a reader, met while modelling. The models contain all of them as the code has them; the
properties hold in spite of them, and say how far the effect goes:

3. Contracts: a route whose hops do not chain is accepted and strands an intermediate token
   (StrategyExecutor.sol:145; the comment at line 106 says "no intermediate exposure"), which
   is why `CyclesLeaveNothing` speaks of cyclic routes; what was left or sent earlier is booked as
   profit of a later execution, since profit is measured against the principal (line 162).
   Pausing the vault stops deposits and mints only: not executions (risk-policy.md:27), and not
   withdrawals or redemptions, which are said to be "subject to the vault pause"
   (ArbVault.sol:18-19) and open "unless fully paused" (line 72). `withdraw` and `redeem` have no
   `whenNotPaused` (lines 103-119), and `EveryClaimPayable` shows that no state closes them.
   `Accounting.recordProfit` and `recordExecution` have no access control (Accounting.sol:30, 36):
   anyone can put the ledger ahead of the vault, or fill it so that entries are missed from then
   on, and nothing holds between the two. A holder of `EXECUTOR_ROLE` other than the executor may
   report any amount the vault holds, again and again, each time for fee shares: only the cap
   on one report bounds it (`FeeSharesWithinCap`).
4. Search: cycles are said to be "up to `max_hops` long" (graph.rs:66-67) and the path length
   bounded by the rounds (line 89). A path of as many hops as there are rounds gets a closing
   hop more, and relaxation in place lets a path grow by several hops in one round, in the order
   the nodes happen to have. In `cycle_search`, routes of four hops are returned with `MaxHops` 3;
   what does bound a route are the number of tokens and the 17 hops that the guard of line 189
   lets through (`RoutesAreCycles`).
   `log_profit` counts a profit once for each round that went around it (graph.rs:139;
   `OverstatementBounded` is the bound), and a profitable cycle can be missed when the
   predecessors are caught in another one (graph.rs:185).
5. Router: it "fans out a signed tx (or bundle) to multiple relays and accepts the first
   inclusion" (relays.rs:4-5), and `RelayMultiplexer` "submits to all relays" (line 84). It asks them one after the other and returns at the
   first that accepts (lines 90-95), so that a bundle is at one relay per attempt, and a relay
   that accepts and never includes keeps it from the others until it expires (`Ask`,
   `AfterAccept`).
   The tip is said to be a fraction of the base fee (gas_oracle.rs:19). `to_f64` adds limbs
   from the most significant with growing weights (line 45), so that a base fee below 2^64 is
   scaled as its multiple of 2^192 and written back as such: the tip is about
   2^192 times what was asked for. What is left is the order of bids (`TipFollowsBaseFee`).
   `is_expired` casts a negative age to a huge one, and a resubmission does not refresh
   `submitted_at`, so that it may expire at once (lifecycle.rs:42, 50).
6. Quotes: the denominator of a V2 quote adds the fee on the amount instead of the amount
   after the fee (v2.rs:29, formula at line 14), so that large trades are quoted too much:
   `SmallTradesKeepK` holds up to a size only. V3's `Q96` is 2^160 - 1, with which realistic
   pools have no quote (the new square root is zero), and others one that has wrapped. Pools of unequal weights pay nothing when the ratio is below one,
   because the sign of the logarithm is lost. The stable fallback pays the input whatever the
   pool holds.
7. Simulator: a route that uses a pool twice is quoted twice on the same reserves, always from
   token 0 to token 1 (simulator.rs:41-56).
8. Reports: drawdown uses the same reversed limbs, so that it can appear although no
   observation is a loss (`NoDrawdownWithinLimb`). The failure cost is computed and
   enters no figure.
9. Scanners: the net edge subtracts pool fees from quotes that contain them already; the
   triangle scanner's largest edge starts at zero and never shows a negative one;
   a concurrency of zero waits for ever and a step of zero never ends the list of blocks.
10. Workers and API: opportunities have ids that begin with "opp-" (atomicAmm.ts:70) and the
    column is a UUID (001_core_tables.sql:88), so that their insertion fails, is logged, and a
    simulation is enqueued for a row that is not there; where a row is there, a redelivered
    opportunity job enqueues its simulation again, because `add` gets no job id
    (queueWorkers.ts:43-46); POST /api/backtests says that it enqueues and only inserts
    (routes.ts:84-85); no path sets a run failed, so a run whose job failed is running for
    ever; a delivery that outlived its job and dies may leave a completed run running; a
    pause of a strategy is a row that the opportunity worker never reads; the risk stream sends
    its newest event again at every poll, because the cursor is cut to milliseconds, and loses
    the oldest rows of a burst of more than 20 (routes.ts:219); streams
    ordered by `created_at` miss a row whose transaction commits after a younger one was sent;
    the stream of executions continues from `rows[0].id`, which is the newest only because
    it reverses a copy.

## 6. Not modelled

* `FlashLoanAdapter` (not called by the executor), `ArbTimelockController` (an
  OpenZeppelin contract without own logic), deployment scripts beyond the initial state.
* `minProfitAssets` and deadlines are modelled; gas metering, events and `decimals` not.
* Reentrancy: every state-changing entry point is `nonReentrant`, or has no call before
  its last write.
* Floating point is exact in the models: rounding to 53 bits, Sharpe ratio and annualized
  return are left out. V3's tick after a swap is left out, and so are the payload of a
  transaction and its JSON.
* `oal_backtest.rs` (a sequential program that prints the library's results), the JSON-RPC
  client of replayer.rs, argument parsing and ABI encoding of the scanners.
* The branch of the execution worker that finds a model (no id leads to it), the indexer
  (one variable), the accounting heartbeat, the streams of executions and opportunities, and
  pause and resume of strategies, which nothing reads.
* Web console, UI package, SDK types, configuration data, infrastructure: presentation
  or data without state transitions.
* Setting `accounting` to an address without code, which makes the call in `reportProfit`
  revert before the `catch` can help; in the model a contract is set or not.

## 7. Plan

Done: all modules of section 2, with proofs of their safety properties. Next, in this order:

1. What can be proved on the way to the liveness properties: that a scan is never blocked before its
   end, that the feed's cursor advances whenever it has sent a full page.
2. The streams of executions and opportunities with several inserting transactions, as a
   second user of `RiskWatch`'s cursor.
