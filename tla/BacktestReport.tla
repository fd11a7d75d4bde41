---------------------------- MODULE BacktestReport ----------------------------
(***************************************************************************)
(* From simulated opportunities to the report of a backtest:               *)
(* cost_model.rs, metrics.rs and walk_forward.rs of                        *)
(* crates/backtest-engine.  The driver that walks the blocks, simulates    *)
(* and collects the points is external (replayer.rs:7).  The Sharpe ratio  *)
(* and the annualized return are left out: nothing is decided by them.     *)
(***************************************************************************)
EXTENDS Limbs, Sequences, FiniteSets, Functions

CONSTANTS
  Capital, GasCost, FailureCost,
  BribeBps, GasStressBps, BribeStressBps,   \* the fractions of the cost model, in 1/10000
  InclusionRate,                            \* "never", "sometimes" or "always"
  GrossProfits,                             \* what a simulation may give
  TrainBlocks, TestBlocks, BlocksPerDay,
  LastBlock                                 \* the last block walked

ASSUME ReportAssumption ==
  /\ Capital \in Amounts /\ GasCost \in Amounts /\ FailureCost \in Amounts
  /\ BribeBps \in Nat /\ GasStressBps \in Nat /\ BribeStressBps \in Nat
  /\ InclusionRate \in {"never", "sometimes", "always"}
  /\ GrossProfits \subseteq Amounts
  /\ TrainBlocks \in Nat /\ TestBlocks \in Nat
  /\ BlocksPerDay \in Nat \ {0} /\ LastBlock \in Nat

VARIABLES
  block,      \* the block the driver is at
  points,     \* the observations: block and net profit
  report      \* the metrics and the split made of them, or NoReport

reportVars == <<block, points, report>>

NoReport == [metrics |-> <<>>, split |-> <<>>]

ReportInit == block \in 0..LastBlock /\ points = <<>> /\ report = NoReport

-----------------------------------------------------------------------------
(* The cost model.                                                         *)

Ten4 == 10000

ScaleAmount(a, factorBps) == ((a * factorBps) % Word) \div Ten4

\* The factor of the bribe, rounded to the nearest hundredth of a percent.
BribeFactor == (BribeBps * (Ten4 + BribeStressBps) + Ten4 \div 2) \div Ten4

Minus(a, b) == IF a >= b THEN a - b ELSE 0

\* A loss is floored at zero.
NetIfIncluded(gross) ==
  Minus(gross, (ScaleAmount(GasCost, Ten4 + GasStressBps) + ScaleAmount(gross, BribeFactor)) % Word)

\* What sampling may say of a trade's inclusion.
Inclusions == CASE InclusionRate = "never" -> {FALSE} [] InclusionRate = "always" -> {TRUE}
                [] OTHER -> BOOLEAN

\* apply: a trade that is not included has no net profit.  Its failure cost is returned
\* beside the net, where no point takes it up.
Apply(gross, included, reverted) ==
  [net |-> IF included THEN NetIfIncluded(gross) ELSE 0,
   failureCost |-> IF ~included /\ reverted THEN FailureCost ELSE 0]

Observe ==
  /\ report = NoReport /\ block <= LastBlock
  /\ \E gross \in GrossProfits, included \in Inclusions, reverted \in BOOLEAN :
       points' = Append(points, [block |-> block, net |-> Apply(gross, included, reverted).net])
  /\ block' = block + 1
  /\ UNCHANGED report

\* No state for the block, or nothing to trade.
Skip ==
  /\ report = NoReport /\ block <= LastBlock
  /\ block' = block + 1
  /\ UNCHANGED <<points, report>>

-----------------------------------------------------------------------------
(* Metrics.  What is added up or kept of a series is at the positions I.   *)

RunningSum(ps, I) ==
  LET sum[i \in 0..Len(ps)] ==
        IF i = 0 THEN 0
        ELSE IF i \in I THEN SaturatingAdd(sum[i - 1], ps[i].net) ELSE sum[i - 1]
  IN  sum

SumProfit(ps, I) == RunningSum(ps, I)[Len(ps)]

\* The equity after each point.
EquityCurve(ps) == [i \in DOMAIN ps |-> RunningSum(ps, DOMAIN ps)[i]]

\* The largest fall of a series below its highest value so far.
LargestFall(value, n) ==
  LET falls == {value[p[1]] - value[p[2]] : p \in {q \in (0..n) \X (0..n) : q[1] <= q[2]}}
  IN  CHOOSE d \in falls : \A e \in falls : e <= d

AmountToF64(x) == Reversed(x)

\* Mutant: each point is taken by itself, not added to those before.
MaxDrawdownOfPoints(ps) ==
  LargestFall([i \in 0..Len(ps) |-> AmountToF64(Capital) + (IF i = 0 THEN 0 ELSE AmountToF64(ps[i].net))],
              Len(ps))

\* In units of the capital as it is read: capital plus equity, starting at the capital.
MaxDrawdown(ps) ==
  LET curve == EquityCurve(ps)
  IN  LargestFall([i \in 0..Len(ps) |->
                     AmountToF64(Capital) + (IF i = 0 THEN 0 ELSE AmountToF64(curve[i]))], Len(ps))

BlockToDay(b) == b \div BlocksPerDay

Days(ps) == {BlockToDay(ps[i].block) : i \in DOMAIN ps}
OfDay(ps, day) == {i \in DOMAIN ps : BlockToDay(ps[i].block) = day}

\* Mutant: a day keeps its last point.
DailyPnlOfLast(ps) ==
  [day \in Days(ps) |->
     ps[CHOOSE i \in OfDay(ps, day) : \A j \in OfDay(ps, day) : j <= i].net]

DailyPnl(ps) == [day \in Days(ps) |-> SumProfit(ps, OfDay(ps, day))]

Compute(ps) ==
  LET total == SumProfit(ps, DOMAIN ps)
  IN  [total |-> total, trades |-> Len(ps),
       winning |-> Cardinality({i \in DOMAIN ps : ps[i].net > 0}),
       losing |-> Cardinality({i \in DOMAIN ps : ps[i].net = 0}),
       average |-> IF ps = <<>> THEN 0 ELSE total \div Len(ps),
       curve |-> EquityCurve(ps), drawdown |-> MaxDrawdown(ps), daily |-> DailyPnl(ps)]

-----------------------------------------------------------------------------
(* Walk-forward.  Both windows start from the first point, not from the    *)
(* lowest block.                                                           *)

Kept(ps, I) ==
  LET kept[i \in 0..Len(ps)] ==
        IF i = 0 THEN <<>>
        ELSE IF i \in I THEN Append(kept[i - 1], ps[i]) ELSE kept[i - 1]
  IN  kept[Len(ps)]

Within(ps, from, to) == {i \in DOMAIN ps : from <= ps[i].block /\ ps[i].block < to}

\* Mutant: the last block of the training window is tested too.
SplitOverlapping(ps) ==
  LET start == ps[1].block
      trainEnd == start + TrainBlocks
  IN  IF ps = <<>> THEN [train |-> <<>>, test |-> <<>>]
      ELSE [train |-> Kept(ps, Within(ps, start, trainEnd + 1)),
            test |-> Kept(ps, Within(ps, trainEnd, trainEnd + TestBlocks))]

WalkForwardSplit(ps) ==
  LET start == ps[1].block
      trainEnd == start + TrainBlocks
  IN  IF ps = <<>> THEN [train |-> <<>>, test |-> <<>>]
      ELSE [train |-> Kept(ps, Within(ps, start, trainEnd)),
            test |-> Kept(ps, Within(ps, trainEnd, trainEnd + TestBlocks))]

Finish ==
  /\ report = NoReport /\ block > LastBlock
  /\ report' = [metrics |-> Compute(points), split |-> WalkForwardSplit(points)]
  /\ UNCHANGED <<block, points>>

ReportNext == Observe \/ Skip \/ Finish

ReportSpec == ReportInit /\ [][ReportNext]_reportVars

-----------------------------------------------------------------------------
(* Properties of a finished report.                                        *)

Done == report # NoReport

Capped(x) == IF x < Word THEN x ELSE Word - 1

\* The numbers of a report agree, however the sums saturate: the total is the last of the
\* equity curve and the sum over the days, every trade is a winning or a losing one, and
\* the average is the total's share of a trade, rounded down (metrics.rs:53-129).
ReportAddsUp ==
  Done =>
    LET m == report.metrics
    IN  /\ m.total = Capped(SumFunction(m.daily))
        /\ points # <<>> => m.total = m.curve[Len(points)]
        /\ m.trades = m.winning + m.losing
        /\ m.average * m.trades <= m.total
        /\ points # <<>> => m.total < (m.average + 1) * m.trades

\* No observation is a loss, so a drawdown can only come from reading the equity as
\* floating point: there is none until the profit outgrows one limb (metrics.rs:68-86).
NoDrawdownWithinLimb ==
  Done /\ report.metrics.drawdown > 0 => report.metrics.total >= LimbBase

\* Whatever is tested comes after all that was trained on, and between them the windows
\* hold every point of their blocks exactly once, in order (walk_forward.rs:18-37).
TestIsUnseen ==
  Done /\ points # <<>> =>
    LET train == report.split.train
        test == report.split.test
        end == points[1].block + TrainBlocks + TestBlocks
    IN  /\ \A i \in DOMAIN train, j \in DOMAIN test : train[i].block < test[j].block
        /\ train \o test = SubSeq(points, 1, Cardinality({i \in DOMAIN points : points[i].block < end}))
=============================================================================
