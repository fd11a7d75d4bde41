------------------------------ MODULE PoolQuotes ------------------------------
(***************************************************************************)
(* The quotes of crates/strategy-core/src/dex: constant product (v2.rs),   *)
(* concentrated liquidity (v3.rs), StableSwap (curve.rs) and weighted      *)
(* pools (balancer.rs).  Amounts are unsigned words; +, - and * of the     *)
(* program wrap, and so do they here where a wrap can happen.  A quote of  *)
(* None is NoQuote.  The scales of the program are constants here, so that *)
(* small words can hold their products.                                    *)
(***************************************************************************)
EXTENDS Integers

CONSTANTS
  Word,     \* 2^256
  Mille,    \* 1000, the scale of a V2 fee
  Bps,      \* 10_000, the scale of the other fees
  Q96,      \* v3.rs: the limbs of the constant Q96, which make 2^160 - 1
  One,      \* 1e18, the scale of weights
  Rounds    \* 256, the most rounds of compute_d; newton_y makes one less

ASSUME QuoteAssumption ==
  /\ Word \in Nat \ {0} /\ Word % 4 = 0
  /\ Mille \in Nat \ {0} /\ Bps \in Nat /\ Bps % Mille = 0 /\ Bps >= Mille
  /\ Q96 \in Nat \ {0} /\ Rounds \in Nat \ {0}
  /\ One \in Nat /\ One > 1 /\ One * One < Word

Words == 0..(Word - 1)

\* What a quote reads of a pool, whatever its kind.
PoolStates == [reserve0 : Words, reserve1 : Words, sqrtPrice : Words, liquidity : Words,
               amp : Words, weight0 : Words, weight1 : Words]

Plus(a, b) == (a + b) % Word
Minus(a, b) == (a - b) % Word
Times(a, b) == (a * b) % Word
SaturatingPlus(a, b) == IF a + b < Word THEN a + b ELSE Word - 1
SaturatingMinus(a, b) == IF a >= b THEN a - b ELSE 0

\* A loop: step[1] to step[n] applied to first, one after the other.
Iterate(step, first, n) ==
  LET value[k \in 0..n] == IF k = 0 THEN first ELSE step[k][value[k - 1]]
  IN  value[n]

NoQuote == [out |-> -1]
AfterFee(amount, fee) == Times(amount, SaturatingMinus(Bps, fee)) \div Bps

-----------------------------------------------------------------------------
(* Constant product.                                                       *)

\* The fee in thousandths, rounded up: fee_bps.div_ceil(10).min(1000).
FeePerMille(fee) ==
  LET perMille == Bps \div Mille
      ceil == (fee + perMille - 1) \div perMille
  IN  IF ceil < Mille THEN ceil ELSE Mille

\* The denominator adds the fee on the amount, not the amount after the fee.
V2Denominator(rIn, amount, fee) == Plus(Times(rIn, Mille), Times(amount, FeePerMille(fee)))

\* Mutant: the fee is not taken off the amount.
V2OutBeforeFee(rIn, rOut, amount, fee) ==
  Times(Times(amount, Mille), rOut) \div V2Denominator(rIn, amount, fee)

V2Out(rIn, rOut, amount, fee) ==
  Times(Times(amount, Mille - FeePerMille(fee)), rOut) \div V2Denominator(rIn, amount, fee)

V2Quote(s, amount, fee) ==
  IF s.reserve0 = 0 \/ s.reserve1 = 0 \/ amount = 0 \/ V2Denominator(s.reserve0, amount, fee) = 0
  THEN NoQuote
  ELSE LET out == V2Out(s.reserve0, s.reserve1, amount, fee)
       IN  [out |-> out, in1 |-> Plus(s.reserve0, amount), out1 |-> Minus(s.reserve1, out)]

NoAmount == -1

\* Mutant: not rounded up.
AmountInRoundedDown(rIn, rOut, out, fee) ==
  LET denominator == Times(rOut - out, Mille - FeePerMille(fee))
  IN  IF rIn = 0 \/ rOut = 0 \/ out >= rOut \/ denominator = 0 THEN NoAmount
      ELSE Times(Times(rIn, out), Mille) \div denominator

\* get_amount_in
AmountIn(rIn, rOut, out, fee) ==
  LET denominator == Times(rOut - out, Mille - FeePerMille(fee))
  IN  IF rIn = 0 \/ rOut = 0 \/ out >= rOut \/ denominator = 0 THEN NoAmount
      ELSE Plus(Times(Times(rIn, out), Mille) \div denominator, 1)

-----------------------------------------------------------------------------
(* Concentrated liquidity.  The direction is always token0 to token1; the  *)
(* tick of the state afterwards is left out (a logarithm of one limb).     *)

SqrtPlusDx(sqrt, liquidity, dx) ==
  LET denom == Minus(Times(liquidity, Q96), Times(dx, sqrt))
  IN  IF denom = 0 THEN NoAmount ELSE Times(liquidity, sqrt) \div denom

Amount1Delta(liquidity, a, b) ==
  LET denom == Times(a, b) \div Q96
  IN  IF a = 0 \/ b = 0 \/ denom = 0 THEN NoAmount
      ELSE Times(liquidity, Minus(b, a)) \div denom

V3Quote(s, amount, fee) ==
  LET sqrt == SqrtPlusDx(s.sqrtPrice, s.liquidity, AfterFee(amount, fee))
      out == Amount1Delta(s.liquidity, s.sqrtPrice, sqrt)
  IN  IF amount = 0 \/ s.liquidity = 0 \/ sqrt = NoAmount \/ out = NoAmount THEN NoQuote
      ELSE [out |-> out, in1 |-> sqrt, out1 |-> s.liquidity]

-----------------------------------------------------------------------------
(* StableSwap.                                                             *)

Near(a, b) == a - b \in -1..1

\* A solver's loop: d goes to step[d], at most rounds times; a zero ends it (None), and so
\* does a step of at most one.
Solve(step, d0, rounds) ==
  LET Advance(p) == CASE p.done -> p
                      [] ~p.done /\ p.d = 0 -> [d |-> NoAmount, done |-> TRUE]
                      [] ~p.done /\ p.d # 0 -> [d |-> step[p.d], done |-> Near(step[p.d], p.d)]
      Progress == [d : Words \cup {NoAmount}, done : BOOLEAN]
  IN  Iterate([k \in 1..rounds |-> [p \in Progress |-> Advance(p)]],
              [d |-> d0, done |-> FALSE], rounds).d

\* compute_d; 0 stands for None too.
ComputeD(x, y, amp) ==
  LET ann == Times(amp, 4)
  IN  Solve([d \in Words \ {0} |->
               Plus(Times(ann, Plus(x, y)), Times(Times(x, y), 4) \div d) \div Plus(ann, 1)],
            Plus(x, y), Rounds)

\* newton_y: y <- (y*y + d*d*d / (4 * x * amp)) / (2 * y + x), with no - d below, and None
\* when that is zero.
NewtonY(x, d, amp) ==
  LET cube == Times(Times(d, d), d) \div Times(Times(4, x), amp)
      Below(y) == Plus(Times(2, y), x)
      y == Solve([v \in Words \ {0} |->
                    IF Below(v) = 0 THEN 0 ELSE Plus(Times(v, v), cube) \div Below(v)],
                 d, Rounds - 1)
  IN  IF x = 0 \/ y = 0 \/ y > d THEN NoAmount ELSE y

\* fallback_quote: the input less the fee, whatever the pool holds.
LinearQuote(s, amount, fee) ==
  LET out == AfterFee(amount, fee)
  IN  [out |-> out, in1 |-> Plus(s.reserve0, amount), out1 |-> Minus(s.reserve1, out)]

\* Mutant: the output of the solver is not compared with the input.
StableQuoteTrusted(s, amount, fee) ==
  LET x == Plus(s.reserve0, amount)
      d == ComputeD(s.reserve0, s.reserve1, s.amp)
      y == NewtonY(x, d, s.amp)
  IN  IF s.reserve0 = 0 \/ s.reserve1 = 0 \/ amount = 0 \/ s.amp = 0 THEN NoQuote
      ELSE IF d <= 0 \/ y = NoAmount \/ y >= s.reserve1 THEN LinearQuote(s, amount, fee)
      ELSE [out |-> AfterFee(s.reserve1 - y, fee), in1 |-> x, out1 |-> y]

StableQuote(s, amount, fee) ==
  LET x == Plus(s.reserve0, amount)
      d == ComputeD(s.reserve0, s.reserve1, s.amp)
      y == NewtonY(x, d, s.amp)
      dy == s.reserve1 - y
  IN  IF s.reserve0 = 0 \/ s.reserve1 = 0 \/ amount = 0 \/ s.amp = 0 THEN NoQuote
      ELSE IF d <= 0 \/ y = NoAmount \/ y >= s.reserve1 \/ dy > amount
           THEN LinearQuote(s, amount, fee)
      ELSE [out |-> AfterFee(dy, fee), in1 |-> x, out1 |-> y]

-----------------------------------------------------------------------------
(* Weighted pools.                                                         *)

OneSquared == One * One

\* What first becomes after n multiplications by x, each brought back to the scale OneSquared.
Power(first, x, n) == Iterate([k \in 1..n |-> [v \in Words |-> Times(v, x) \div OneSquared]], first, n)

\* ln(1 + x), or the magnitude of ln(1 - x) when negative: six terms.
TaylorLn(x, negative) ==
  LET Term(k) == Power(x, x, k - 1) \div k
  IN  Iterate([n \in 1..5 |-> [sum \in Words |->
                 IF negative \/ n % 2 = 0 THEN SaturatingPlus(sum, Term(n + 1))
                 ELSE SaturatingMinus(sum, Term(n + 1))]], x, 5)

Factorial(k) == Iterate([i \in 1..k |-> [product \in Nat |-> i * product]], 1, k)

\* e to the y, y never negative: ten terms after the first, up to one that is zero.
TaylorExp(y) ==
  LET Term(k) == Power(OneSquared, y, k) \div Factorial(k)
  IN  Iterate([k \in 1..10 |-> [sum \in Words |->
                 IF \E j \in 1..(k - 1) : Term(j) = 0 THEN sum ELSE SaturatingPlus(sum, Term(k))]],
              OneSquared, 10)

\* fp_pow: the sign of the logarithm is lost, so that the power is never below One.
FpPow(base, exponent) ==
  IF base = 0 THEN 0
  ELSE LET negative == base < One
           x == Times(IF negative THEN One - base ELSE base - One, One)
       IN  TaylorExp(Times(TaylorLn(x, negative), exponent) \div One) \div One

\* Mutant: the share of the pool that is paid out is not limited to the whole of it.
WeightedOutUnclamped(s, paid) ==
  IF s.weight0 = s.weight1 THEN Times(s.reserve1, paid) \div Plus(s.reserve0, paid)
  ELSE LET ratio == Times(s.reserve0, One) \div Plus(s.reserve0, paid)
           power == FpPow(ratio, Times(s.weight0, One) \div s.weight1)
       IN  Times(s.reserve1, Minus(One, power)) \div One

WeightedOut(s, paid) ==
  IF s.weight0 = s.weight1 THEN Times(s.reserve1, paid) \div Plus(s.reserve0, paid)
  ELSE LET ratio == Times(s.reserve0, One) \div Plus(s.reserve0, paid)
           power == FpPow(ratio, Times(s.weight0, One) \div s.weight1)
       IN  Times(s.reserve1, SaturatingMinus(One, power)) \div One

WeightedQuote(s, amount, fee) ==
  LET paid == AfterFee(amount, fee)
      out == WeightedOut(s, paid)
  IN  IF s.reserve0 = 0 \/ s.reserve1 = 0 \/ amount = 0 \/ s.weight1 = 0 \/ Plus(s.reserve0, paid) = 0
      THEN NoQuote
      ELSE [out |-> out, in1 |-> Plus(s.reserve0, paid), out1 |-> SaturatingMinus(s.reserve1, out)]

-----------------------------------------------------------------------------
Kinds == {"v2", "v3", "stable", "weighted"}

\* quote_hop: by the kind of the pool's reference, whatever the kind of its state.
QuoteHop(kind, fee, s, amount) ==
  CASE kind = "v2" -> V2Quote(s, amount, fee)
    [] kind = "v3" -> V3Quote(s, amount, fee)
    [] kind = "stable" -> StableQuote(s, amount, fee)
    [] kind = "weighted" -> WeightedQuote(s, amount, fee)

\* newton_y divides by 4 * x * amp unguarded: the program panics when that wraps to zero.
QuotePanics(kind, s, amount) ==
  LET x == Plus(s.reserve0, amount)
  IN  /\ kind = "stable" /\ s.reserve0 # 0 /\ s.reserve1 # 0 /\ amount # 0 /\ s.amp # 0
      /\ ComputeD(s.reserve0, s.reserve1, s.amp) > 0 /\ x # 0
      /\ Times(Times(4, x), s.amp) = 0
=============================================================================
