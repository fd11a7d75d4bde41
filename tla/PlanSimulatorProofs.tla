-------------------------- MODULE PlanSimulatorProofs --------------------------
(***************************************************************************)
(* What a quote and a simulated plan may give, for pools of every size,    *)
(* all amounts and fees, and words of any width: the sums and products     *)
(* that wrap are where the properties say so.                              *)
(***************************************************************************)
EXTENDS PlanSimulator, FiniteFacts

(* Words and the operations on them.                                       *)

LEMMA ModFacts ==
  ASSUME NEW x \in Int, NEW d \in Nat \ {0}
  PROVE  x % d \in 0..(d - 1) /\ x = d * (x \div d) + (x % d)
  BY SMT

LEMMA ProductIsNatural == \A x, y \in Nat : x * y \in Nat
  BY SMT

LEMMA QuotientFacts ==
  ASSUME NEW x \in Nat, NEW d \in Nat \ {0}
  PROVE  x \div d \in Nat /\ d * (x \div d) <= x /\ x \div d <= x
<1>1. x \div d \in Int /\ d * (x \div d) <= x /\ x < d * (x \div d) + d
  BY DivBounds
<1> DEFINE q == x \div d
<1>2. q \in Int /\ d * q <= x /\ x < d * q + d
  BY <1>1
<1> HIDE DEF q
<1>3. q >= 0
  <2> SUFFICES ASSUME q + 1 <= 0 PROVE FALSE
    BY <1>2
  <2>1. d * (q + 1) <= 0
    BY <1>2, SMT
  <2>2. d * (q + 1) = d * q + d
    BY <1>2, SMT
  <2> QED
    BY <1>2, <2>1, <2>2
<1>4. q <= d * q
  BY <1>2, <1>3, SMT
<1> QED
  BY <1>2, <1>3, <1>4 DEF q

LEMMA RemainderFacts ==
  ASSUME NEW x \in Nat
  PROVE  x % Word \in Words /\ x % Word <= x /\ (x < Word => x % Word = x)
<1>1. Word \in Nat \ {0}
  BY QuoteAssumption
<1>2. x % Word \in 0..(Word - 1) /\ x = Word * (x \div Word) + (x % Word)
  BY <1>1, ModFacts
<1>3. x \div Word \in Nat
  BY <1>1, QuotientFacts
<1> DEFINE q == x \div Word
           r == x % Word
<1>4. q \in Nat /\ r \in 0..(Word - 1) /\ x = Word * q + r
  BY <1>2, <1>3
<1> HIDE DEF q, r
<1>5. Word * q \in Nat /\ (q # 0 => Word * q >= Word)
  BY <1>1, <1>4, SMT
<1>6. r <= x /\ (x < Word => r = x)
  <2>1. q = 0 => Word * q = 0
    BY <1>1
  <2> QED
    BY <1>1, <1>4, <1>5, <2>1
<1> QED
  BY <1>4, <1>6 DEF q, r, Words

LEMMA WordsAreNatural == Words \subseteq Nat /\ 0 \in Words
  BY QuoteAssumption DEF Words

LEMMA TimesFacts ==
  ASSUME NEW a \in Nat, NEW b \in Nat
  PROVE  Times(a, b) \in Words /\ Times(a, b) <= a * b /\ (a * b < Word => Times(a, b) = a * b)
<1>1. a * b \in Nat
  BY ProductIsNatural
<1> QED
  BY <1>1, RemainderFacts DEF Times

LEMMA PlusFacts ==
  ASSUME NEW a \in Nat, NEW b \in Nat
  PROVE  Plus(a, b) \in Words /\ Plus(a, b) <= a + b /\ (a + b < Word => Plus(a, b) = a + b)
  BY RemainderFacts DEF Plus

LEMMA MinusFacts ==
  ASSUME NEW a \in Words, NEW b \in Words
  PROVE  Minus(a, b) \in Words /\ (b <= a => Minus(a, b) = a - b)
<1>1. a - b \in Int /\ Word \in Nat \ {0}
  BY QuoteAssumption DEF Words
<1>2. Minus(a, b) \in Words
  BY <1>1, ModFacts DEF Minus, Words
<1>3. ASSUME b <= a PROVE Minus(a, b) = a - b
  <2>1. a - b \in Nat /\ a - b < Word
    BY <1>1, <1>3 DEF Words
  <2> QED
    BY <2>1, RemainderFacts DEF Minus
<1> QED
  BY <1>2, <1>3

LEMMA SaturatingFacts ==
  ASSUME NEW a \in Words, NEW b \in Nat
  PROVE  /\ SaturatingPlus(a, b) \in Words /\ SaturatingPlus(a, b) >= a
         /\ SaturatingMinus(a, b) \in Words /\ SaturatingMinus(a, b) <= a
  BY QuoteAssumption DEF SaturatingPlus, SaturatingMinus, Words

LEMMA WordQuotient ==
  ASSUME NEW x \in Words, NEW d \in Nat \ {0}
  PROVE  x \div d \in Words
<1>1. x \in Nat /\ x < Word
  BY QuoteAssumption DEF Words
<1>2. x \div d \in Nat /\ x \div d <= x
  BY <1>1, QuotientFacts
<1> QED
  BY <1>1, <1>2, QuoteAssumption DEF Words

(* A loop stays in any set that none of its steps leaves.                  *)
LEMMA IterateStaysIn ==
  ASSUME NEW V, NEW first \in V, NEW n \in Nat, NEW step,
         \A k \in 1..n, v \in V : step[k][v] \in V
  PROVE  Iterate(step, first, n) \in V
<1> DEFINE s == [kv \in Nat \X V |-> IF kv[1] \in 1..n THEN step[kv[1]][kv[2]] ELSE first]
           IsRun(b) == b = [k \in 0..n |-> IF k = 0 THEN first ELSE step[k][b[k - 1]]]
           f == CHOOSE b : IsRun(b)
<1>1. s \in [Nat \X V -> V]
  <2>1. \A kv \in Nat \X V : kv = <<kv[1], kv[2]>> /\ kv[1] \in Nat /\ kv[2] \in V
    OBVIOUS
  <2>2. \A kv \in Nat \X V : kv[1] \in 1..n => step[kv[1]][kv[2]] \in V
    BY <2>1
  <2> QED
    BY <2>2
<1>2. PICK g \in [0..n -> V] : IsIteration(g, first, s, n)
  <2> HIDE DEF s
  <2> QED
    BY <1>1, IterationExists
<1>3. ASSUME NEW k \in 0..n PROVE g[k] = IF k = 0 THEN first ELSE step[k][g[k - 1]]
  <2>1. CASE k = 0
    BY <1>2, <2>1 DEF IsIteration
  <2>2. CASE k # 0
    <3>1. k \in 1..n /\ k - 1 \in 0..n /\ k \in Nat
      BY <2>2
    <3>2. g[k - 1] \in V
      BY <3>1
    <3>3. g[k] = s[<<k, g[k - 1]>>]
      <4> HIDE DEF s
      <4> QED
        BY <1>2, <2>2 DEF IsIteration
    <3> QED
      BY <3>1, <3>2, <3>3
  <2> QED
    BY <2>1, <2>2
<1>4. IsRun(g)
  <2>1. g = [k \in 0..n |-> g[k]]
    OBVIOUS
  <2> QED
    BY <1>3
<1>5. IsRun(f)
  <2> HIDE DEF IsRun
  <2> QED
    BY <1>4
<1> HIDE DEF f
<1>6. f[0] = first /\ \A k \in 1..n : f[k] = step[k][f[k - 1]]
  BY <1>5
<1> DEFINE S == {k \in Nat : k \in 0..n => f[k] \in V}
<1>7. 0 \in S
  BY <1>6
<1>8. ASSUME NEW k \in Nat, k \in S PROVE k + 1 \in S
  <2> SUFFICES ASSUME k + 1 \in 0..n PROVE f[k + 1] \in V
    OBVIOUS
  <2>1. k \in 0..n /\ k + 1 \in 1..n /\ (k + 1) - 1 = k
    OBVIOUS
  <2>2. f[k] \in V
    BY <1>8, <2>1
  <2>3. f[k + 1] = step[k + 1][f[k]]
    BY <1>6, <2>1
  <2> QED
    BY <2>1, <2>2, <2>3
<1>9. f[n] \in V
  <2> HIDE DEF S
  <2>1. Nat \subseteq S
    BY <1>7, <1>8, SetInduction
  <2> QED
    BY <2>1 DEF S
<1> QED
  BY <1>9 DEF Iterate, f

-----------------------------------------------------------------------------
(* Fees.                                                                   *)

LEMMA Cancel ==
  ASSUME NEW x \in Int, NEW y \in Int, NEW d \in Nat \ {0}, x * d <= y * d
  PROVE  x <= y
<1> SUFFICES ASSUME x >= y + 1 PROVE FALSE
  OBVIOUS
<1>1. x * d >= (y + 1) * d
  BY SMT
<1>2. (y + 1) * d = y * d + d
  BY SMT
<1>3. x * d \in Int /\ y * d \in Int
  BY SMT
<1> QED
  BY <1>1, <1>2, <1>3

LEMMA Scaled ==
  ASSUME NEW x \in Nat, NEW y \in Nat, NEW d \in Nat, x <= y
  PROVE  x * d <= y * d /\ d * x <= d * y
  BY SMT

LEMMA FeeFacts ==
  ASSUME NEW fee \in Nat
  PROVE  FeePerMille(fee) \in 0..Mille /\ Mille - FeePerMille(fee) \in 0..Mille
<1> DEFINE p == Bps \div Mille
<1>1. Bps \in Nat /\ Mille \in Nat \ {0} /\ Bps >= Mille
  BY QuoteAssumption
<1>2. p \in Nat \ {0}
  <2>1. Bps \div Mille \in Nat /\ Bps < Mille * (Bps \div Mille) + Mille
    BY <1>1, QuotientFacts, DivBounds
  <2>2. Mille * 0 = 0
    BY <1>1
  <2>3. Bps \div Mille # 0
    BY <1>1, <2>1, <2>2
  <2> QED
    BY <2>1, <2>3
<1> HIDE DEF p
<1>3. (fee + p - 1) \div p \in Nat
  <2>1. fee + p - 1 \in Nat
    BY <1>2
  <2> QED
    BY <1>2, <2>1, QuotientFacts
<1>4. FeePerMille(fee) = IF (fee + p - 1) \div p < Mille THEN (fee + p - 1) \div p ELSE Mille
  BY DEF FeePerMille, p
<1> QED
  BY <1>1, <1>3, <1>4

LEMMA AfterFeeFacts ==
  ASSUME NEW a \in Nat, NEW fee \in Nat
  PROVE  AfterFee(a, fee) \in Words /\ AfterFee(a, fee) <= a
<1> DEFINE k == SaturatingMinus(Bps, fee)
           t == Times(a, k)
<1>1. Bps \in Nat \ {0} /\ k \in Nat /\ k <= Bps
  BY QuoteAssumption DEF SaturatingMinus
<1> HIDE DEF k
<1>2. t \in Words /\ t \in Nat /\ t <= a * k
  BY <1>1, TimesFacts, WordsAreNatural
<1>3. a * k <= a * Bps /\ a * k \in Nat /\ a * Bps \in Nat
  BY <1>1, Scaled, ProductIsNatural
<1> HIDE DEF t
<1>4. t \div Bps \in Words /\ t \div Bps \in Nat /\ Bps * (t \div Bps) <= t
  BY <1>1, <1>2, WordQuotient, QuotientFacts
<1> DEFINE q == t \div Bps
<1>5. q \in Words /\ q \in Nat /\ Bps * q <= t
  BY <1>4
<1> HIDE DEF q
<1>6. Bps * q = q * Bps /\ q * Bps \in Nat
  BY <1>1, <1>5, SMT
<1>7. q <= a
  BY <1>1, <1>2, <1>3, <1>5, <1>6, Cancel
<1> QED
  BY <1>5, <1>7 DEF AfterFee, q, t, k

-----------------------------------------------------------------------------
(* Constant product.                                                       *)

(* What a quote gives, where its sums do not wrap: no more than the        *)
(* fraction of the formula, which the wrapping of its products only makes  *)
(* smaller.                                                                *)
LEMMA V2QuoteFacts ==
  ASSUME NEW s \in PoolStates, NEW a \in Words, NEW fee \in Nat, V2Quote(s, a, fee) # NoQuote
  PROVE  LET q == V2Quote(s, a, fee)
             f == FeePerMille(fee)
             d == s.reserve0 * Mille + a * f
         IN  /\ q.out \in Words /\ q.in1 = Plus(s.reserve0, a) /\ q.out1 = Minus(s.reserve1, q.out)
             /\ s.reserve0 \in Nat \ {0} /\ s.reserve1 \in Nat \ {0}
             /\ Fits(s, a) =>
                  d \in Nat \ {0} /\ d < Word /\ q.out * d <= a * (Mille - f) * s.reserve1
<1> DEFINE f == FeePerMille(fee)
           r0 == s.reserve0
           r1 == s.reserve1
           e == V2Denominator(r0, a, fee)
           n == Times(Times(a, Mille - f), r1)
           out == V2Quote(s, a, fee).out
<1>1. /\ r0 \in Nat /\ r1 \in Nat /\ a \in Nat /\ r0 # 0 /\ r1 # 0 /\ e # 0
      /\ V2Quote(s, a, fee) = [out |-> n \div e, in1 |-> Plus(r0, a), out1 |-> Minus(r1, n \div e)]
  <2>1. r0 \in Nat /\ r1 \in Nat /\ a \in Nat
    BY WordsAreNatural DEF PoolStates
  <2>2. ~(r0 = 0 \/ r1 = 0 \/ a = 0 \/ e = 0)
    BY DEF V2Quote
  <2> QED
    BY <2>1, <2>2 DEF V2Quote, V2Out
<1>2. f \in Nat /\ Mille - f \in Nat /\ f <= Mille /\ Mille \in Nat \ {0}
  BY FeeFacts, QuoteAssumption
<1>3. Times(r0, Mille) \in Words /\ Times(a, f) \in Words /\ e \in Words
  <2>1. Times(r0, Mille) \in Words /\ Times(a, f) \in Words
    BY <1>1, <1>2, TimesFacts
  <2>2. Times(r0, Mille) \in Nat /\ Times(a, f) \in Nat
    BY <2>1, WordsAreNatural
  <2> HIDE DEF f, r0
  <2> QED
    BY <2>1, <2>2, PlusFacts DEF V2Denominator, f
<1> HIDE DEF e
<1>4. e \in Nat \ {0}
  BY <1>1, <1>3, WordsAreNatural
<1>5. n \in Words /\ n \in Nat /\ n <= a * (Mille - f) * r1
  <2> DEFINE m == Mille - f
             t == Times(a, m)
  <2>1. m \in Nat /\ t \in Nat /\ t <= a * m /\ a * m \in Nat
    BY <1>1, <1>2, TimesFacts, WordsAreNatural, ProductIsNatural
  <2> HIDE DEF m, t
  <2>2. Times(t, r1) \in Words /\ Times(t, r1) \in Nat /\ Times(t, r1) <= t * r1
    BY <1>1, <2>1, TimesFacts, WordsAreNatural
  <2>3. t * r1 <= (a * m) * r1 /\ t * r1 \in Nat /\ (a * m) * r1 \in Nat
    BY <1>1, <2>1, Scaled, ProductIsNatural
  <2>4. Times(t, r1) <= (a * m) * r1
    BY <2>2, <2>3
  <2> QED
    BY <2>2, <2>4 DEF m, t
<1> HIDE DEF n, f, r0, r1
<1>6. out = n \div e /\ out \in Words /\ out \in Nat /\ e * out <= n
  <2>1. out = n \div e
    BY <1>1
  <2> HIDE DEF out
  <2> QED
    BY <1>4, <1>5, <2>1, WordQuotient, QuotientFacts
<1> HIDE DEF out
<1>7. ASSUME Fits(s, a)
      PROVE  LET d == r0 * Mille + a * f
             IN  d \in Nat \ {0} /\ d < Word /\ out * d <= a * (Mille - f) * r1
  <2>1. r0 * Mille \in Nat /\ a * f \in Nat /\ a * Mille \in Nat /\ a * f <= a * Mille
    BY <1>1, <1>2, ProductIsNatural, Scaled
  <2>2. r0 * Mille + a * Mille < Word
    <3>1. Mille * (r0 + a) < Word
      BY <1>7 DEF Fits, r0
    <3>2. Mille * (r0 + a) = r0 * Mille + a * Mille
      BY <1>1, <1>2, SMT
    <3> QED
      BY <3>1, <3>2
  <2>3. Word \in Nat
    BY QuoteAssumption
  <2>4. Times(r0, Mille) = r0 * Mille /\ Times(a, f) = a * f
    <3>1. r0 * Mille < Word /\ a * f < Word
      BY <2>1, <2>2, <2>3
    <3> QED
      BY <1>1, <1>2, <3>1, TimesFacts
  <2>5. e = r0 * Mille + a * f /\ r0 * Mille + a * f < Word
    <3>1. r0 * Mille + a * f < Word
      BY <2>1, <2>2, <2>3
    <3>2. e = Plus(r0 * Mille, a * f)
      BY <2>4 DEF e, V2Denominator, f
    <3> QED
      BY <2>1, <3>1, <3>2, PlusFacts
  <2>6. out * e = e * out /\ out * e \in Nat /\ a * (Mille - f) * r1 \in Nat
    BY <1>1, <1>2, <1>4, <1>6, ProductIsNatural, SMT
  <2>7. out * e <= a * (Mille - f) * r1
    BY <1>5, <1>6, <2>6
  <2> QED
    BY <1>4, <2>5, <2>7
<1> QED
  BY <1>1, <1>6, <1>7 DEF f, r0, r1, out

(* The three bounds, as arithmetic: m is the scale of the fee, f the fee.  *)
LEMMA FractionBounds ==
  ASSUME NEW r0 \in Nat, NEW r1 \in Nat, NEW a \in Nat, NEW out \in Nat, NEW m \in Nat,
         NEW f \in Nat, f <= m, r0 * m + a * f \in Nat \ {0},
         out * (r0 * m + a * f) <= a * (m - f) * r1
  PROVE  /\ a <= r0 => out <= r1
         /\ r1 <= r0 => out <= a
         /\ (m - 2 * f) * a <= f * r0 /\ f # m => out * (r0 + a) <= a * r1
         /\ f = m => out = 0
<1> DEFINE d == r0 * m + a * f
           g == m - f
<1>1. d \in Nat \ {0} /\ g \in Nat /\ g <= m /\ out * d <= a * g * r1
  OBVIOUS
<1>2. a * g \in Nat /\ a * m \in Nat /\ r0 * m \in Nat /\ a * f \in Nat
      /\ a * g <= a * m /\ r0 * m <= d
  BY <1>1, Scaled, ProductIsNatural
<1>3. ASSUME a <= r0 PROVE out <= r1
  <2>1. a * m <= r0 * m
    BY <1>3, Scaled
  <2>2. a * g <= d
    BY <1>1, <1>2, <2>1
  <2> HIDE DEF d, g
  <2>3. (a * g) * r1 <= d * r1
    BY <1>1, <1>2, <2>2, Scaled
  <2>4. d * r1 = r1 * d /\ r1 * d \in Nat /\ out * d \in Nat /\ (a * g) * r1 \in Nat
    BY <1>1, <1>2, ProductIsNatural, SMT
  <2>5. out * d <= r1 * d
    BY <1>1, <2>3, <2>4
  <2> QED
    BY <1>1, <2>5, Cancel
<1>4. ASSUME r1 <= r0 PROVE out <= a
  <2>1. a * g * r1 = a * (g * r1) /\ g * r1 \in Nat /\ m * r0 = r0 * m /\ g * r1 <= m * r1
        /\ m * r1 <= m * r0 /\ m * r1 \in Nat /\ m * r0 \in Nat
    <3> HIDE DEF d, g
    <3>1. a * g * r1 = a * (g * r1) /\ m * r0 = r0 * m
      BY <1>1, SMT
    <3> QED
      BY <1>1, <1>4, <3>1, ProductIsNatural, Scaled
  <2>2. g * r1 <= d
    BY <1>1, <1>2, <2>1
  <2> HIDE DEF d, g
  <2>3. a * (g * r1) <= a * d
    BY <1>1, <2>1, <2>2, Scaled
  <2>4. out * d <= a * d
    <3>1. out * d \in Nat /\ a * d \in Nat /\ a * (g * r1) \in Nat
      BY <1>1, <2>1, ProductIsNatural
    <3> QED
      BY <1>1, <2>1, <2>3, <3>1
  <2> QED
    BY <1>1, <2>4, Cancel
<1>5. ASSUME (m - 2 * f) * a <= f * r0, f # m PROVE out * (r0 + a) <= a * r1
  <2>1. g \in Nat \ {0} /\ g * (r0 + a) <= d
    <3>1. g * (r0 + a) = m * r0 - f * r0 + m * a - f * a
      BY SMT
    <3>2. (m - 2 * f) * a = m * a - 2 * (f * a)
      BY SMT
    <3>3. m * r0 = r0 * m /\ f * a = a * f
      BY SMT
    <3>4. m * a \in Int /\ f * a \in Int /\ f * r0 \in Int /\ m * r0 \in Int
      BY SMT
    <3> QED
      BY <1>1, <1>5, <3>1, <3>2, <3>3, <3>4
  <2> HIDE DEF d, g
  <2>2. out * (g * (r0 + a)) <= out * d /\ g * (r0 + a) \in Nat
    BY <1>1, <2>1, Scaled, ProductIsNatural
  <2>3. out * (g * (r0 + a)) = (out * (r0 + a)) * g /\ a * g * r1 = (a * r1) * g
    BY <2>1, SMT
  <2>4. out * (r0 + a) \in Nat /\ a * r1 \in Nat /\ out * d \in Nat
        /\ (out * (r0 + a)) * g \in Nat /\ (a * r1) * g \in Nat
    BY <1>1, ProductIsNatural
  <2>5. (out * (r0 + a)) * g <= (a * r1) * g
    BY <1>1, <2>2, <2>3, <2>4
  <2> QED
    BY <2>1, <2>4, <2>5, Cancel
<1>6. ASSUME f = m PROVE out = 0
  <2>1. a * g * r1 = 0
    BY <1>1, <1>6, SMT
  <2> HIDE DEF d, g
  <2>2. out * d <= 0 * d
    BY <1>1, <2>1
  <2>3. out <= 0
    BY <1>1, <2>2, Cancel
  <2> QED
    BY <2>3
<1> QED
  BY <1>3, <1>4, <1>5, <1>6

LEMMA V2Bounds ==
  ASSUME NEW s \in PoolStates, NEW a \in Words, NEW fee \in Nat, V2Quote(s, a, fee) # NoQuote,
         Fits(s, a)
  PROVE  LET q == V2Quote(s, a, fee)
             f == FeePerMille(fee)
         IN  /\ a <= s.reserve0 => q.out <= s.reserve1 /\ q.out1 <= s.reserve1
             /\ s.reserve1 <= s.reserve0 => q.out <= a
             /\ (Mille - 2 * f) * a <= f * s.reserve0 =>
                  q.in1 * q.out1 >= s.reserve0 * s.reserve1
<1> DEFINE out == V2Quote(s, a, fee).out
           f == FeePerMille(fee)
           r0 == s.reserve0
           r1 == s.reserve1
<1>1. /\ r0 \in Nat /\ r1 \in Words /\ r1 \in Nat /\ a \in Nat /\ out \in Words /\ out \in Nat
      /\ f \in Nat /\ f <= Mille /\ Mille \in Nat \ {0}
      /\ r0 * Mille + a * f \in Nat \ {0} /\ out * (r0 * Mille + a * f) <= a * (Mille - f) * r1
      /\ V2Quote(s, a, fee).in1 = Plus(r0, a) /\ V2Quote(s, a, fee).out1 = Minus(r1, out)
  <2>1. r0 \in Words /\ r1 \in Words /\ r0 \in Nat /\ r1 \in Nat /\ a \in Nat
    BY WordsAreNatural DEF PoolStates
  <2>2. f \in 0..Mille /\ Mille \in Nat \ {0}
    BY FeeFacts, QuoteAssumption
  <2>3. /\ out \in Words /\ V2Quote(s, a, fee).in1 = Plus(r0, a)
        /\ V2Quote(s, a, fee).out1 = Minus(r1, out)
        /\ r0 * Mille + a * f \in Nat \ {0} /\ out * (r0 * Mille + a * f) <= a * (Mille - f) * r1
    BY V2QuoteFacts
  <2> HIDE DEF out, f, r0, r1
  <2>4. out \in Nat /\ f \in Nat /\ f <= Mille
    BY <2>2, <2>3, WordsAreNatural
  <2> QED
    BY <2>1, <2>2, <2>3, <2>4
<1> HIDE DEF out, f, r0, r1
<1>2. /\ a <= r0 => out <= r1
      /\ r1 <= r0 => out <= a
      /\ (Mille - 2 * f) * a <= f * r0 /\ f # Mille => out * (r0 + a) <= a * r1
      /\ f = Mille => out = 0
  BY <1>1, FractionBounds
<1>3. out <= r1 => Minus(r1, out) = r1 - out
  BY <1>1, MinusFacts
<1>4. r0 + a < Word /\ Plus(r0, a) = r0 + a
  <2>1. Mille * (r0 + a) < Word /\ r0 + a <= Mille * (r0 + a)
    <3>1. Mille * (r0 + a) < Word
      BY DEF Fits, r0
    <3>2. 1 * (r0 + a) <= Mille * (r0 + a) /\ 1 * (r0 + a) = r0 + a
      BY <1>1, Scaled
    <3> QED
      BY <3>1, <3>2
  <2>2. r0 + a \in Nat /\ Mille * (r0 + a) \in Nat /\ Word \in Nat
    BY <1>1, QuoteAssumption, ProductIsNatural
  <2>3. r0 + a < Word
    BY <2>1, <2>2
  <2> QED
    BY <1>1, <2>3, PlusFacts
<1>5. ASSUME (Mille - 2 * f) * a <= f * r0
      PROVE  Plus(r0, a) * Minus(r1, out) >= r0 * r1
  <2>1. out * (r0 + a) <= a * r1
    <3>1. CASE f = Mille
      <4>1. out * (r0 + a) = 0 /\ a * r1 >= 0
        BY <1>1, <1>2, <3>1, ProductIsNatural
      <4> QED
        BY <4>1
    <3> QED
      BY <1>2, <1>5, <3>1
  <2>2. out <= r1
    <3>1. CASE r0 + a = 0
      <4>1. a = 0 /\ r0 = 0
        BY <1>1, <3>1
      <4>2. r0 * Mille + a * f = 0
        BY <1>1, <4>1, SMT
      <4> QED
        BY <1>1, <4>2
    <3>2. CASE r0 + a # 0
      <4>1. a * r1 <= (r0 + a) * r1 /\ (r0 + a) * r1 = r1 * (r0 + a)
        BY <1>1, Scaled, SMT
      <4>2. a * r1 \in Nat /\ r1 * (r0 + a) \in Nat /\ out * (r0 + a) \in Nat
        BY <1>1, ProductIsNatural
      <4>3. out * (r0 + a) <= r1 * (r0 + a)
        BY <2>1, <4>1, <4>2
      <4> QED
        BY <1>1, <3>2, <4>3, Cancel
    <3> QED
      BY <3>1, <3>2
  <2>3. (r0 + a) * (r1 - out) = r0 * r1 + a * r1 - out * (r0 + a)
    BY <1>1, SMT
  <2>4. r0 * r1 \in Nat /\ a * r1 \in Nat /\ out * (r0 + a) \in Nat
    BY <1>1, ProductIsNatural
  <2>5. (r0 + a) * (r1 - out) >= r0 * r1
    BY <2>1, <2>3, <2>4
  <2> QED
    BY <1>3, <1>4, <2>2, <2>5
<1>6. ASSUME a <= r0 PROVE out <= r1 /\ Minus(r1, out) <= r1
  BY <1>1, <1>2, <1>3, <1>6
<1> QED
  BY <1>1, <1>2, <1>5, <1>6 DEF out, f, r0, r1
(* A quotient is at least what the divisor fits in that many times.        *)
LEMMA QuotientAtLeast ==
  ASSUME NEW x \in Nat, NEW d \in Nat \ {0}, NEW k \in Nat, k * d <= x
  PROVE  x \div d >= k
<1> DEFINE q == x \div d
<1>1. q \in Nat /\ x < d * q + d
  BY QuotientFacts, DivBounds
<1> HIDE DEF q
<1> SUFFICES ASSUME q + 1 <= k PROVE FALSE
  BY <1>1 DEF q
<1>2. (q + 1) * d <= k * d
  BY <1>1, Scaled
<1>3. (q + 1) * d = d * q + d /\ d * q \in Nat /\ k * d \in Nat
  BY <1>1, SMT
<1> QED
  BY <1>1, <1>2, <1>3

(* The arithmetic of a round trip from an output to the input asked for it *)
(* and back.                                                               *)
LEMMA AskedInputBounds ==
  ASSUME NEW r0 \in Nat, NEW r1 \in Nat, NEW out \in Nat, NEW in \in Nat, NEW m \in Nat,
         NEW f \in Nat, 2 * f <= m, out < r1,
         r0 * out * m < ((r1 - out) * (m - f)) * in
  PROVE  out * (r0 * m + in * f) <= (in * (m - f)) * r1
<1> DEFINE g == m - f
<1>1. g \in Nat /\ f <= g
  OBVIOUS
<1> HIDE DEF g
<1>2. ((r1 - out) * g) * in = (in * g) * r1 - (out * in) * g
  BY <1>1, SMT
<1>3. out * (r0 * m + in * f) = r0 * out * m + (out * in) * f
  BY SMT
<1>4. out * in \in Nat /\ (out * in) * f <= (out * in) * g
  BY <1>1, ProductIsNatural, Scaled
<1>5. /\ r0 * out * m \in Nat /\ (in * g) * r1 \in Nat /\ (out * in) * g \in Nat
      /\ (out * in) * f \in Nat
  BY <1>1, <1>4, ProductIsNatural
<1>6. r0 * out * m < ((r1 - out) * g) * in
  BY DEF g
<1>7. out * (r0 * m + in * f) <= (in * g) * r1
  BY <1>2, <1>3, <1>4, <1>5, <1>6
<1> QED
  BY <1>7 DEF g

LEMMA AskedInputSuffices ==
  ASSUME NEW s \in PoolStates, NEW out \in Words, NEW fee \in Nat, 2 * FeePerMille(fee) <= Mille,
         AmountIn(s.reserve0, s.reserve1, out, fee) # NoAmount,
         Mille * (s.reserve0 + AmountIn(s.reserve0, s.reserve1, out, fee)) * s.reserve1 < Word
  PROVE  V2Quote(s, AmountIn(s.reserve0, s.reserve1, out, fee), fee).out >= out
<1> DEFINE f == FeePerMille(fee)
           g == Mille - f
           r0 == s.reserve0
           r1 == s.reserve1
           in == AmountIn(r0, r1, out, fee)
           d == Times(r1 - out, g)
           n == Times(Times(r0, out), Mille)
<1>1. r0 \in Nat /\ r1 \in Nat /\ out \in Nat /\ Mille \in Nat \ {0} /\ Word \in Nat \ {0}
  BY WordsAreNatural, QuoteAssumption DEF PoolStates
<1>2. f \in Nat /\ g \in Nat /\ f + g = Mille /\ 2 * f <= Mille /\ f <= Mille
  <2>1. f \in 0..Mille
    BY FeeFacts
  <2> QED
    BY <1>1, <2>1
<1>3. r0 # 0 /\ r1 # 0 /\ out < r1 /\ d # 0 /\ in = Plus(n \div d, 1)
  <2>1. ~(r0 = 0 \/ r1 = 0 \/ out >= r1 \/ d = 0) /\ in = Plus(n \div d, 1)
    BY DEF AmountIn
  <2> QED
    BY <1>1, <2>1
<1>4. Mille * (r0 + in) * r1 < Word
  OBVIOUS
<1>5. V2Quote(s, in, fee) =
        IF r0 = 0 \/ r1 = 0 \/ in = 0 \/ V2Denominator(r0, in, fee) = 0 THEN NoQuote
        ELSE [out |-> V2Out(r0, r1, in, fee), in1 |-> Plus(r0, in),
              out1 |-> Minus(r1, V2Out(r0, r1, in, fee))]
  BY DEF V2Quote
<1>6. V2Denominator(r0, in, fee) = Plus(Times(r0, Mille), Times(in, f))
      /\ V2Out(r0, r1, in, fee) = Times(Times(in, g), r1) \div V2Denominator(r0, in, fee)
  BY DEF V2Denominator, V2Out
<1> SUFFICES V2Quote(s, in, fee).out >= out
  OBVIOUS
<1> HIDE DEF f, g, r0, r1
<1>7. d \in Nat \ {0} /\ n \in Nat /\ n < Word /\ n \div d \in Nat
  <2>1. r1 - out \in Nat /\ Times(r0, out) \in Nat
    <3>1. r1 - out \in Nat
      BY <1>1, <1>3
    <3>2. Times(r0, out) \in Words
      BY <1>1, TimesFacts
    <3> QED
      BY <3>1, <3>2, WordsAreNatural
  <2>2. d \in Words
    BY <1>2, <2>1, TimesFacts
  <2>3. n \in Words
    BY <1>1, <2>1, TimesFacts
  <2> HIDE DEF d, n
  <2> QED
    BY <1>1, <1>3, <2>2, <2>3, WordsAreNatural, QuotientFacts DEF Words
<1> HIDE DEF in
<1>8. in \in Nat
  BY <1>3, <1>7, PlusFacts, WordsAreNatural
<1>9. /\ Mille * r0 * r1 \in Nat /\ Mille * in * r1 \in Nat /\ Mille * r0 \in Nat /\ Mille * in \in Nat
      /\ Mille * r0 * r1 + Mille * in * r1 < Word /\ Mille * r0 + Mille * in < Word
  <2>1. Mille * (r0 + in) * r1 = Mille * r0 * r1 + Mille * in * r1
    BY <1>1, <1>8, SMT
  <2>2. Mille * (r0 + in) = Mille * r0 + Mille * in
    BY <1>1, <1>8, SMT
  <2>3. Mille * (r0 + in) \in Nat /\ (Mille * (r0 + in)) * 1 <= (Mille * (r0 + in)) * r1
    BY <1>1, <1>3, <1>8, ProductIsNatural, Scaled
  <2>4. (Mille * (r0 + in)) * r1 \in Nat
    BY <1>1, <2>3, ProductIsNatural
  <2>5. Mille * (r0 + in) < Word
    BY <1>1, <1>4, <2>3, <2>4
  <2>6. /\ Mille * r0 \in Nat /\ Mille * in \in Nat
        /\ Mille * r0 * r1 \in Nat /\ Mille * in * r1 \in Nat
    BY <1>1, <1>8, ProductIsNatural
  <2> QED
    BY <1>4, <2>1, <2>2, <2>5, <2>6
<1>10. d = (r1 - out) * g
  <2> DEFINE x == (r1 - out) * g
             y == r1 * Mille
             z == Mille * r0 * r1
  <2>1. r1 - out \in Nat /\ r1 - out <= r1 /\ g <= Mille /\ 1 <= r0 /\ y \in Nat /\ z \in Nat
    BY <1>1, <1>2, <1>3, <1>9, ProductIsNatural
  <2>2. x <= r1 * g /\ r1 * g <= y /\ r1 * g \in Nat /\ x \in Nat
    BY <1>1, <1>2, <2>1, Scaled, ProductIsNatural
  <2>3. y <= z
    <3> HIDE DEF y, z
    <3>1. 1 * y <= r0 * y /\ 1 * y = y
      BY <1>1, <2>1, Scaled
    <3>2. r0 * y = z
      BY <1>1, SMT DEF y, z
    <3> QED
      BY <3>1, <3>2
  <2>4. z < Word
    <3> DEFINE rest == Mille * in * r1
    <3>1. rest \in Nat /\ z + rest < Word
      BY <1>9
    <3> HIDE DEF rest, z
    <3> QED
      BY <1>1, <2>1, <3>1
  <2>5. x < Word
    <3> HIDE DEF x, y, z
    <3> QED
      BY <1>1, <2>1, <2>2, <2>3, <2>4
  <2> QED
    BY <1>2, <2>1, <2>5, TimesFacts
<1>11. n = r0 * out * Mille /\ n + 1 < Word
  <2> DEFINE x == r0 * out
             y == r0 * (r1 - 1)
             z == Mille * r0 * r1
             w == Mille * r0
  <2>1. x <= y /\ x \in Nat /\ y \in Nat /\ z \in Nat /\ w \in Nat
    <3>1. r1 - 1 \in Nat /\ out <= r1 - 1
      BY <1>1, <1>3
    <3> QED
      BY <1>1, <1>9, <3>1, Scaled, ProductIsNatural
  <2>2. y * Mille = z - w
    BY <1>1, SMT
  <2>3. z < Word
    <3> DEFINE rest == Mille * in * r1
    <3>1. rest \in Nat /\ z + rest < Word
      BY <1>9
    <3> HIDE DEF rest, z
    <3> QED
      BY <1>1, <2>1, <3>1
  <2>4. w >= 1
    <3>1. 1 <= r0 /\ 1 <= Mille
      BY <1>1, <1>3
    <3>2. Mille * 1 <= w /\ Mille * 1 = Mille
      BY <1>1, <3>1, Scaled
    <3> QED
      BY <1>1, <2>1, <3>1, <3>2
  <2> HIDE DEF x, y, z, w
  <2>5. x * Mille <= y * Mille /\ x * Mille \in Nat /\ x * 1 <= x * Mille
    BY <1>1, <2>1, Scaled, ProductIsNatural
  <2>6. x * Mille + 1 < Word
    BY <1>1, <2>1, <2>2, <2>3, <2>4, <2>5
  <2>7. x < Word
    BY <1>1, <2>1, <2>5, <2>6
  <2>8. Times(r0, out) = x
    BY <1>1, <2>7, TimesFacts DEF x
  <2>9. Times(x, Mille) = x * Mille
    BY <1>1, <2>1, <2>5, <2>6, TimesFacts
  <2> QED
    BY <2>6, <2>8, <2>9 DEF x
<1> HIDE DEF d, n
<1>12. in = n \div d + 1 /\ n < d * in
  <2>1. n \div d <= n /\ n < d * (n \div d) + d /\ n \div d \in Nat
    BY <1>7, QuotientFacts, DivBounds
  <2> DEFINE q == n \div d
  <2>2. q \in Nat /\ q <= n /\ n < d * q + d /\ in = Plus(q, 1)
    BY <1>3, <2>1
  <2> HIDE DEF q
  <2>3. q + 1 < Word
    BY <1>1, <1>7, <1>11, <2>2
  <2>4. in = q + 1
    BY <2>2, <2>3, PlusFacts
  <2>5. d * (q + 1) = d * q + d
    BY <1>7, <2>2, SMT
  <2> QED
    BY <2>2, <2>4, <2>5 DEF q
<1> DEFINE e == r0 * Mille + in * f
           p == (in * g) * r1
<1>13. out * e <= p
  <2>1. r0 * out * Mille < ((r1 - out) * (Mille - f)) * in /\ Mille - f = g
    BY <1>2, <1>10, <1>11, <1>12 DEF g
  <2> QED
    BY <1>1, <1>2, <1>3, <1>8, <2>1, AskedInputBounds
<1>14. e \in Nat \ {0} /\ V2Denominator(r0, in, fee) = e
  <2>1. in * f <= in * Mille /\ in * f \in Nat /\ r0 * Mille \in Nat
    BY <1>1, <1>2, <1>8, Scaled, ProductIsNatural
  <2>2. in * Mille = Mille * in /\ r0 * Mille = Mille * r0
    BY <1>1, <1>8, SMT
  <2>3. r0 * Mille < Word /\ in * f < Word /\ r0 * Mille + in * f < Word
    BY <1>1, <1>9, <2>1, <2>2
  <2>4. Times(r0, Mille) = r0 * Mille /\ Times(in, f) = in * f
    BY <1>1, <1>2, <1>8, <2>3, TimesFacts
  <2>5. Plus(r0 * Mille, in * f) = r0 * Mille + in * f
    BY <2>1, <2>3, PlusFacts
  <2>6. 1 * Mille <= r0 * Mille
    BY <1>1, <1>3, Scaled
  <2> QED
    BY <1>1, <1>6, <2>1, <2>4, <2>5, <2>6
<1>15. p \in Nat /\ Times(Times(in, g), r1) = p
  <2>1. g <= Mille /\ in * g <= in * Mille /\ in * g \in Nat /\ in * Mille = Mille * in
    BY <1>1, <1>2, <1>8, Scaled, ProductIsNatural, SMT
  <2>2. (in * g) * r1 <= (Mille * in) * r1 /\ (in * g) * r1 \in Nat
    BY <1>1, <1>9, <2>1, Scaled, ProductIsNatural
  <2>3. in * g < Word /\ (in * g) * r1 < Word
    BY <1>1, <1>9, <2>1, <2>2
  <2>4. Times(in, g) = in * g
    BY <1>2, <1>8, <2>3, TimesFacts
  <2>5. Times(in * g, r1) = (in * g) * r1
    BY <1>1, <2>1, <2>3, TimesFacts
  <2> QED
    BY <2>2, <2>4, <2>5
<1> HIDE DEF e, p
<1>16. p \div e >= out
  BY <1>1, <1>13, <1>14, <1>15, QuotientAtLeast
<1>17. in # 0
  BY <1>7, <1>12
<1>18. V2Quote(s, in, fee).out = p \div e
  BY <1>3, <1>5, <1>6, <1>14, <1>15, <1>17
<1> QED
  BY <1>16, <1>18
-----------------------------------------------------------------------------
(* StableSwap.                                                             *)

(* A solver that only meets words gives a word or None.                    *)
LEMMA SolveFacts ==
  ASSUME NEW step, NEW d0 \in Words, NEW rounds \in Nat,
         \A v \in Words \ {0} : step[v] \in Words
  PROVE  Solve(step, d0, rounds) \in Words \cup {NoAmount}
<1> DEFINE Progress == [d : Words \cup {NoAmount}, done : BOOLEAN]
           Advance(p) == CASE p.done -> p
                           [] ~p.done /\ p.d = 0 -> [d |-> NoAmount, done |-> TRUE]
                           [] ~p.done /\ p.d # 0 -> [d |-> step[p.d], done |-> Near(step[p.d], p.d)]
           V == {p \in Progress : p.done \/ p.d \in Words}
           first == [d |-> d0, done |-> FALSE]
           loop == [k \in 1..rounds |-> [p \in Progress |-> Advance(p)]]
<1>1. first \in V
  OBVIOUS
<1>2. ASSUME NEW p \in V PROVE Advance(p) \in V
  <2>1. p \in Progress /\ p.done \in BOOLEAN /\ (p.done \/ p.d \in Words)
    OBVIOUS
  <2>2. CASE p.done
    BY <2>2
  <2>3. CASE ~p.done /\ p.d = 0
    BY <2>3
  <2>4. CASE ~p.done /\ p.d # 0
    <3>1. step[p.d] \in Words
      BY <2>1, <2>4
    <3>2. Near(step[p.d], p.d) \in BOOLEAN
      BY DEF Near
    <3>3. Advance(p) = [d |-> step[p.d], done |-> Near(step[p.d], p.d)]
      BY <2>4
    <3> QED
      BY <3>1, <3>2, <3>3
  <2> QED
    BY <2>1, <2>2, <2>3, <2>4
<1>3. ASSUME NEW k \in 1..rounds, NEW p \in V PROVE loop[k][p] \in V
  <2>1. p \in Progress
    OBVIOUS
  <2>2. loop[k][p] = Advance(p)
    BY <2>1
  <2> HIDE DEF loop, Advance, V
  <2> QED
    BY <1>2, <2>2
<1>4. Iterate(loop, first, rounds) \in V
  <2> HIDE DEF loop, first, V
  <2> QED
    BY <1>1, <1>3, IterateStaysIn
<1>5. Solve(step, d0, rounds) = Iterate(loop, first, rounds).d
  BY DEF Solve
<1> HIDE DEF loop, first
<1> QED
  BY <1>4, <1>5

(* Four times the amplification and one is never zero.                     *)
LEMMA AnnFacts ==
  ASSUME NEW amp \in Nat
  PROVE  Times(amp, 4) \in Words /\ Plus(Times(amp, 4), 1) \in Nat \ {0}
<1> DEFINE ann == Times(amp, 4)
           w == Word \div 4
           q == (amp * 4) \div Word
<1>1. ann \in Words /\ ann \in Nat /\ ann < Word
  <2>1. ann \in Words
    BY TimesFacts
  <2> HIDE DEF ann
  <2> QED
    BY <2>1, QuoteAssumption DEF Words
<1>2. Word = 4 * w /\ w \in Int
  <2>1. Word \in Int /\ Word % 4 = 0
    BY QuoteAssumption
  <2>2. Word = 4 * w + (Word % 4)
    BY <2>1, ModFacts
  <2>3. w \in Nat
    BY QuoteAssumption, QuotientFacts
  <2> HIDE DEF w
  <2> QED
    BY <2>1, <2>2, <2>3
<1>3. amp * 4 = Word * q + ann /\ q \in Int
  <2>1. Word \in Nat \ {0} /\ amp * 4 \in Int
    BY QuoteAssumption
  <2>2. amp * 4 = Word * q + ((amp * 4) % Word)
    BY <2>1, ModFacts
  <2>3. q \in Nat
    BY <2>1, QuotientFacts
  <2> QED
    BY <2>2, <2>3 DEF Times
<1> HIDE DEF ann, w, q
<1>4. Word * q = 4 * (w * q) /\ w * q \in Int
  BY <1>2, <1>3, SMT
<1> DEFINE p == w * q
<1>5. amp * 4 = 4 * p + ann /\ p \in Int
  BY <1>3, <1>4
<1> HIDE DEF p
<1>6. ann + 1 # Word
  BY <1>1, <1>2, <1>5
<1>7. Plus(ann, 1) = ann + 1
  BY <1>1, <1>6, QuoteAssumption, PlusFacts
<1> QED
  BY <1>1, <1>7 DEF ann

LEMMA ComputeDFacts ==
  ASSUME NEW x \in Words, NEW y \in Words, NEW amp \in Nat
  PROVE  ComputeD(x, y, amp) \in Words \cup {NoAmount}
<1> DEFINE ann == Times(amp, 4)
           Step(d) == Plus(Times(ann, Plus(x, y)), Times(Times(x, y), 4) \div d) \div Plus(ann, 1)
           step == [d \in Words \ {0} |-> Step(d)]
<1>1. ann \in Nat /\ Plus(ann, 1) \in Nat \ {0}
  BY AnnFacts, WordsAreNatural
<1>2. x \in Nat /\ y \in Nat
  BY WordsAreNatural
<1>3. Plus(x, y) \in Words
  BY <1>2, PlusFacts
<1> HIDE DEF ann
<1>4. ASSUME NEW d \in Words \ {0} PROVE Step(d) \in Words
  <2>1. Times(ann, Plus(x, y)) \in Nat
    BY <1>1, <1>3, TimesFacts, WordsAreNatural
  <2>2. Times(x, y) \in Nat
    BY <1>2, TimesFacts, WordsAreNatural
  <2>3. Times(Times(x, y), 4) \in Words
    BY <2>2, TimesFacts
  <2>4. d \in Nat \ {0}
    BY WordsAreNatural
  <2>5. Times(Times(x, y), 4) \div d \in Nat
    BY <2>3, <2>4, WordQuotient, WordsAreNatural
  <2>6. Plus(Times(ann, Plus(x, y)), Times(Times(x, y), 4) \div d) \in Words
    BY <2>1, <2>5, PlusFacts
  <2> QED
    BY <1>1, <2>6, WordQuotient
<1>5. \A d \in Words \ {0} : step[d] \in Words
  <2> HIDE DEF Step
  <2> QED
    BY <1>4
<1>6. ComputeD(x, y, amp) = Solve(step, Plus(x, y), Rounds)
  BY DEF ComputeD, ann
<1> HIDE DEF step
<1> QED
  BY <1>3, <1>5, <1>6, SolveFacts, QuoteAssumption

LEMMA NewtonYFacts ==
  ASSUME NEW x \in Words, NEW d \in Words, NEW amp \in Nat,
         x # 0 => Times(Times(4, x), amp) # 0
  PROVE  NewtonY(x, d, amp) \in Words \cup {NoAmount}
<1> SUFFICES ASSUME x # 0 PROVE NewtonY(x, d, amp) \in Words \cup {NoAmount}
  BY DEF NewtonY
<1> DEFINE cube == Times(Times(d, d), d) \div Times(Times(4, x), amp)
           Below(v) == Plus(Times(2, v), x)
           Step(v) == IF Below(v) = 0 THEN 0 ELSE Plus(Times(v, v), cube) \div Below(v)
           step == [v \in Words \ {0} |-> Step(v)]
<1>1. x \in Nat /\ d \in Nat
  BY WordsAreNatural
<1>2. cube \in Nat
  <2>1. Times(4, x) \in Nat /\ Times(d, d) \in Nat
    BY <1>1, TimesFacts, WordsAreNatural
  <2>2. Times(Times(4, x), amp) \in Nat \ {0} /\ Times(Times(d, d), d) \in Words
    BY <1>1, <2>1, TimesFacts, WordsAreNatural
  <2> QED
    BY <2>2, WordQuotient, WordsAreNatural
<1> HIDE DEF cube
<1>3. ASSUME NEW v \in Words PROVE Step(v) \in Words
  <2>1. v \in Nat /\ Times(2, v) \in Nat /\ Times(v, v) \in Nat
    BY TimesFacts, WordsAreNatural
  <2>2. Below(v) \in Nat /\ Plus(Times(v, v), cube) \in Words
    BY <1>1, <1>2, <2>1, PlusFacts, WordsAreNatural
  <2> HIDE DEF Below
  <2>3. Below(v) # 0 => Plus(Times(v, v), cube) \div Below(v) \in Words
    BY <2>2, WordQuotient
  <2> QED
    BY <2>3, WordsAreNatural
<1>4. \A v \in Words \ {0} : step[v] \in Words
  <2> HIDE DEF Step
  <2> QED
    BY <1>3
<1>5. NewtonY(x, d, amp) =
        LET y == Solve(step, d, Rounds - 1)
        IN  IF x = 0 \/ y = 0 \/ y > d THEN NoAmount ELSE y
  BY DEF NewtonY, cube
<1> HIDE DEF step
<1>6. Rounds - 1 \in Nat
  BY QuoteAssumption
<1>7. Solve(step, d, Rounds - 1) \in Words \cup {NoAmount}
  BY <1>4, <1>6, SolveFacts
<1> QED
  BY <1>5, <1>7

LEMMA StableFacts ==
  ASSUME NEW s \in PoolStates, NEW a \in Words, NEW fee \in Nat,
         StableQuote(s, a, fee) # NoQuote, ~QuotePanics("stable", s, a)
  PROVE  LET q == StableQuote(s, a, fee)
         IN  /\ q.out \in Words /\ q.out <= a
             /\ a <= s.reserve1 => q.out <= s.reserve1 /\ q.out1 <= s.reserve1
<1> DEFINE r0 == s.reserve0
           r1 == s.reserve1
           x == Plus(r0, a)
           d == ComputeD(r0, r1, s.amp)
           y == NewtonY(x, d, s.amp)
           linear == AfterFee(a, fee)
<1>1. r0 \in Words /\ r1 \in Words /\ s.amp \in Nat /\ a \in Nat /\ r1 \in Nat /\ r0 \in Nat
  BY WordsAreNatural DEF PoolStates
<1>2. x \in Words
  BY <1>1, PlusFacts
<1>3. d \in Words \cup {NoAmount}
  BY <1>1, ComputeDFacts
<1>4. r0 # 0 /\ r1 # 0 /\ a # 0 /\ s.amp # 0
  BY DEF StableQuote
<1>5. StableQuote(s, a, fee) =
        IF d <= 0 \/ y = NoAmount \/ y >= r1 \/ r1 - y > a
        THEN [out |-> linear, in1 |-> x, out1 |-> Minus(r1, linear)]
        ELSE [out |-> AfterFee(r1 - y, fee), in1 |-> x, out1 |-> y]
  BY <1>4 DEF StableQuote, LinearQuote
<1>6. d > 0 /\ x # 0 => Times(Times(4, x), s.amp) # 0
  BY <1>4 DEF QuotePanics
<1> HIDE DEF r0, r1, x, d
<1>7. d > 0 => y \in Words \cup {NoAmount}
  <2> SUFFICES ASSUME d > 0 PROVE y \in Words \cup {NoAmount}
    OBVIOUS
  <2>1. d \in Words
    BY <1>3 DEF NoAmount
  <2> QED
    BY <1>1, <1>2, <1>6, <2>1, NewtonYFacts
<1> HIDE DEF y
<1>8. linear \in Words /\ linear <= a /\ linear \in Nat
  BY <1>1, AfterFeeFacts, WordsAreNatural
<1> HIDE DEF linear
<1>9. CASE d <= 0 \/ y = NoAmount \/ y >= r1 \/ r1 - y > a
  <2>1. linear <= r1 => Minus(r1, linear) = r1 - linear
    BY <1>1, <1>8, MinusFacts
  <2>2. StableQuote(s, a, fee) = [out |-> linear, in1 |-> x, out1 |-> Minus(r1, linear)]
    BY <1>5, <1>9
  <2>3. a <= r1 => linear <= r1 /\ Minus(r1, linear) <= r1
    BY <1>1, <1>8, <2>1
  <2> QED
    BY <1>8, <2>2, <2>3 DEF r1
<1>10. CASE ~(d <= 0 \/ y = NoAmount \/ y >= r1 \/ r1 - y > a)
  <2>1. d > 0
    BY <1>3, <1>10, WordsAreNatural DEF NoAmount
  <2>2. y \in Words /\ y \in Nat
    BY <1>7, <1>10, <2>1, WordsAreNatural
  <2>3. r1 - y \in Nat /\ r1 - y <= a /\ r1 - y <= r1 /\ y <= r1
    BY <1>1, <1>10, <2>2
  <2>4. AfterFee(r1 - y, fee) \in Words /\ AfterFee(r1 - y, fee) <= r1 - y
    BY <2>3, AfterFeeFacts
  <2> DEFINE out == AfterFee(r1 - y, fee)
  <2>5. out \in Nat /\ out <= a /\ out <= r1
    <3>1. out \in Nat /\ out <= r1 - y
      BY <2>4, WordsAreNatural
    <3> HIDE DEF out
    <3> QED
      BY <1>1, <2>2, <2>3, <3>1
  <2>6. StableQuote(s, a, fee) = [out |-> out, in1 |-> x, out1 |-> y]
    BY <1>5, <1>10
  <2> QED
    BY <2>3, <2>4, <2>5, <2>6 DEF r1
<1> QED
  BY <1>9, <1>10
-----------------------------------------------------------------------------
(* Weighted pools.                                                         *)

LEMMA OneFacts == OneSquared \in Nat \ {0} /\ OneSquared \in Words /\ One \in Nat \ {0}
<1>1. One \in Nat \ {0} /\ OneSquared < Word /\ Word \in Nat
  BY QuoteAssumption DEF OneSquared
<1>2. OneSquared \in Nat
  BY <1>1, ProductIsNatural DEF OneSquared
<1>3. OneSquared # 0
  BY <1>1, SMT DEF OneSquared
<1> QED
  BY <1>1, <1>2, <1>3 DEF Words

LEMMA PowerFacts ==
  ASSUME NEW first \in Words, NEW x \in Nat, NEW n \in Nat
  PROVE  Power(first, x, n) \in Words
<1> DEFINE loop == [k \in 1..n |-> [v \in Words |-> Times(v, x) \div OneSquared]]
<1>1. ASSUME NEW k \in 1..n, NEW v \in Words PROVE loop[k][v] \in Words
  <2>1. Times(v, x) \in Words
    BY TimesFacts, WordsAreNatural
  <2>2. Times(v, x) \div OneSquared \in Words
    BY <2>1, WordQuotient, OneFacts
  <2> QED
    BY <2>2
<1>2. Power(first, x, n) = Iterate(loop, first, n)
  BY DEF Power
<1> HIDE DEF loop
<1> QED
  BY <1>1, <1>2, IterateStaysIn

LEMMA TaylorLnFacts ==
  ASSUME NEW x \in Words, NEW negative \in BOOLEAN
  PROVE  TaylorLn(x, negative) \in Words
<1> DEFINE Term(k) == Power(x, x, k - 1) \div k
           Step(n, sum) == IF negative \/ n % 2 = 0 THEN SaturatingPlus(sum, Term(n + 1))
                           ELSE SaturatingMinus(sum, Term(n + 1))
           loop == [n \in 1..5 |-> [sum \in Words |-> Step(n, sum)]]
<1>1. ASSUME NEW n \in 1..5, NEW sum \in Words PROVE Step(n, sum) \in Words
  <2>1. n \in Nat /\ (n + 1) - 1 = n /\ n + 1 \in Nat \ {0} /\ x \in Nat
    BY WordsAreNatural
  <2>2. Power(x, x, n) \in Words
    BY <2>1, PowerFacts
  <2>3. Term(n + 1) \in Nat
    BY <2>1, <2>2, WordQuotient, WordsAreNatural
  <2> HIDE DEF Term
  <2> QED
    BY <2>3, SaturatingFacts
<1>2. \A n \in 1..5, sum \in Words : loop[n][sum] \in Words
  <2> HIDE DEF Step
  <2> QED
    BY <1>1
<1>3. TaylorLn(x, negative) = Iterate(loop, x, 5)
  BY DEF TaylorLn
<1> HIDE DEF loop
<1> DEFINE V == Words
<1>4. x \in V
  OBVIOUS
<1>5. \A n \in 1..5, sum \in V : loop[n][sum] \in V
  BY <1>2
<1> HIDE DEF V
<1>6. Iterate(loop, x, 5) \in V
  BY <1>4, <1>5, IterateStaysIn
<1> QED
  BY <1>3, <1>6 DEF V

LEMMA FactorialFacts ==
  ASSUME NEW k \in Nat
  PROVE  Factorial(k) \in Nat \ {0}
<1> DEFINE loop == [i \in 1..k |-> [product \in Nat |-> i * product]]
           V == Nat \ {0}
<1>1. ASSUME NEW i \in 1..k, NEW v \in V PROVE loop[i][v] \in V
  <2>1. i * v \in Nat /\ i * v >= 1
    <3>1. i \in Nat /\ 1 <= i /\ v \in Nat /\ 1 <= v
      OBVIOUS
    <3>2. i * v \in Nat /\ i * 1 <= i * v /\ i * 1 = i
      BY <3>1, Scaled, ProductIsNatural
    <3> QED
      BY <3>1, <3>2
  <2> QED
    BY <2>1
<1>2. Factorial(k) = Iterate(loop, 1, k)
  BY DEF Factorial
<1>3. 1 \in V
  OBVIOUS
<1> HIDE DEF loop, V
<1>4. Iterate(loop, 1, k) \in V
  BY <1>1, <1>3, IterateStaysIn
<1> QED
  BY <1>2, <1>4 DEF V

LEMMA TaylorExpFacts ==
  ASSUME NEW y \in Nat
  PROVE  TaylorExp(y) \in Words /\ TaylorExp(y) >= OneSquared
<1> DEFINE Term(k) == Power(OneSquared, y, k) \div Factorial(k)
           Step(k, sum) == IF \E j \in 1..(k - 1) : Term(j) = 0 THEN sum
                           ELSE SaturatingPlus(sum, Term(k))
           loop == [k \in 1..10 |-> [sum \in Words |-> Step(k, sum)]]
           V == {v \in Words : v >= OneSquared}
<1>1. ASSUME NEW k \in 1..10, NEW v \in V PROVE Step(k, v) \in V
  <2>1. k \in Nat
    OBVIOUS
  <2>2. Power(OneSquared, y, k) \in Words /\ Factorial(k) \in Nat \ {0}
    BY <2>1, PowerFacts, FactorialFacts, OneFacts
  <2>3. Term(k) \in Nat
    BY <2>2, WordQuotient, WordsAreNatural
  <2> HIDE DEF Term
  <2>4. SaturatingPlus(v, Term(k)) \in Words /\ SaturatingPlus(v, Term(k)) >= v
    BY <2>3, SaturatingFacts
  <2> DEFINE w == SaturatingPlus(v, Term(k))
  <2>5. w \in Words /\ w \in Nat /\ v \in Nat /\ w >= v /\ v >= OneSquared
    BY <2>4, WordsAreNatural
  <2> HIDE DEF w
  <2>6. w \in V
    BY <2>5, OneFacts
  <2> QED
    BY <2>6 DEF w
<1>2. \A k \in 1..10, v \in V : loop[k][v] \in V
  <2> HIDE DEF Step
  <2>1. \A k \in 1..10, v \in V : loop[k][v] = Step(k, v)
    OBVIOUS
  <2> HIDE DEF loop, V
  <2> QED
    BY <1>1, <2>1
<1>3. OneSquared \in V
  BY OneFacts
<1>4. TaylorExp(y) = Iterate(loop, OneSquared, 10)
  BY DEF TaylorExp
<1>5. Iterate(loop, OneSquared, 10) \in V
  <2> HIDE DEF loop, V
  <2> QED
    BY <1>2, <1>3, IterateStaysIn
<1> HIDE DEF loop
<1> QED
  BY <1>4, <1>5

(* A power is never below the whole, but for that of a ratio of zero.      *)
LEMMA FpPowFacts ==
  ASSUME NEW base \in Words, NEW exponent \in Nat
  PROVE  IF base = 0 THEN FpPow(base, exponent) = 0
         ELSE FpPow(base, exponent) \in Nat /\ FpPow(base, exponent) >= One
<1> SUFFICES ASSUME base # 0 PROVE FpPow(base, exponent) \in Nat /\ FpPow(base, exponent) >= One
  BY DEF FpPow
<1> DEFINE negative == base < One
           x == Times(IF negative THEN One - base ELSE base - One, One)
           y == Times(TaylorLn(x, negative), exponent) \div One
           e == TaylorExp(y)
<1>1. base \in Nat /\ One \in Nat \ {0}
  BY WordsAreNatural, OneFacts
<1>2. negative \in BOOLEAN
  OBVIOUS
<1>3. (IF negative THEN One - base ELSE base - One) \in Nat
  BY <1>1
<1>4. x \in Words
  BY <1>1, <1>3, TimesFacts
<1> HIDE DEF negative, x
<1>5. TaylorLn(x, negative) \in Nat
  BY <1>2, <1>4, TaylorLnFacts, WordsAreNatural
<1>6. y \in Nat
  <2>1. Times(TaylorLn(x, negative), exponent) \in Words
    BY <1>5, TimesFacts
  <2> QED
    BY <1>1, <2>1, WordQuotient, WordsAreNatural
<1> HIDE DEF y
<1>7. e \in Nat /\ One * One <= e
  BY <1>6, TaylorExpFacts, WordsAreNatural DEF OneSquared
<1> HIDE DEF e
<1>8. e \div One \in Nat /\ e \div One >= One
  BY <1>1, <1>7, QuotientFacts, QuotientAtLeast
<1>9. FpPow(base, exponent) = e \div One
  BY DEF FpPow, e, y, x, negative
<1> QED
  BY <1>8, <1>9

LEMMA WeightedOutFacts ==
  ASSUME NEW s \in PoolStates, NEW paid \in Words, s.weight1 # 0, Plus(s.reserve0, paid) # 0
  PROVE  LET out == WeightedOut(s, paid)
         IN  /\ out \in Words
             /\ (\A scale \in {1, One} : scale * (s.reserve0 + paid) < Word) =>
                  out <= s.reserve1 /\ (s.reserve1 <= s.reserve0 => out <= paid)
<1> DEFINE r0 == s.reserve0
           r1 == s.reserve1
           sum == Plus(r0, paid)
           fits == \A scale \in {1, One} : scale * (r0 + paid) < Word
           out == WeightedOut(s, paid)
<1>1. /\ r0 \in Words /\ r1 \in Words /\ r0 \in Nat /\ r1 \in Nat /\ paid \in Nat
      /\ s.weight0 \in Nat /\ s.weight1 \in Nat \ {0} /\ One \in Nat \ {0} /\ One > 1 /\ Word \in Nat
  <2>1. r0 \in Words /\ r1 \in Words /\ s.weight0 \in Words /\ s.weight1 \in Words
    BY DEF PoolStates
  <2>2. Word \in Nat /\ One \in Nat /\ One > 1
    BY QuoteAssumption
  <2>3. r0 \in Nat /\ r1 \in Nat /\ paid \in Nat /\ s.weight0 \in Nat /\ s.weight1 \in Nat
    BY <2>1, WordsAreNatural
  <2> QED
    BY <2>1, <2>2, <2>3
<1>2. sum \in Nat \ {0}
  BY <1>1, PlusFacts, WordsAreNatural
<1>3. fits => sum = r0 + paid /\ r0 + paid < Word /\ One * (r0 + paid) < Word
  <2>1. ASSUME fits PROVE r0 + paid < Word /\ One * (r0 + paid) < Word
    BY <1>1, <2>1
  <2> HIDE DEF fits
  <2> QED
    BY <1>1, <2>1, PlusFacts
<1>4. CASE s.weight0 = s.weight1
  <2> DEFINE n == Times(r1, paid)
  <2>1. n \in Words /\ n \in Nat /\ n <= r1 * paid
    BY <1>1, TimesFacts, WordsAreNatural
  <2>2. out = n \div sum
    BY <1>4 DEF WeightedOut
  <2> HIDE DEF n, sum, out, r0, r1, fits
  <2>3. out \in Words /\ out \in Nat /\ sum * out <= n
    BY <1>2, <2>1, <2>2, WordQuotient, QuotientFacts, WordsAreNatural
  <2>4. ASSUME fits PROVE out <= r1 /\ (r1 <= r0 => out <= paid)
    <3>1. out * (r0 + paid) <= r1 * paid
      <4>1. sum * out = out * (r0 + paid) /\ out * (r0 + paid) \in Nat /\ r1 * paid \in Nat
        BY <1>1, <1>3, <2>3, <2>4, ProductIsNatural, SMT
      <4> QED
        BY <2>1, <2>3, <4>1
    <3>2. r0 + paid \in Nat \ {0}
      BY <1>1, <1>2, <1>3, <2>4
    <3>3. r1 * paid <= r1 * (r0 + paid)
      BY <1>1, Scaled
    <3>4. r1 <= r0 => r1 * paid <= paid * (r0 + paid)
      <4> SUFFICES ASSUME r1 <= r0 PROVE r1 * paid <= paid * (r0 + paid)
        OBVIOUS
      <4>1. r1 <= r0 + paid
        BY <1>1
      <4>2. paid * r1 <= paid * (r0 + paid) /\ paid * r1 = r1 * paid
        BY <1>1, <4>1, Scaled, SMT
      <4> QED
        BY <4>2
    <3>5. /\ r1 * paid \in Nat /\ r1 * (r0 + paid) \in Nat /\ paid * (r0 + paid) \in Nat
          /\ out * (r0 + paid) \in Nat
      BY <1>1, <2>3, ProductIsNatural
    <3>6. out * (r0 + paid) <= r1 * (r0 + paid)
      BY <3>1, <3>3, <3>5
    <3>7. r1 <= r0 => out * (r0 + paid) <= paid * (r0 + paid)
      BY <3>1, <3>4, <3>5
    <3>8. out <= r1
      BY <1>1, <2>3, <3>2, <3>6, Cancel
    <3>9. r1 <= r0 => out <= paid
      BY <1>1, <2>3, <3>2, <3>7, Cancel
    <3> QED
      BY <3>8, <3>9
  <2> QED
    BY <2>3, <2>4 DEF out, fits, r0, r1
<1>5. CASE s.weight0 # s.weight1
  <2> DEFINE ratio == Times(r0, One) \div sum
             exponent == Times(s.weight0, One) \div s.weight1
             power == FpPow(ratio, exponent)
             share == SaturatingMinus(One, power)
             n == Times(r1, share)
  <2>1. out = n \div One
    BY <1>5 DEF WeightedOut
  <2>2. ratio \in Words
    <3>1. Times(r0, One) \in Words
      BY <1>1, TimesFacts
    <3> QED
      BY <1>2, <3>1, WordQuotient
  <2>3. exponent \in Nat
    <3>1. Times(s.weight0, One) \in Words
      BY <1>1, TimesFacts
    <3> QED
      BY <1>1, <3>1, WordQuotient, WordsAreNatural
  <2> HIDE DEF exponent
  <2>4. fits /\ ratio = 0 => r0 < paid
    <3> SUFFICES ASSUME fits, ratio = 0 PROVE r0 < paid
      OBVIOUS
    <3>1. r0 * One \in Nat /\ r0 * One <= One * (r0 + paid) /\ One * (r0 + paid) \in Nat
      <4>1. r0 * One = One * r0 /\ One * r0 <= One * (r0 + paid)
        BY <1>1, Scaled, SMT
      <4> QED
        BY <1>1, <4>1, ProductIsNatural
    <3>2. r0 * One < Word
      BY <1>1, <1>3, <3>1
    <3>3. Times(r0, One) = r0 * One
      BY <1>1, <3>2, TimesFacts
    <3>4. r0 * One < r0 + paid
      <4>1. (r0 * One) \div sum = 0
        BY <3>3
      <4>2. r0 * One < sum * ((r0 * One) \div sum) + sum
        BY <1>2, <3>1, DivBounds
      <4>3. sum * 0 = 0
        BY <1>2
      <4>4. sum = r0 + paid
        BY <1>3
      <4> HIDE DEF sum, fits
      <4>5. r0 * One < sum * 0 + sum
        BY <4>1, <4>2
      <4> QED
        BY <1>1, <1>2, <3>1, <4>3, <4>4, <4>5
    <3>5. r0 * 2 <= r0 * One
      BY <1>1, Scaled
    <3> QED
      BY <1>1, <3>1, <3>4, <3>5
  <2> HIDE DEF ratio
  <2>5. power \in Nat /\ (ratio # 0 => power >= One)
    BY <2>2, <2>3, FpPowFacts
  <2> HIDE DEF power
  <2>6. share \in Nat /\ share <= One /\ (ratio # 0 => share = 0)
    BY <1>1, <2>5 DEF SaturatingMinus
  <2> HIDE DEF share
  <2>7. n \in Words /\ n \in Nat /\ n <= r1 * share
    BY <1>1, <2>6, TimesFacts, WordsAreNatural
  <2> HIDE DEF n, out, r0, r1, fits, sum
  <2>8. out \in Words /\ out \in Nat /\ One * out <= n
    BY <1>1, <2>1, <2>7, WordQuotient, QuotientFacts, WordsAreNatural
  <2>9. out * One <= r1 * share
    <3>1. One * out = out * One /\ out * One \in Nat /\ r1 * share \in Nat
      BY <1>1, <2>6, <2>8, ProductIsNatural, SMT
    <3> QED
      BY <2>7, <2>8, <3>1
  <2>10. out <= r1
    <3>1. r1 * share <= r1 * One /\ r1 * share \in Nat /\ r1 * One \in Nat /\ out * One \in Nat
      BY <1>1, <2>6, <2>8, Scaled, ProductIsNatural
    <3>2. out * One <= r1 * One
      BY <2>9, <3>1
    <3> QED
      BY <1>1, <2>8, <3>2, Cancel
  <2>11. ratio # 0 => out = 0
    <3> SUFFICES ASSUME ratio # 0 PROVE out = 0
      OBVIOUS
    <3>1. r1 * share = 0 * One
      BY <1>1, <2>6
    <3>2. out <= 0
      BY <1>1, <2>8, <2>9, <3>1, Cancel
    <3> QED
      BY <2>8, <3>2
  <2>12. fits /\ r1 <= r0 => out <= paid
    BY <1>1, <2>4, <2>8, <2>10, <2>11
  <2> QED
    BY <2>8, <2>10, <2>12 DEF out, fits, r0, r1
<1> QED
  BY <1>4, <1>5
LEMMA FitsFacts ==
  ASSUME NEW s \in PoolStates, NEW a \in Nat, Fits(s, a), NEW b \in Nat, b <= a
  PROVE  Fits(s, b) /\ \A scale \in {1, One} : scale * (s.reserve0 + b) < Word
<1> DEFINE r == s.reserve0
           x == r + a
           y == r + b
<1>1. r \in Nat /\ Mille \in Nat \ {0} /\ One \in Nat \ {0} /\ Word \in Nat
  <2>1. r \in Words
    BY DEF PoolStates
  <2>2. Mille \in Nat \ {0} /\ One \in Nat \ {0} /\ Word \in Nat
    BY QuoteAssumption
  <2> QED
    BY <2>1, <2>2, WordsAreNatural
<1>2. Mille * x < Word /\ One * x < Word
  BY DEF Fits
<1>3. x \in Nat /\ y \in Nat /\ y <= x
  BY <1>1
<1> HIDE DEF x, y
<1>4. /\ Mille * y <= Mille * x /\ One * y <= One * x /\ 1 * y <= Mille * y
      /\ Mille * y \in Nat /\ One * y \in Nat /\ Mille * x \in Nat /\ One * x \in Nat
  BY <1>1, <1>3, Scaled, ProductIsNatural
<1>5. Mille * y < Word /\ One * y < Word /\ 1 * y < Word
  BY <1>1, <1>2, <1>3, <1>4
<1> QED
  BY <1>5 DEF Fits, y

LEMMA WeightedFacts ==
  ASSUME NEW s \in PoolStates, NEW a \in Words, NEW fee \in Nat,
         WeightedQuote(s, a, fee) # NoQuote
  PROVE  LET q == WeightedQuote(s, a, fee)
         IN  /\ q.out \in Words
             /\ Fits(s, a) => /\ q.out <= s.reserve1 /\ q.out1 <= s.reserve1
                              /\ s.reserve1 <= s.reserve0 => q.out <= a
<1> DEFINE paid == AfterFee(a, fee)
           out == WeightedOut(s, paid)
           r0 == s.reserve0
           r1 == s.reserve1
<1>1. r0 \in Nat /\ r1 \in Words /\ r1 \in Nat /\ a \in Nat
  BY WordsAreNatural DEF PoolStates
<1>2. paid \in Words /\ paid \in Nat /\ paid <= a
  BY <1>1, AfterFeeFacts, WordsAreNatural
<1>3. s.weight1 # 0 /\ Plus(r0, paid) # 0
  BY DEF WeightedQuote
<1>4. WeightedQuote(s, a, fee) = [out |-> out, in1 |-> Plus(r0, paid), out1 |-> SaturatingMinus(r1, out)]
  BY DEF WeightedQuote
<1> HIDE DEF paid
<1>5. /\ out \in Words
      /\ (\A scale \in {1, One} : scale * (r0 + paid) < Word) =>
           out <= r1 /\ (r1 <= r0 => out <= paid)
  BY <1>2, <1>3, WeightedOutFacts
<1>6. Fits(s, a) => \A scale \in {1, One} : scale * (r0 + paid) < Word
  BY <1>1, <1>2, FitsFacts
<1> HIDE DEF out, r0, r1
<1>7. out \in Nat /\ SaturatingMinus(r1, out) <= r1
  BY <1>1, <1>5, WordsAreNatural, SaturatingFacts
<1>8. Fits(s, a) => out <= r1 /\ (r1 <= r0 => out <= a)
  BY <1>1, <1>2, <1>5, <1>6, <1>7
<1> QED
  BY <1>4, <1>5, <1>7, <1>8 DEF r0, r1

-----------------------------------------------------------------------------
(* Concentrated liquidity, and any hop.                                    *)

LEMMA V3Facts ==
  ASSUME NEW s \in PoolStates, NEW a \in Words, NEW fee \in Nat, V3Quote(s, a, fee) # NoQuote
  PROVE  V3Quote(s, a, fee).out \in Words
<1> DEFINE dx == AfterFee(a, fee)
           l == s.liquidity
           p == s.sqrtPrice
           sqrt == SqrtPlusDx(p, l, dx)
           out == Amount1Delta(l, p, sqrt)
<1>1. l \in Nat /\ p \in Words /\ p \in Nat /\ Q96 \in Nat \ {0}
  BY WordsAreNatural, QuoteAssumption DEF PoolStates
<1>2. dx \in Nat
  BY AfterFeeFacts, WordsAreNatural
<1>3. sqrt # NoAmount /\ out # NoAmount /\ V3Quote(s, a, fee).out = out
  BY DEF V3Quote
<1> HIDE DEF dx, l, p
<1>4. sqrt \in Words
  <2> DEFINE denom == Minus(Times(l, Q96), Times(dx, p))
             n == Times(l, p)
  <2>1. Times(l, Q96) \in Words /\ Times(dx, p) \in Words /\ n \in Words
    BY <1>1, <1>2, TimesFacts
  <2>2. denom \in Nat
    BY <2>1, MinusFacts, WordsAreNatural
  <2>3. denom # 0 /\ sqrt = n \div denom
    BY <1>3 DEF SqrtPlusDx
  <2> HIDE DEF denom, n
  <2> QED
    BY <2>1, <2>2, <2>3, WordQuotient
<1> HIDE DEF sqrt
<1>5. out \in Words
  <2> DEFINE denom == Times(p, sqrt) \div Q96
             n == Times(l, Minus(sqrt, p))
  <2>1. sqrt \in Nat /\ Minus(sqrt, p) \in Nat
    BY <1>1, <1>4, MinusFacts, WordsAreNatural
  <2>2. Times(p, sqrt) \in Words /\ n \in Words
    BY <1>1, <2>1, TimesFacts
  <2>3. denom \in Nat
    BY <1>1, <2>2, WordQuotient, WordsAreNatural
  <2>4. denom # 0 /\ out = n \div denom
    BY <1>3 DEF Amount1Delta
  <2> HIDE DEF denom, n
  <2> QED
    BY <2>2, <2>3, <2>4, WordQuotient
<1> QED
  BY <1>3, <1>5

LEMMA InBandFacts ==
  ASSUME NEW s \in PoolStates, NEW x \in Nat, NEW y \in Nat, y <= x, InBand(s, x)
  PROVE  InBand(s, y)
<1> DEFINE l == s.liquidity
           p == s.sqrtPrice
           scaled == l * Q96
<1>1. l \in Nat /\ p \in Nat /\ scaled \in Nat
  <2>1. l \in Nat /\ p \in Nat /\ Q96 \in Nat
    BY WordsAreNatural, QuoteAssumption DEF PoolStates
  <2> HIDE DEF l, p
  <2> QED
    BY <2>1
<1>2. scaled < Word /\ (l + x) * p < scaled
  BY DEF InBand
<1> HIDE DEF l, p, scaled
<1>3. (l + y) * p <= (l + x) * p
  <2>1. (x - y) * p \in Nat
    BY <1>1
  <2>2. (l + x) * p = (l + y) * p + (x - y) * p
    BY <1>1
  <2>3. (l + y) * p \in Nat
    BY <1>1
  <2> QED
    BY <2>1, <2>2, <2>3
<1>4. (l + x) * p \in Nat /\ (l + y) * p \in Nat
  BY <1>1
<1>5. (l + y) * p < scaled
  BY <1>1, <1>2, <1>3, <1>4
<1> QED
  BY <1>2, <1>5 DEF InBand, l, p, scaled

(* In its band a concentrated pool has no quote: the new square root, one  *)
(* factor Q96 short, is rounded down to zero (v3.rs:96-107).               *)
LEMMA InBandNoQuote ==
  ASSUME NEW s \in PoolStates, NEW a \in Words, NEW fee \in Nat, InBand(s, a)
  PROVE  V3Quote(s, a, fee) = NoQuote
<1> DEFINE dx == AfterFee(a, fee)
           l == s.liquidity
           p == s.sqrtPrice
           scaled == l * Q96
<1>1. l \in Nat /\ p \in Nat /\ scaled \in Nat /\ Word \in Nat \ {0}
  <2>1. l \in Nat /\ p \in Nat /\ Q96 \in Nat /\ Word \in Nat \ {0}
    BY WordsAreNatural, QuoteAssumption DEF PoolStates
  <2> HIDE DEF l, p
  <2> QED
    BY <2>1
<1>2. dx \in Nat /\ dx <= a /\ a \in Nat
  BY AfterFeeFacts, WordsAreNatural
<1>3. InBand(s, dx)
  BY <1>2, InBandFacts
<1>4. scaled < Word /\ (l + dx) * p < scaled
  BY <1>3 DEF InBand
<1> HIDE DEF dx, l, p
<1>5. l * p \in Nat /\ dx * p \in Nat /\ l * p + dx * p < scaled
  <2>1. l * p \in Nat /\ dx * p \in Nat
    BY <1>1, <1>2
  <2>2. (l + dx) * p = l * p + dx * p
    BY <1>1, <1>2
  <2> QED
    BY <1>4, <2>1, <2>2
<1> DEFINE lp == l * p
           dp == dx * p
<1>6. lp \in Nat /\ dp \in Nat /\ lp + dp < scaled
  BY <1>5
<1>7. Times(l, Q96) = scaled /\ Times(dx, p) = dp /\ Times(l, p) = lp
  <2>1. scaled % Word = scaled
    BY <1>1, <1>4
  <2>2. dp % Word = dp /\ lp % Word = lp
    <3> HIDE DEF lp, dp, scaled
    <3> QED
      BY <1>1, <1>4, <1>6
  <2> QED
    BY <2>1, <2>2 DEF Times
<1>8. SqrtPlusDx(p, l, dx) \in {0, NoAmount}
  <2> HIDE DEF lp, dp, scaled
  <2>1. Minus(scaled, dp) = scaled - dp
    BY <1>1, <1>4, <1>6 DEF Minus
  <2>2. scaled - dp \in Nat /\ scaled - dp > lp
    BY <1>1, <1>6
  <2>3. lp \div (scaled - dp) = 0
    BY <1>6, <2>2
  <2> QED
    BY <1>7, <2>1, <2>3 DEF SqrtPlusDx
<1>9. Amount1Delta(l, p, 0) = NoAmount
  BY DEF Amount1Delta
<1> QED
  BY <1>8, <1>9 DEF V3Quote, dx, l, p

(* What a hop gives: a word, and outside concentrated liquidity no more    *)
(* than its pool holds of the token it pays, and than was put in where the *)
(* pool holds no more of that token than of the other.                     *)
LEMMA HopFacts ==
  ASSUME NEW kind \in Kinds, NEW fee \in Nat, NEW s \in PoolStates, NEW a \in Words,
         ~QuotePanics(kind, s, a), QuoteHop(kind, fee, s, a) # NoQuote
  PROVE  LET q == QuoteHop(kind, fee, s, a)
         IN  /\ q.out \in Words
             /\ kind # "v3" /\ Fits(s, a) =>
                  /\ a <= s.reserve0 /\ a <= s.reserve1 => q.out <= s.reserve1 /\ q.out1 <= s.reserve1
                  /\ s.reserve1 <= s.reserve0 => q.out <= a
<1>1. CASE kind = "v2"
  <2>1. QuoteHop(kind, fee, s, a) = V2Quote(s, a, fee)
    BY <1>1 DEF QuoteHop
  <2>2. V2Quote(s, a, fee).out \in Words
    BY <2>1, V2QuoteFacts
  <2>3. Fits(s, a) => LET q == V2Quote(s, a, fee)
                      IN  /\ a <= s.reserve0 => q.out <= s.reserve1 /\ q.out1 <= s.reserve1
                          /\ s.reserve1 <= s.reserve0 => q.out <= a
    BY <2>1, V2Bounds
  <2> QED
    BY <2>1, <2>2, <2>3
<1>2. CASE kind = "v3"
  <2>1. QuoteHop(kind, fee, s, a) = V3Quote(s, a, fee)
    BY <1>2 DEF QuoteHop
  <2> QED
    BY <1>2, <2>1, V3Facts
<1>3. CASE kind = "stable"
  <2>1. QuoteHop(kind, fee, s, a) = StableQuote(s, a, fee)
    BY <1>3 DEF QuoteHop
  <2> QED
    BY <1>3, <2>1, StableFacts
<1>4. CASE kind = "weighted"
  <2>1. QuoteHop(kind, fee, s, a) = WeightedQuote(s, a, fee)
    BY <1>4 DEF QuoteHop
  <2> QED
    BY <1>4, <2>1, WeightedFacts
<1> QED
  BY <1>1, <1>2, <1>3, <1>4 DEF Kinds

-----------------------------------------------------------------------------
(* A plan's simulation.                                                    *)

(* The condition of NoProfitFromBalance.                                   *)
Balanced ==
  \A i \in DOMAIN plan.route :
    LET p == plan.route[i].pool
    IN  p \in DOMAIN market =>
          IF plan.route[i].kind = "v3" THEN InBand(market[p], plan.capital)
          ELSE market[p].reserve1 <= market[p].reserve0 /\ Fits(market[p], plan.capital)

(* Between hops the amount is a word, in a balanced route never more than  *)
(* the capital; a result is what the last amount leaves of the capital.    *)
SimInv ==
  /\ plan \in Plans /\ market \in Markets
  /\ at \in 1..(Len(plan.route) + 1) /\ amount \in Words /\ failed \in BOOLEAN
  /\ Balanced => amount <= plan.capital
  /\ result # NoResult => result.netProfit = IF failed THEN 0 ELSE NetProfit(plan, amount)

LEMMA InitSim == Init => SimInv
<1> SUFFICES ASSUME Init PROVE SimInv
  OBVIOUS
<1>1. plan \in Plans /\ market \in Markets /\ at = 1 /\ amount = plan.capital /\ failed = FALSE
      /\ result = NoResult
  BY DEF Init
<1>2. plan.capital \in Words /\ Len(plan.route) \in Nat
  BY <1>1, SimulatorAssumption
<1>3. at \in 1..(Len(plan.route) + 1)
  BY <1>1, <1>2
<1>4. plan.capital \in Nat
  BY <1>2, WordsAreNatural
<1>5. amount <= plan.capital
  BY <1>1, <1>4
<1> QED
  BY <1>1, <1>2, <1>3, <1>5 DEF SimInv

(* The hop quoted next, on the state of its pool.                          *)
LEMMA QuotingFacts ==
  ASSUME SimInv, Quoting
  PROVE  /\ at \in DOMAIN plan.route /\ Hop.kind \in Kinds /\ Hop.fee \in Nat
         /\ Known => market[Hop.pool] \in PoolStates
<1>1. plan \in Plans /\ market \in Markets /\ at \in 1..(Len(plan.route) + 1) /\ at <= Len(plan.route)
  BY DEF SimInv, Quoting
<1>2. Len(plan.route) \in Nat /\ DOMAIN plan.route = 1..Len(plan.route)
  BY <1>1, SimulatorAssumption
<1>3. at \in DOMAIN plan.route
  BY <1>1, <1>2
<1>4. plan.route[at].kind \in Kinds /\ plan.route[at].fee \in Nat
  BY <1>1, <1>3, SimulatorAssumption
<1>5. Known => market[Hop.pool] \in PoolStates
  BY <1>1, SimulatorAssumption DEF Known
<1> QED
  BY <1>3, <1>4, <1>5 DEF Hop

LEMMA NextSim == SimInv /\ [Next]_vars => SimInv'
<1> SUFFICES ASSUME SimInv, [Next]_vars PROVE SimInv'
  OBVIOUS
<1> USE DEF SimInv
<1>1. CASE QuoteNext
  <2>1. /\ result = NoResult /\ Quoting /\ ~Panics
        /\ plan' = plan /\ market' = market /\ result' = result
    BY <1>1 DEF QuoteNext
  <2>2. Balanced' = Balanced
    BY <2>1 DEF Balanced
  <2>3. CASE Quote = NoQuote
    <3>1. failed' = TRUE /\ at' = at /\ amount' = amount
      BY <1>1, <2>3 DEF QuoteNext
    <3> QED
      BY <2>1, <2>2, <3>1
  <2>4. CASE Quote # NoQuote
    <3> DEFINE s == market[Hop.pool]
    <3>1. amount' = Quote.out /\ at' = at + 1 /\ failed' = failed
      BY <1>1, <2>4 DEF QuoteNext
    <3>2. Known /\ Quote = QuoteHop(Hop.kind, Hop.fee, s, amount)
      BY <2>4 DEF Quote
    <3>3. at \in DOMAIN plan.route /\ Hop.kind \in Kinds /\ Hop.fee \in Nat /\ s \in PoolStates
      BY <2>1, <3>2, QuotingFacts
    <3>4. ~QuotePanics(Hop.kind, s, amount)
      BY <2>1, <3>2 DEF Panics
    <3> HIDE DEF s
    <3>5. /\ Quote.out \in Words
          /\ Hop.kind # "v3" /\ Fits(s, amount) =>
               (s.reserve1 <= s.reserve0 => Quote.out <= amount)
      BY <2>4, <3>2, <3>3, <3>4, HopFacts
    <3>6. at' \in 1..(Len(plan'.route) + 1)
      <4>1. Len(plan.route) \in Nat /\ at <= Len(plan.route) /\ at \in 1..(Len(plan.route) + 1)
        BY <2>1, SimulatorAssumption DEF Quoting
      <4> QED
        BY <2>1, <3>1, <4>1
    <3>7. Balanced => Quote.out <= plan.capital
      <4> SUFFICES ASSUME Balanced PROVE Quote.out <= plan.capital
        OBVIOUS
      <4>2. plan.capital \in Nat /\ amount \in Nat /\ amount <= plan.capital
        BY SimulatorAssumption, WordsAreNatural
      <4>5. IF Hop.kind = "v3" THEN InBand(s, plan.capital)
            ELSE s.reserve1 <= s.reserve0 /\ Fits(s, plan.capital)
        BY <3>2, <3>3 DEF Balanced, Hop, Known, s
      <4>6. Hop.kind # "v3"
        <5> SUFFICES ASSUME Hop.kind = "v3" PROVE FALSE
          OBVIOUS
        <5>1. InBand(s, amount)
          BY <3>3, <4>2, <4>5, InBandFacts
        <5>3. V3Quote(s, amount, Hop.fee) = NoQuote
          BY <3>3, <5>1, InBandNoQuote
        <5> QED
          BY <2>4, <3>2, <5>3 DEF QuoteHop
      <4>1. Hop.kind # "v3" /\ s.reserve1 <= s.reserve0 /\ Fits(s, plan.capital)
        BY <4>5, <4>6
      <4>3. Fits(s, amount)
        BY <3>3, <4>1, <4>2, FitsFacts
      <4>4. Quote.out <= amount /\ Quote.out \in Nat
        BY <3>5, <4>1, <4>3, WordsAreNatural
      <4> QED
        BY <4>2, <4>4
    <3> QED
      BY <2>1, <2>2, <3>1, <3>5, <3>6, <3>7
  <2> QED
    BY <2>3, <2>4
<1>2. CASE Finish
  <2>1. /\ plan' = plan /\ market' = market /\ at' = at /\ amount' = amount /\ failed' = failed
        /\ result'.netProfit = IF failed THEN 0 ELSE NetProfit(plan, amount)
    BY <1>2 DEF Finish
  <2>2. Balanced' = Balanced
    BY <2>1 DEF Balanced
  <2> QED
    BY <2>1, <2>2
<1>3. CASE UNCHANGED vars
  <2>1. /\ plan' = plan /\ market' = market /\ at' = at /\ amount' = amount /\ failed' = failed
        /\ result' = result
    BY <1>3 DEF vars
  <2>2. Balanced' = Balanced
    BY <2>1 DEF Balanced
  <2> QED
    BY <2>1, <2>2
<1> QED
  BY <1>1, <1>2, <1>3 DEF Next

LEMMA SimAlways == Spec => []SimInv
  BY InitSim, NextSim, PTL DEF Spec

(* A trade no larger than either balance of its pool is never quoted more  *)
(* than the pool holds, whatever the pool's kind, the fee, and wherever    *)
(* the StableSwap solver or the series of the weighted pool ends up        *)
(* (v2.rs:37, curve.rs:63, balancer.rs:67).                                *)
THEOREM QuotesWithinReserve == Spec => []QuoteWithinReserve
<1>1. SimInv => QuoteWithinReserve
  <2> SUFFICES ASSUME SimInv, Holding(Kinds \ {"v3"}), Fits(State, amount),
                      amount <= State.reserve0, amount <= State.reserve1, Quote # NoQuote
               PROVE  Quote.out <= State.reserve1 /\ Quote.out1 <= State.reserve1
    BY DEF QuoteWithinReserve
  <2>1. Quoting /\ Known /\ Hop.kind # "v3" /\ ~Panics
    BY DEF Holding
  <2>2. Hop.kind \in Kinds /\ Hop.fee \in Nat /\ State \in PoolStates /\ amount \in Words
    BY <2>1, QuotingFacts DEF State, SimInv
  <2>3. ~QuotePanics(Hop.kind, State, amount) /\ Quote = QuoteHop(Hop.kind, Hop.fee, State, amount)
    BY <2>1 DEF Panics, State, Quote
  <2> QED
    BY <2>1, <2>2, <2>3, HopFacts
<1> QED
  BY <1>1, SimAlways, PTL

(* Constant product keeps the product of the reserves for every trade up   *)
(* to the size at which the fee in the denominator still covers the input  *)
(* (v2.rs:29, v2.rs:35).                                                   *)
THEOREM SmallTradesNeverLowerK == Spec => []SmallTradesKeepK
<1>1. SimInv => SmallTradesKeepK
  <2> SUFFICES ASSUME SimInv, Holding({"v2"}), Fits(State, amount), Quote # NoQuote,
                      (Mille - 2 * FeePerMille(Hop.fee)) * amount
                        <= FeePerMille(Hop.fee) * State.reserve0
               PROVE  Quote.in1 * Quote.out1 >= State.reserve0 * State.reserve1
    BY DEF SmallTradesKeepK
  <2>1. Quoting /\ Known /\ Hop.kind = "v2"
    BY DEF Holding
  <2>2. Hop.fee \in Nat /\ State \in PoolStates /\ amount \in Words
    BY <2>1, QuotingFacts DEF State, SimInv
  <2>3. Quote = V2Quote(State, amount, Hop.fee)
    BY <2>1 DEF Quote, QuoteHop, State
  <2> QED
    BY <2>2, <2>3, V2Bounds
<1> QED
  BY <1>1, SimAlways, PTL

(* get_amount_in asks for enough: at a fee of up to a half, what it names  *)
(* buys the output that was wanted, although the two formulas are not      *)
(* each other's inverse (v2.rs:49-62 against v2.rs:17-46).                 *)
THEOREM AskedInputsSuffice == Spec => []InputSuffices
<1>1. SimInv => InputSuffices
  <2> SUFFICES ASSUME SimInv, Holding({"v2"}), 2 * FeePerMille(Hop.fee) <= Mille,
                      AmountIn(State.reserve0, State.reserve1, amount, Hop.fee) # NoAmount,
                      Mille * (State.reserve0 + AmountIn(State.reserve0, State.reserve1, amount, Hop.fee))
                        * State.reserve1 < Word
               PROVE  V2Quote(State, AmountIn(State.reserve0, State.reserve1, amount, Hop.fee),
                              Hop.fee).out >= amount
    BY DEF InputSuffices
  <2>1. Quoting /\ Known
    BY DEF Holding
  <2>2. Hop.fee \in Nat /\ State \in PoolStates /\ amount \in Words
    BY <2>1, QuotingFacts DEF State, SimInv
  <2> QED
    BY <2>2, AskedInputSuffices
<1> QED
  BY <1>1, SimAlways, PTL

LEMMA PremiumIsNatural ==
  ASSUME NEW source, NEW principal \in Words
  PROVE  Premium(source, principal) \in Nat
<1>1. principal \in Nat /\ 10000 \in Nat \ {0}
  BY WordsAreNatural
<1>2. ASSUME NEW n \in Nat PROVE Times(principal, n) \div 10000 \in Nat
  <2> DEFINE x == Times(principal, n)
             d == 10000
  <2>1. x \in Words
    BY <1>1, TimesFacts
  <2>2. d \in Nat \ {0}
    BY <1>1
  <2> HIDE DEF x, d
  <2>3. x \div d \in Nat
    BY <2>1, <2>2, WordQuotient, WordsAreNatural
  <2> QED
    BY <2>3 DEF x, d
<1>3. Times(principal, 9) \div 10000 \in Nat /\ Times(principal, 30) \div 10000 \in Nat
  BY <1>2
<1> QED
  BY <1>3 DEF Premium

(* No route of any length through pools that hold no more of what they pay *)
(* than of what they take, or that are concentrated and have the trade in  *)
(* their band, ends with a profit, at every fee (simulator.rs:158).        *)
THEOREM BalancedRoutesNeverProfit == Spec => []NoProfitFromBalance
<1>1. SimInv => NoProfitFromBalance
  <2> SUFFICES ASSUME SimInv, result # NoResult, Balanced,
                      plan.capital + Premium(plan.source, plan.capital) < Word
               PROVE  result.netProfit = 0
    BY DEF NoProfitFromBalance, Balanced
  <2> DEFINE capital == plan.capital
             premium == Premium(plan.source, capital)
  <2>1. capital \in Words /\ capital \in Nat /\ amount \in Nat /\ amount <= capital
    BY SimulatorAssumption, WordsAreNatural DEF SimInv
  <2>2. premium \in Nat
    BY <2>1, PremiumIsNatural
  <2>3. result.netProfit = IF failed THEN 0 ELSE SaturatingMinus(amount, Plus(capital, premium))
    BY DEF SimInv, NetProfit
  <2>4. capital + premium < Word
    OBVIOUS
  <2> HIDE DEF capital, premium
  <2>5. Plus(capital, premium) = capital + premium
    BY <2>1, <2>2, <2>4, PlusFacts
  <2>6. SaturatingMinus(amount, capital + premium) = 0
    BY <2>1, <2>2 DEF SaturatingMinus
  <2> QED
    BY <2>3, <2>5, <2>6
<1> QED
  BY <1>1, SimAlways, PTL
=============================================================================
