----------------------------- MODULE FiniteFacts -----------------------------
(***************************************************************************)
(* What the proofs need of numbers and finite sets: induction and          *)
(* recursion over the naturals, stated with sets in place of predicates so *)
(* that the provers can use them, and sums of finite families.             *)
(***************************************************************************)
EXTENDS Integers, FiniteSets, Functions, FiniteSetTheorems, NaturalsInduction, WellFoundedInduction, TLAPS

\* Integer division by a positive divisor, as the provers need it.
LEMMA DivBounds ==
  ASSUME NEW x \in Int, NEW d \in Nat \ {0}
  PROVE  /\ x \div d \in Int
         /\ d * (x \div d) <= x
         /\ x < d * (x \div d) + d
  BY SMT

\* Every non-empty set of naturals has a least element.
LEMMA LeastNatural ==
  ASSUME NEW T \in SUBSET Nat, T # {}
  PROVE  \E x \in T : \A y \in T : x <= y
<1>1. IsWellFoundedOn(OpToRel(<, Nat), Nat)
  BY NatLessThanWellFounded
<1>2. PICK x \in T : \A y \in T : ~ (<<y, x>> \in OpToRel(<, Nat))
  BY <1>1, WFMin
<1>3. \A y \in T : ~ (y < x)
  BY <1>2 DEF OpToRel
<1>4. x \in Nat
  OBVIOUS
<1> HIDE <1>2
<1> QED
  BY <1>3, <1>4

\* A set with 0 and the successor of each of its naturals has all naturals.
LEMMA SetInduction ==
  ASSUME NEW S, 0 \in S, \A n \in Nat : n \in S => n + 1 \in S
  PROVE  Nat \subseteq S
<1>1. SUFFICES ASSUME Nat \ S # {} PROVE FALSE
  OBVIOUS
<1>2. PICK m \in Nat \ S : \A y \in Nat \ S : m <= y
  BY <1>1, LeastNatural
<1>3. m # 0 /\ m - 1 \in Nat
  OBVIOUS
<1>4. m - 1 \in S
  BY <1>2, <1>3
<1>5. (m - 1) + 1 \in S
  BY <1>3, <1>4
<1>6. (m - 1) + 1 = m
  OBVIOUS
<1> QED
  BY <1>5, <1>6

\* The function on 0..n with the value first at 0 and step giving each next value
\* from its index and the value before.
IsIteration(b, first, step, n) ==
  b = [k \in 0..n |-> IF k = 0 THEN first ELSE step[<<k, b[k - 1]>>]]

LEMMA IterationExists ==
  ASSUME NEW V, NEW first \in V, NEW step \in [Nat \X V -> V], NEW n \in Nat
  PROVE  \E b \in [0..n -> V] : IsIteration(b, first, step, n)
<1> DEFINE Good(m, b) == b = [k \in 0..m |-> IF k = 0 THEN first ELSE step[<<k, b[k - 1]>>]]
           S == {m \in Nat : \E b \in [0..m -> V] : Good(m, b)}
<1>1. 0 \in S
  <2>1. [k \in 0..0 |-> first] \in [0..0 -> V]
    OBVIOUS
  <2>2. Good(0, [k \in 0..0 |-> first])
    OBVIOUS
  <2> QED
    BY <2>1, <2>2
<1>2. ASSUME NEW m \in Nat, m \in S PROVE m + 1 \in S
  <2>1. PICK b \in [0..m -> V] : Good(m, b)
    BY <1>2
  <2> DEFINE c == [k \in 0..(m + 1) |-> IF k <= m THEN b[k] ELSE step[<<m + 1, b[m]>>]]
  <2>2. c \in [0..(m + 1) -> V]
    <3>1. b[m] \in V /\ step[<<m + 1, b[m]>>] \in V
      OBVIOUS
    <3> QED
      BY <3>1
  <2>3. ASSUME NEW k \in 0..(m + 1)
        PROVE  c[k] = IF k = 0 THEN first ELSE step[<<k, c[k - 1]>>]
    <3>1. CASE k = 0
      BY <2>1, <3>1
    <3>2. CASE k # 0 /\ k <= m
      <4>1. k - 1 \in 0..m /\ c[k - 1] = b[k - 1] /\ c[k] = b[k]
        BY <3>2
      <4> QED
        BY <2>1, <3>2, <4>1
    <3>3. CASE k = m + 1
      <4>1. k # 0 /\ k - 1 = m /\ ~(k <= m)
        BY <3>3
      <4>2. c[m] = b[m]
        OBVIOUS
      <4>3. c[k] = step[<<k, c[k - 1]>>]
        <5>1. c[k] = step[<<m + 1, b[m]>>]
          BY <4>1
        <5> HIDE DEF c
        <5> QED
          BY <3>3, <4>1, <4>2, <5>1
      <4> HIDE DEF c
      <4> QED
        BY <4>1, <4>3
    <3> QED
      BY <3>1, <3>2, <3>3
  <2>4. Good(m + 1, c)
    BY <2>2, <2>3
  <2> HIDE DEF c, Good
  <2> QED
    BY <2>2, <2>4
<1>3. n \in S
  <2> HIDE DEF S
  <2>1. \A m \in Nat : m \in S => m + 1 \in S
    BY <1>2
  <2> QED
    BY <1>1, <2>1, SetInduction
<1> QED
  BY <1>3 DEF IsIteration

-----------------------------------------------------------------------------
(* Sums over finite families of naturals, as SumFunction gives them: one   *)
(* function has the sum over every subset, each from the subset without    *)
(* one of its members.                                                     *)

Member(s) == CHOOSE x \in s : TRUE

IsPartialSums(g, f, S) ==
  g = [s \in SUBSET S |-> IF s = {} THEN 0 ELSE f[Member(s)] + g[s \ {Member(s)}]]

PartialSums(f) == CHOOSE g : IsPartialSums(g, f, DOMAIN f)

LEMMA MemberFacts ==
  ASSUME NEW S, IsFiniteSet(S), NEW s \in SUBSET S, s # {}
  PROVE  /\ Member(s) \in s /\ s \ {Member(s)} \in SUBSET S
         /\ IsFiniteSet(s) /\ Cardinality(s) \in Nat \ {0}
         /\ Cardinality(s \ {Member(s)}) = Cardinality(s) - 1
<1>1. Member(s) \in s
  BY DEF Member
<1>2. IsFiniteSet(s)
  BY FS_Subset
<1>3. Cardinality(s) \in Nat /\ Cardinality(s \ {Member(s)}) = Cardinality(s) - 1
      /\ Cardinality(s \ {Member(s)}) \in Nat
  <2>1. Cardinality(s \ {Member(s)}) = Cardinality(s) - 1 /\ IsFiniteSet(s \ {Member(s)})
    BY <1>1, <1>2, FS_RemoveElement
  <2> QED
    BY <1>2, <2>1, FS_CardinalityType
<1> QED
  BY <1>1, <1>2, <1>3

\* A set of subsets that has the empty one, and each that it has without its member, has
\* them all.
LEMMA SubsetInduction ==
  ASSUME NEW S, IsFiniteSet(S), NEW P, {} \in P,
         \A s \in SUBSET S : s # {} /\ s \ {Member(s)} \in P => s \in P
  PROVE  SUBSET S \subseteq P
<1> DEFINE N == {n \in Nat : \A s \in SUBSET S : Cardinality(s) = n => s \in P}
<1>1. 0 \in N
  <2>1. \A s \in SUBSET S : Cardinality(s) = 0 => s = {}
    BY MemberFacts
  <2> QED
    BY <2>1
<1>2. ASSUME NEW n \in Nat, n \in N PROVE n + 1 \in N
  <2> SUFFICES ASSUME NEW s \in SUBSET S, Cardinality(s) = n + 1 PROVE s \in P
    OBVIOUS
  <2>1. s # {}
    BY FS_EmptySet
  <2>2. s \ {Member(s)} \in SUBSET S /\ Cardinality(s \ {Member(s)}) = n
    BY <2>1, MemberFacts
  <2> QED
    BY <1>2, <2>1, <2>2
<1>3. Nat \subseteq N
  <2> HIDE DEF N
  <2> QED
    BY <1>1, <1>2, SetInduction
<1>4. \A s \in SUBSET S : Cardinality(s) \in Nat
  BY FS_Subset, FS_CardinalityType
<1> QED
  BY <1>3, <1>4

\* The function exists: after n iterations from the zero function, the sums over the
\* subsets of fewer than n members no longer change.
LEMMA PartialSumsExist ==
  ASSUME NEW S, IsFiniteSet(S), NEW f \in [S -> Nat]
  PROVE  \E g \in [SUBSET S -> Nat] : IsPartialSums(g, f, S)
<1> DEFINE V == [SUBSET S -> Nat]
           Next(g) == [s \in SUBSET S |-> IF s = {} THEN 0 ELSE f[Member(s)] + g[s \ {Member(s)}]]
           step == [kg \in Nat \X V |-> Next(kg[2])]
           zero == [s \in SUBSET S |-> 0]
           n == Cardinality(S) + 1
<1>1. n \in Nat
  BY FS_CardinalityType
<1>2. ASSUME NEW g \in V PROVE Next(g) \in V
  <2>1. \A s \in SUBSET S : s # {} => /\ f[Member(s)] \in Nat /\ g[s \ {Member(s)}] \in Nat
                                      /\ f[Member(s)] + g[s \ {Member(s)}] \in Nat
    <3>1. \A s \in SUBSET S : s # {} => Member(s) \in S /\ s \ {Member(s)} \in SUBSET S
      BY MemberFacts
    <3> QED
      BY <3>1
  <2> QED
    BY <2>1
<1>3. zero \in V /\ step \in [Nat \X V -> V]
  <2> HIDE DEF V, Next
  <2>1. step \in [Nat \X V -> V]
    BY <1>2
  <2> QED
    BY <2>1 DEF V
<1> HIDE DEF n
<1>4. PICK b \in [0..n -> V] : IsIteration(b, zero, step, n)
  <2> HIDE DEF V, step, zero
  <2> QED
    BY <1>1, <1>3, IterationExists
<1>5. ASSUME NEW k \in 0..n, k # 0 PROVE b[k] = Next(b[k - 1])
  <2>1. k \in Nat /\ k - 1 \in 0..n /\ b[k - 1] \in V
    <3> HIDE DEF V, step, zero
    <3> QED
      BY <1>1, <1>5
  <2>2. b[k] = step[<<k, b[k - 1]>>]
    <3> HIDE DEF step, zero, V
    <3> QED
      BY <1>4, <1>5 DEF IsIteration
  <2> HIDE DEF V, Next
  <2> QED
    BY <2>1, <2>2
<1> DEFINE K == {k \in Nat : k + 1 <= n =>
                   \A s \in SUBSET S : Cardinality(s) <= k => b[k + 1][s] = b[k][s]}
<1>6. 0 \in K
  <2> SUFFICES ASSUME 1 <= n, NEW s \in SUBSET S, Cardinality(s) <= 0 PROVE b[1][s] = b[0][s]
    OBVIOUS
  <2>1. s = {}
    <3>1. s # {} => Cardinality(s) \in Nat \ {0}
      BY MemberFacts, Zenon
    <3> QED
      BY <3>1
  <2>2. b[0] = zero
    <3> HIDE DEF step, zero
    <3> QED
      BY <1>1, <1>4 DEF IsIteration
  <2>3. 1 \in 0..n /\ 1 - 1 = 0
    BY <1>1
  <2>4. b[1] = Next(b[0])
    <3> HIDE DEF Next
    <3> QED
      BY <1>5, <2>3
  <2> QED
    BY <2>1, <2>2, <2>4
<1>7. ASSUME NEW k \in Nat, k \in K PROVE k + 1 \in K
  <2> SUFFICES ASSUME (k + 1) + 1 <= n, NEW s \in SUBSET S, Cardinality(s) <= k + 1
               PROVE  b[(k + 1) + 1][s] = b[k + 1][s]
    OBVIOUS
  <2>1. /\ k + 1 \in 0..n /\ (k + 1) + 1 \in 0..n /\ k + 1 # 0 /\ (k + 1) + 1 # 0
        /\ (k + 1) - 1 = k /\ ((k + 1) + 1) - 1 = k + 1 /\ k + 1 <= n
    BY <1>1
  <2>2. b[k + 1] = Next(b[k]) /\ b[(k + 1) + 1] = Next(b[k + 1])
    <3> HIDE DEF Next, K
    <3> QED
      BY <1>5, <2>1
  <2>3. CASE s = {}
    BY <2>2, <2>3
  <2>4. CASE s # {}
    <3>1. s \ {Member(s)} \in SUBSET S /\ Cardinality(s \ {Member(s)}) <= k
      BY <2>4, MemberFacts
    <3>2. b[k + 1][s \ {Member(s)}] = b[k][s \ {Member(s)}]
      BY <1>7, <2>1, <3>1
    <3> QED
      BY <2>2, <2>4, <3>2
  <2> QED
    BY <2>3, <2>4
<1>8. Nat \subseteq K
  <2> HIDE DEF K
  <2> QED
    BY <1>6, <1>7, SetInduction
<1> DEFINE c == Cardinality(S)
<1>9. c \in Nat /\ c + 1 = n /\ c \in 0..n /\ n \in 0..n /\ n - 1 = c /\ n # 0
  <2>1. Cardinality(S) \in Nat
    BY FS_CardinalityType
  <2> QED
    BY <2>1 DEF n
<1>10. \A s \in SUBSET S : b[n][s] = b[c][s]
  <2>1. \A s \in SUBSET S : Cardinality(s) <= c
    BY FS_Subset
  <2> HIDE DEF c
  <2> QED
    BY <1>8, <1>9, <2>1
<1>11. b[n] = Next(b[c])
  <2> HIDE DEF Next, c
  <2> QED
    BY <1>5, <1>9
<1>12. b[n] \in V /\ b[c] \in V
  BY <1>9
<1>13. b[n] = b[c]
  BY <1>10, <1>12
<1> QED
  BY <1>11, <1>12, <1>13 DEF IsPartialSums

LEMMA PartialSumsFacts ==
  ASSUME NEW S, IsFiniteSet(S), NEW f \in [S -> Nat]
  PROVE  /\ PartialSums(f) \in [SUBSET S -> Nat]
         /\ PartialSums(f)[{}] = 0
         /\ \A s \in SUBSET S :
              s # {} => PartialSums(f)[s] = f[Member(s)] + PartialSums(f)[s \ {Member(s)}]
         /\ SumFunction(f) = PartialSums(f)[S]
<1> DEFINE g == PartialSums(f)
<1>1. DOMAIN f = S
  OBVIOUS
<1>2. IsPartialSums(g, f, S)
  <2>1. \E h : IsPartialSums(h, f, S)
    BY PartialSumsExist
  <2>2. \E h : IsPartialSums(h, f, DOMAIN f)
    BY <1>1, <2>1
  <2>3. IsPartialSums(g, f, DOMAIN f)
    BY <2>2, Zenon DEF PartialSums
  <2> HIDE DEF g
  <2> QED
    BY <1>1, <2>3
<1>3. SumFunction(f) = g[S]
  BY <1>1 DEF SumFunction, SumFunctionOnSet, FoldFunctionOnSet, MapThenFoldSet, PartialSums,
              IsPartialSums, Member
<1> HIDE DEF g
<1>4. /\ DOMAIN g = SUBSET S /\ g = [s \in SUBSET S |-> g[s]]
      /\ \A s \in SUBSET S : g[s] = IF s = {} THEN 0 ELSE f[Member(s)] + g[s \ {Member(s)}]
  BY <1>2, Zenon DEF IsPartialSums
<1>5. \A s \in SUBSET S : g[s] \in Nat
  <2> DEFINE P == {s \in SUBSET S : g[s] \in Nat}
  <2>1. {} \in P
    <3>1. {} \in SUBSET S /\ g[{}] = 0
      BY <1>4
    <3> QED
      BY <3>1
  <2>2. ASSUME NEW s \in SUBSET S, s # {}, s \ {Member(s)} \in P PROVE s \in P
    <3>1. f[Member(s)] \in Nat /\ g[s \ {Member(s)}] \in Nat
      BY <2>2, MemberFacts
    <3>2. g[s] = f[Member(s)] + g[s \ {Member(s)}]
      BY <1>4, <2>2
    <3> QED
      BY <3>1, <3>2
  <2> HIDE DEF P
  <2>3. SUBSET S \subseteq P
    BY <2>1, <2>2, SubsetInduction
  <2> QED
    BY <2>3 DEF P
<1>6. g \in [SUBSET S -> Nat]
  BY <1>4, <1>5
<1> QED
  BY <1>3, <1>4, <1>6 DEF g

\* What the proofs below use of it.
LEMMA SumHasParts ==
  ASSUME NEW S, IsFiniteSet(S)
  PROVE  \A f \in [S -> Nat] : \E g \in [SUBSET S -> Nat] :
           /\ g[{}] = 0
           /\ \A s \in SUBSET S : s # {} => g[s] = f[Member(s)] + g[s \ {Member(s)}]
           /\ SumFunction(f) = g[S]
<1> TAKE f \in [S -> Nat]
<1> QED
  BY PartialSumsFacts, Zenon

LEMMA SumIsNatural ==
  ASSUME NEW S, IsFiniteSet(S), NEW f \in [S -> Nat]
  PROVE  SumFunction(f) \in Nat
<1>1. PartialSums(f) \in [SUBSET S -> Nat] /\ SumFunction(f) = PartialSums(f)[S]
  BY PartialSumsFacts, Zenon
<1>2. \A g \in [SUBSET S -> Nat] : g[S] \in Nat
  OBVIOUS
<1> QED
  BY <1>1, <1>2, Zenon

\* The sums of two families that differ in one member differ as it does.
LEMMA SumsDiffer ==
  ASSUME NEW S, IsFiniteSet(S), NEW f \in [S -> Nat], NEW h \in [S -> Nat], NEW x \in S,
         \A y \in S : y # x => h[y] = f[y]
  PROVE  SumFunction(h) = SumFunction(f) - f[x] + h[x]
<1>1. PICK F \in [SUBSET S -> Nat] :
               /\ F[{}] = 0
               /\ \A s \in SUBSET S : s # {} => F[s] = f[Member(s)] + F[s \ {Member(s)}]
               /\ SumFunction(f) = F[S]
  BY SumHasParts, Zenon
<1>2. PICK H \in [SUBSET S -> Nat] :
               /\ H[{}] = 0
               /\ \A s \in SUBSET S : s # {} => H[s] = h[Member(s)] + H[s \ {Member(s)}]
               /\ SumFunction(h) = H[S]
  BY SumHasParts, Zenon
<1> DEFINE P == {s \in SUBSET S : H[s] = F[s] + (IF x \in s THEN h[x] - f[x] ELSE 0)}
<1>3. {} \in P
  BY <1>1, <1>2
<1>4. ASSUME NEW s \in SUBSET S, s # {}, s \ {Member(s)} \in P PROVE s \in P
  <2> DEFINE r == s \ {Member(s)}
  <2>1. Member(s) \in s /\ Member(s) \in S /\ r \in SUBSET S
    BY <1>4, MemberFacts
  <2>2. F[s] = f[Member(s)] + F[r] /\ H[s] = h[Member(s)] + H[r]
    BY <1>1, <1>2, <1>4
  <2>3. H[r] = F[r] + (IF x \in r THEN h[x] - f[x] ELSE 0)
    BY <1>4
  <2>4. f[Member(s)] \in Nat /\ h[Member(s)] \in Nat /\ F[r] \in Nat /\ f[x] \in Nat /\ h[x] \in Nat
    BY <1>1, <2>1
  <2>5. CASE x = Member(s)
    <3>1. x \notin r /\ x \in s
      BY <2>1, <2>5
    <3> HIDE DEF r
    <3>2. H[s] = F[s] + (h[x] - f[x])
      BY <2>2, <2>3, <2>4, <2>5, <3>1
    <3> QED
      BY <3>1, <3>2
  <2>6. CASE x # Member(s)
    <3>1. (x \in r <=> x \in s) /\ h[Member(s)] = f[Member(s)]
      BY <2>1, <2>6
    <3> HIDE DEF r
    <3>2. H[s] = F[s] + (IF x \in s THEN h[x] - f[x] ELSE 0)
      BY <2>2, <2>3, <2>4, <3>1
    <3> QED
      BY <3>2
  <2> QED
    BY <2>5, <2>6
<1>5. S \in P
  <2> HIDE DEF P
  <2> QED
    BY <1>3, <1>4, SubsetInduction
<1>6. f[x] \in Nat /\ h[x] \in Nat /\ F[S] \in Nat
  BY <1>1
<1> QED
  BY <1>1, <1>2, <1>5, <1>6

\* A sum that is at most another, weighted member by member, is so as a whole.
LEMMA SumsCompare ==
  ASSUME NEW S, IsFiniteSet(S), NEW f \in [S -> Nat], NEW h \in [S -> Nat],
         NEW d \in Nat, NEW a \in Nat, \A x \in S : h[x] * d <= f[x] * a
  PROVE  SumFunction(h) * d <= SumFunction(f) * a
<1>1. PICK F \in [SUBSET S -> Nat] :
               /\ F[{}] = 0
               /\ \A s \in SUBSET S : s # {} => F[s] = f[Member(s)] + F[s \ {Member(s)}]
               /\ SumFunction(f) = F[S]
  BY SumHasParts, Zenon
<1>2. PICK H \in [SUBSET S -> Nat] :
               /\ H[{}] = 0
               /\ \A s \in SUBSET S : s # {} => H[s] = h[Member(s)] + H[s \ {Member(s)}]
               /\ SumFunction(h) = H[S]
  BY SumHasParts, Zenon
<1> DEFINE P == {s \in SUBSET S : H[s] * d <= F[s] * a}
<1>3. {} \in P
  <2>1. 0 * d <= 0 * a
    OBVIOUS
  <2> QED
    BY <1>1, <1>2, <2>1
<1>4. ASSUME NEW s \in SUBSET S, s # {}, s \ {Member(s)} \in P PROVE s \in P
  <2> DEFINE r == s \ {Member(s)}
  <2>1. Member(s) \in S /\ r \in SUBSET S
    BY <1>4, MemberFacts
  <2>2. F[s] = f[Member(s)] + F[r] /\ H[s] = h[Member(s)] + H[r]
    BY <1>1, <1>2, <1>4
  <2>3. H[r] * d <= F[r] * a /\ h[Member(s)] * d <= f[Member(s)] * a
    BY <1>4, <2>1
  <2>4. f[Member(s)] \in Nat /\ h[Member(s)] \in Nat /\ F[r] \in Nat /\ H[r] \in Nat
    BY <1>1, <1>2, <2>1
  <2>5. \A u, v, w, z \in Nat : u * d <= v * a /\ w * d <= z * a => (u + w) * d <= (v + z) * a
    OBVIOUS
  <2>6. (h[Member(s)] + H[r]) * d <= (f[Member(s)] + F[r]) * a
    <3> HIDE DEF P, r
    <3> QED
      BY <2>3, <2>4, <2>5
  <2> QED
    BY <2>2, <2>6
<1>5. S \in P
  <2> HIDE DEF P
  <2> QED
    BY <1>3, <1>4, SubsetInduction
<1> QED
  BY <1>1, <1>2, <1>5

-----------------------------------------------------------------------------
IsSum(total, f, S) == IsFiniteSet(S) /\ total = SumFunction(f)

(* The sum of zeros is zero. *)
LEMMA SumOfZeros ==
  ASSUME NEW S, IsFiniteSet(S)
  PROVE  IsSum(0, [x \in S |-> 0], S)
<1> DEFINE f == [x \in S |-> 0]
<1>1. f \in [S -> Nat] /\ \A x \in S : f[x] * 1 <= f[x] * 0
  OBVIOUS
<1> HIDE DEF f
<1>2. SumFunction(f) \in Nat
  BY <1>1, SumIsNatural, Zenon
<1>3. SumFunction(f) * 1 <= SumFunction(f) * 0
  <2>1. 1 \in Nat /\ 0 \in Nat
    OBVIOUS
  <2> QED
    BY <1>1, <2>1, SumsCompare, Zenon
<1>4. SumFunction(f) = 0
  BY <1>2, <1>3
<1> QED
  BY <1>4, Zenon DEF IsSum, f

(* No member exceeds the sum. *)
LEMMA MemberAtMostSum ==
  ASSUME NEW S, NEW f \in [S -> Nat], NEW total, IsSum(total, f, S), NEW x \in S
  PROVE  total \in Nat /\ f[x] <= total
<1> DEFINE h == [f EXCEPT ![x] = 0]
<1>1. h \in [S -> Nat] /\ h[x] = 0 /\ \A y \in S : y # x => h[y] = f[y]
  OBVIOUS
<1> HIDE DEF h
<1>2. IsFiniteSet(S) /\ total = SumFunction(f)
  BY DEF IsSum
<1>3. SumFunction(h) = SumFunction(f) - f[x] + h[x]
  BY <1>1, <1>2, SumsDiffer, ZenonT(40)
<1>4. SumFunction(h) \in Nat /\ SumFunction(f) \in Nat
  BY <1>1, <1>2, SumIsNatural, Zenon
<1> QED
  BY <1>1, <1>2, <1>3, <1>4

(* Changing one member changes the sum by the difference. *)
LEMMA SumUpdate ==
  ASSUME NEW S, NEW f \in [S -> Nat], NEW total, IsSum(total, f, S),
         NEW x \in S, NEW v \in Nat
  PROVE  /\ total - f[x] + v \in Nat
         /\ IsSum(total - f[x] + v, [f EXCEPT ![x] = v], S)
<1> DEFINE h == [f EXCEPT ![x] = v]
<1>1. h \in [S -> Nat] /\ h[x] = v /\ \A y \in S : y # x => h[y] = f[y]
  OBVIOUS
<1> HIDE DEF h
<1>2. IsFiniteSet(S) /\ total = SumFunction(f)
  BY DEF IsSum
<1>3. SumFunction(h) = SumFunction(f) - f[x] + h[x]
  BY <1>1, <1>2, SumsDiffer, ZenonT(40)
<1>4. SumFunction(h) \in Nat
  BY <1>1, <1>2, SumIsNatural, Zenon
<1> QED
  BY <1>1, <1>2, <1>3, <1>4 DEF IsSum, h

(* Moving an amount from one member to another keeps the sum.              *)
LEMMA SumOfTransfer ==
  ASSUME NEW S, NEW f \in [S -> Nat], NEW total, IsSum(total, f, S),
         NEW from \in S, NEW to \in S, from # to, NEW n \in Nat, n <= f[from]
  PROVE  IsSum(total, [[f EXCEPT ![from] = @ - n] EXCEPT ![to] = @ + n], S)
<1> DEFINE v == f[from] - n
           c == [f EXCEPT ![from] = v]
           t == total - f[from] + v
           w == f[to] + n
<1>1. f[from] \in Nat /\ f[to] \in Nat /\ total \in Nat
  BY MemberAtMostSum
<1>2. v \in Nat /\ w \in Nat
  BY <1>1, SMT
<1>3. c \in [S -> Nat] /\ c[to] = f[to]
  BY <1>2
<1>4. IsSum(t, c, S)
  BY <1>2, SumUpdate
<1>5. t - c[to] + w = total
  BY <1>1, <1>2, <1>3, SMT
<1>6. [[f EXCEPT ![from] = @ - n] EXCEPT ![to] = @ + n] = [c EXCEPT ![to] = w]
  BY <1>3
<1> HIDE DEF c, t, w
<1>7. IsSum(t - c[to] + w, [c EXCEPT ![to] = w], S)
  BY <1>2, <1>3, <1>4, SumUpdate
<1> QED
  BY <1>5, <1>6, <1>7
=============================================================================
