--------------------------- MODULE MCPlanSimulator ---------------------------
(* One pool of each kind with every small balance, followed by a second hop  *)
(* through the same pool or through another; amounts up to the balances and  *)
(* beyond, also beyond what fits; a pool whose state is missing.  Fees are   *)
(* tenths and hundredths.                                                    *)
EXTENDS PlanSimulator
CONSTANTS pool, other
Reserves == 0..8
Blank == [reserve0 |-> 0, reserve1 |-> 0, sqrtPrice |-> 0, liquidity |-> 0, amp |-> 0,
          weight0 |-> 0, weight1 |-> 0]
Balances(a, b) == [Blank EXCEPT !.reserve0 = a, !.reserve1 = b, !.amp = 3,
                                !.weight0 = 2, !.weight1 = 2]
FirstStates ==
  {Balances(a, b) : a, b \in Reserves}
  \cup {[Balances(a, b) EXCEPT !.amp = 0, !.weight1 = w] : a, b \in Reserves, w \in {0, 1, 4}}
  \cup {[Blank EXCEPT !.sqrtPrice = 45, !.liquidity = l] : l \in {0, 20}}
MCMarkets ==
  {[p \in {pool, other} |-> IF p = pool THEN s ELSE Balances(5, 5)] : s \in FirstStates}
  \cup {[p \in {pool} |-> Balances(5, 5)]}
Firsts(fees) == {[pool |-> pool, kind |-> k, fee |-> f] : k \in Kinds, f \in fees}
Seconds == {[pool |-> p, kind |-> k, fee |-> 10] : p \in {pool, other}, k \in {"v2", "stable"}}
MCPlans ==
  {[route |-> <<h>>, source |-> "aave", capital |-> c] : h \in Firsts({0, 10, 15}), c \in 0..10}
  \cup {[route |-> <<h, g>>, source |-> "vault", capital |-> c] :
          h \in Firsts({0, 15}), g \in Seconds, c \in {1, 2, 3, 5, 8, 10}}
  \cup {[route |-> <<h>>, source |-> "uniswapV2", capital |-> c] :
          h \in Firsts({0, 60}), c \in {1, 4, 226, 5455}}
=============================================================================
