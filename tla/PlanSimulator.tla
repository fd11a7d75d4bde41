---------------------------- MODULE PlanSimulator ----------------------------
(***************************************************************************)
(* MathSimulator.simulate (crates/backtest-engine/src/simulator.rs): a     *)
(* plan's hops are quoted one after the other, the output of one the input *)
(* of the next.  The state of a pool is looked up by its address alone:    *)
(* two hops through one pool are quoted on the same reserves, in the same  *)
(* direction, and no quote changes them.                                   *)
(***************************************************************************)
EXTENDS PoolQuotes, Sequences

CONSTANTS
  Plans,     \* the plans simulated: [route, source, capital], a hop being [pool, kind, fee]
  Markets    \* what the lookup of states answers: from some of the pools to their states

Sources == {"aave", "balancer", "uniswapV2", "uniswapV3", "vault"}
GasPerHop == 65000

\* Amounts are words.  A fee above the whole makes v3.rs panic (v3.rs:33).
ASSUME SimulatorAssumption ==
  /\ \A p \in Plans : /\ p.source \in Sources /\ p.capital \in Words
                      /\ Len(p.route) \in Nat /\ DOMAIN p.route = 1..Len(p.route)
                      /\ \A i \in DOMAIN p.route :
                           /\ p.route[i].kind \in Kinds /\ p.route[i].fee \in Nat
                           /\ p.route[i].kind = "v3" => p.route[i].fee <= Bps
  /\ \A m \in Markets : \A q \in DOMAIN m : m[q] \in PoolStates

VARIABLES plan, market, at, amount, gas, failed, result

vars == <<plan, market, at, amount, gas, failed, result>>

NoResult == [success |-> FALSE, netProfit |-> -1, gasUsed |-> 0]

Init ==
  /\ plan \in Plans /\ market \in Markets
  /\ at = 1 /\ amount = plan.capital /\ gas = 0 /\ failed = FALSE
  /\ result = NoResult

Hop == plan.route[at]
Quoting == ~failed /\ at <= Len(plan.route)
Known == Hop.pool \in DOMAIN market
Panics == Known /\ QuotePanics(Hop.kind, market[Hop.pool], amount)
Quote == IF Known THEN QuoteHop(Hop.kind, Hop.fee, market[Hop.pool], amount) ELSE NoQuote

QuoteNext ==
  /\ result = NoResult /\ Quoting /\ ~Panics
  /\ IF Quote = NoQuote
     THEN failed' = TRUE /\ UNCHANGED <<at, amount, gas>>
     ELSE /\ amount' = Quote.out /\ gas' = gas + GasPerHop /\ at' = at + 1
          /\ UNCHANGED failed
  /\ UNCHANGED <<plan, market, result>>

\* The cost of borrowing the capital.  Aave's is rounded up, and is one too much when there
\* is nothing to round.
Premium(source, principal) ==
  CASE source = "aave" -> (Times(principal, 9) \div 10000) + 1
    [] source = "uniswapV2" -> Times(principal, 30) \div 10000
    [] OTHER -> 0

NetProfit(p, out) ==
  SaturatingMinus(out, Plus(p.capital, Premium(p.source, p.capital)))

Finish ==
  /\ result = NoResult /\ ~Quoting
  /\ result' = [success |-> ~failed, gasUsed |-> gas,
                netProfit |-> IF failed THEN 0 ELSE NetProfit(plan, amount)]
  /\ UNCHANGED <<plan, market, at, amount, gas, failed>>

Next == QuoteNext \/ Finish

Spec == Init /\ [][Next]_vars

-----------------------------------------------------------------------------
(* Properties.  The quote of a state is the one its next step makes.       *)

Holding(kinds) == Quoting /\ Known /\ Hop.kind \in kinds /\ ~Panics
State == market[Hop.pool]

\* No sum of the two at a scale of a quote wraps, as for amounts of 112 bits.
Fits(s, x) == \A scale \in {Mille, One} : scale * (s.reserve0 + x) < Word

\* A trade no larger than either balance is never quoted more than the pool holds, so that
\* the balance after it does not wrap (v2.rs:37, curve.rs:63, balancer.rs:67).
QuoteWithinReserve ==
  Holding(Kinds \ {"v3"}) /\ Fits(State, amount) /\ amount <= State.reserve0
  /\ amount <= State.reserve1 /\ Quote # NoQuote
    => Quote.out <= State.reserve1 /\ Quote.out1 <= State.reserve1

\* "invariant k is preserved (approx)" (v2.rs:35): the product of the reserves does not
\* fall, for trades up to the size at which the formula of v2.rs:29 still pays less than
\* constant product without a fee.
SmallTradesKeepK ==
  Holding({"v2"}) /\ Fits(State, amount) /\ Quote # NoQuote
  /\ (Mille - 2 * FeePerMille(Hop.fee)) * amount <= FeePerMille(Hop.fee) * State.reserve0
    => Quote.in1 * Quote.out1 >= State.reserve0 * State.reserve1

\* The input that get_amount_in asks for an output buys at least that output, at a fee of up
\* to a half (v2.rs:49-62 against v2.rs:17-46).
InputSuffices ==
  Holding({"v2"}) /\ 2 * FeePerMille(Hop.fee) <= Mille =>
    LET in == AmountIn(State.reserve0, State.reserve1, amount, Hop.fee)
    IN  in # NoAmount /\ Mille * (State.reserve0 + in) * State.reserve1 < Word
          => V2Quote(State, in, Hop.fee).out >= amount

\* The trade is small against the price and liquidity of a concentrated pool: nothing wraps
\* while its square root moves.
InBand(s, x) ==
  s.liquidity * Q96 < Word /\ (s.liquidity + x) * s.sqrtPrice < s.liquidity * Q96

\* "Equal pools -> round trip loses to fees -> net_profit 0" (simulator.rs:158): no route
\* through pools that hold no more of what they pay than of what they take shows a profit,
\* wherever a solver or a series ends up.  A concentrated pool shows none while the trade is
\* in its band; beyond, the difference of the square roots wraps (v3.rs:126).
NoProfitFromBalance ==
  result # NoResult /\ plan.capital + Premium(plan.source, plan.capital) < Word
  /\ (\A i \in DOMAIN plan.route :
        LET p == plan.route[i].pool
        IN  p \in DOMAIN market =>
              IF plan.route[i].kind = "v3" THEN InBand(market[p], plan.capital)
              ELSE market[p].reserve1 <= market[p].reserve0 /\ Fits(market[p], plan.capital))
    => result.netProfit = 0
=============================================================================
