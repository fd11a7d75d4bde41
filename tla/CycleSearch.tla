----------------------------- MODULE CycleSearch -----------------------------
(***************************************************************************)
(* The token graph of crates/strategy-core/src/graph.rs and its search for *)
(* profitable cycles: a Bellman-Ford that relaxes edges in place, in the   *)
(* order of insertion, for at most MaxHops rounds.  Weights are the        *)
(* negated logarithms of the pools' rates, here integers; an unreached     *)
(* token (distance infinity) is outside the domain of dist.                *)
(***************************************************************************)
EXTENDS Integers, Sequences, FiniteSets

CONSTANTS
  Tokens, Start,
  Pools,           \* records [address, token0, token1]
  Rates,           \* the pairs of weights a pool may be inserted with
  MaxHops, MinLogProfit, MaxResults,   \* the arguments of find_cycles
  MaxInsertions    \* bound on how often one pool is inserted

Edges == [from : Tokens, to : Tokens, pool : Pools, weight : Int]

ASSUME SearchAssumption ==
  /\ IsFiniteSet(Tokens) /\ Start \in Tokens
  /\ \A p \in Pools : p.token0 \in Tokens /\ p.token1 \in Tokens \ {p.token0}
  /\ Rates \subseteq Int \X Int
  /\ MaxHops \in Nat /\ MinLogProfit \in Nat /\ MaxResults \in Nat /\ MaxInsertions \in Nat

VARIABLES
  nodes, adj,      \* TokenGraph
  phase,           \* "build", "relax", "close" or "done"
  dist, prev,      \* what the relaxation knows: distances and last edges
  round, ni, ei,   \* the loop counters
  changed, cycles  \* the round's flag and the result

graphVars == <<nodes, adj>>
vars == <<graphVars, phase, dist, prev, round, ni, ei, changed, cycles>>

-----------------------------------------------------------------------------
(* Building the graph.                                                     *)

Init ==
  /\ nodes = <<>> /\ adj = [t \in Tokens |-> <<>>]
  /\ phase = "build" /\ dist = [t \in {Start} |-> 0] /\ prev = [t \in {} |-> {}]
  /\ round = 1 /\ ni = 1 /\ ei = 1 /\ changed = FALSE /\ cycles = {}

EnsureNode(seq, token) ==
  IF \E i \in DOMAIN seq : seq[i] = token THEN seq ELSE Append(seq, token)

Inserted(p) == Cardinality({i \in DOMAIN adj[p.token0] : adj[p.token0][i].pool = p})

AddPool(p, w01, w10) ==
  /\ phase = "build"
  /\ Inserted(p) < MaxInsertions   \* bound
  /\ nodes' = EnsureNode(EnsureNode(nodes, p.token0), p.token1)
  /\ adj' = [adj EXCEPT
       ![p.token0] = Append(@, [from |-> p.token0, to |-> p.token1, pool |-> p, weight |-> w01]),
       ![p.token1] = Append(@, [from |-> p.token1, to |-> p.token0, pool |-> p, weight |-> w10])]
  /\ UNCHANGED <<phase, dist, prev, round, ni, ei, changed, cycles>>

-----------------------------------------------------------------------------
(* find_cycles: the relaxation.  One step takes one edge e of the double   *)
(* loop over the nodes and their edges.                                    *)

Reached == DOMAIN dist

FindCycles ==
  /\ phase = "build"
  /\ phase' = IF MaxHops = 0 \/ nodes = <<>> THEN "close" ELSE "relax"
  /\ UNCHANGED <<graphVars, dist, prev, round, ni, ei, changed, cycles>>

Current == adj[nodes[ni]][ei]

Improves(e) ==
  /\ e.from \in Reached
  /\ e.to \in Reached => dist[e.from] + e.weight < dist[e.to]

Updated(f, key, value) == [k \in DOMAIN f \cup {key} |-> IF k = key THEN value ELSE f[k]]

\* Mutant: the predecessor is recorded although the distance does not improve.
RelaxAnyway(e) ==
  /\ dist' = IF Improves(e) THEN Updated(dist, e.to, dist[e.from] + e.weight) ELSE dist
  /\ prev' = IF e.from \in Reached THEN Updated(prev, e.to, e) ELSE prev
  /\ changed' = (changed \/ Improves(e))

Relax(e) ==
  IF Improves(e)
  THEN /\ dist' = Updated(dist, e.to, dist[e.from] + e.weight)
       /\ prev' = Updated(prev, e.to, e)
       /\ changed' = TRUE
  ELSE UNCHANGED <<dist, prev, changed>>

\* Mutant: the inner loop goes on where it was for the next node.
RelaxEdgeKeepsIndex ==
  /\ phase = "relax" /\ ni <= Len(nodes)
  /\ Relax(Current)
  /\ IF ei < Len(adj[nodes[ni]])
     THEN ei' = ei + 1 /\ ni' = ni
     ELSE ei' = ei /\ ni' = ni + 1
  /\ UNCHANGED <<graphVars, phase, round, cycles>>

RelaxEdge ==
  /\ phase = "relax" /\ ni <= Len(nodes)
  /\ Relax(Current)
  /\ IF ei < Len(adj[nodes[ni]])
     THEN ei' = ei + 1 /\ ni' = ni
     ELSE ei' = 1 /\ ni' = ni + 1
  /\ UNCHANGED <<graphVars, phase, round, cycles>>

EndRound ==
  /\ phase = "relax" /\ ni > Len(nodes)
  /\ IF changed /\ round < MaxHops
     THEN phase' = "relax" /\ round' = round + 1
     ELSE phase' = "close" /\ round' = round
  /\ ni' = 1 /\ ei' = 1 /\ changed' = FALSE
  /\ UNCHANGED <<graphVars, dist, prev, cycles>>

-----------------------------------------------------------------------------
(* find_cycles: the closing edges, and reconstruct.                        *)

GuardLimit == 16

\* The tokens met walking back from a token along prev; Start ends the walk.
Back(token) ==
  LET b[k \in 0..GuardLimit] ==
        IF k = 0 THEN token
        ELSE IF b[k - 1] = Start THEN Start ELSE prev[b[k - 1]].from
  IN  b

BackLengths(token) == {k \in 0..GuardLimit : Back(token)[k] = Start}
Reconstructs(token) == BackLengths(token) # {}
BackLength(token) == CHOOSE k \in BackLengths(token) : \A l \in BackLengths(token) : k <= l

\* A hop as Route keeps it, with the weight of the edge it came from.
Hop(e, tokenIn) ==
  [pool |-> e.pool, tokenIn |-> tokenIn, weight |-> e.weight,
   tokenOut |-> IF e.pool.token0 = tokenIn THEN e.pool.token1 ELSE e.pool.token0]

\* Mutant: the edges are not turned around with the nodes.
ReconstructUnreversed(token, closing) ==
  LET k == BackLength(token)
  IN  Append([i \in 1..k |-> Hop(prev[Back(token)[i - 1]], Back(token)[k - i + 1])],
             Hop(closing, token))

Reconstruct(token, closing) ==
  LET k == BackLength(token)
  IN  Append([i \in 1..k |-> Hop(prev[Back(token)[k - i]], Back(token)[k - i + 1])],
             Hop(closing, token))

IsCyclic(route) == route # <<>> /\ route[1].tokenIn = route[Len(route)].tokenOut

IsSimpleCycle(route) ==
  /\ IsCyclic(route)
  /\ \A i \in 1..(Len(route) - 1) :
       /\ route[i].tokenOut # route[1].tokenIn
       /\ \A j \in 1..(i - 1) : route[i].tokenOut # route[j].tokenOut

ClosingEdges(token) == {e \in {adj[token][i] : i \in DOMAIN adj[token]} : e.to = Start}

\* Mutant: the threshold itself passes.
BelowOrAt(total) == total <= -MinLogProfit
Below(total) == total < -MinLogProfit

\* Mutant: the closing edge is free.
TotalUnclosed(token, closing) == dist[token]
Total(token, closing) == dist[token] + closing.weight

Candidates ==
  {[route |-> Reconstruct(te[1], te[2]), logProfit |-> -Total(te[1], te[2])] :
     te \in {te \in UNION {{t} \X ClosingEdges(t) : t \in Reached \ {Start}} :
               /\ Below(Total(te[1], te[2]))
               /\ Reconstructs(te[1])
               /\ IsSimpleCycle(Reconstruct(te[1], te[2]))}}

Signature(cycle) == [i \in DOMAIN cycle.route |-> cycle.route[i].pool.address]

\* The most profitable cycles, one for each signature, at most MaxResults (but at
\* least one: the limit is tested after a cycle is taken).  Equal profits are in the
\* order of a hash map, so any of them may be first.
IsBest(chosen) ==
  /\ \A c, d \in chosen : Signature(c) = Signature(d) => c = d
  /\ \A c \in Candidates \ chosen :
       \/ \E d \in chosen : Signature(d) = Signature(c) /\ d.logProfit >= c.logProfit
       \/ /\ Cardinality(chosen) >= MaxResults
          /\ chosen # {}
          /\ \A d \in chosen : d.logProfit >= c.logProfit
  /\ Cardinality(chosen) <= IF MaxResults = 0 THEN 1 ELSE MaxResults

Close ==
  /\ phase = "close"
  /\ phase' = "done"
  /\ cycles' \in {chosen \in SUBSET Candidates : IsBest(chosen)}
  /\ UNCHANGED <<graphVars, dist, prev, round, ni, ei, changed>>

Next ==
  \/ \E p \in Pools, r \in Rates : AddPool(p, r[1], r[2])
  \/ FindCycles
  \/ RelaxEdge
  \/ EndRound
  \/ Close

Spec == Init /\ [][Next]_vars

-----------------------------------------------------------------------------
(* Properties.                                                             *)

GraphEdges == UNION {{adj[t][i] : i \in DOMAIN adj[t]} : t \in Tokens}

\* Every variable has its type; in the double loop, the counters point at an edge.
TypeOK ==
  /\ nodes \in Seq(Tokens) /\ adj \in [Tokens -> Seq(Edges)]
  /\ phase \in {"build", "relax", "close", "done"}
  /\ Reached \subseteq Tokens /\ dist \in [Reached -> Int]
  /\ prev \in [DOMAIN prev -> Edges]
  /\ round \in Nat /\ ni \in 1..(Len(nodes) + 1) /\ ei \in Nat /\ changed \in BOOLEAN
  /\ \A i \in DOMAIN nodes : adj[nodes[i]] # <<>>
  /\ ni <= Len(nodes) /\ phase = "relax" => ei \in DOMAIN adj[nodes[ni]]

\* The recorded predecessors always form a walkable structure: every token reached
\* other than the start has one, it is an edge of the graph from a reached token
\* into it, and the token's distance is no better than one more step along that edge
\* (graph.rs:89-111, on which reconstruct relies).
PrevConsistent ==
  /\ Start \in Reached
  /\ Reached \ {Start} \subseteq DOMAIN prev /\ DOMAIN prev \subseteq Reached
  /\ \A t \in DOMAIN prev :
       /\ prev[t] \in GraphEdges /\ prev[t].to = t /\ prev[t].from \in Reached
       /\ dist[t] >= dist[prev[t].from] + prev[t].weight

WeightsAlong(route) ==
  LET sum[i \in 0..Len(route)] == IF i = 0 THEN 0 ELSE sum[i - 1] + route[i].weight
  IN  sum

RouteWeight(route) == WeightsAlong(route)[Len(route)]

\* Every cycle that is returned starts and ends at the start token, visits no other
\* token twice, and each of its hops trades along an edge of the graph.  MaxHops does
\* not bound its length (graph.rs:66-67 and :89 say it does): what does is the number
\* of tokens, and the guard of reconstruct with the closing hop.
RoutesAreCycles ==
  \A c \in cycles :
    /\ Len(c.route) <= Cardinality(Tokens) /\ Len(c.route) <= GuardLimit + 1
    /\ c.route[1].tokenIn = Start /\ c.route[Len(c.route)].tokenOut = Start
    /\ \A i \in DOMAIN c.route :
         /\ i > 1 => c.route[i].tokenIn = c.route[i - 1].tokenOut
         /\ \A j \in 1..(i - 1) : c.route[i].tokenIn # c.route[j].tokenIn
         /\ [from |-> c.route[i].tokenIn, to |-> c.route[i].tokenOut,
             pool |-> c.route[i].pool, weight |-> c.route[i].weight] \in GraphEdges

\* The profit of a returned cycle is overstated by no more than the improvement the
\* relaxation found for the start token itself: not at all as long as no round has
\* closed a profitable cycle through it.
OverstatementBounded ==
  \A c \in cycles : c.logProfit + dist[Start] <= -RouteWeight(c.route)

\* A sequence of edges that is a simple cycle.
SimpleCyclesUpTo(n) ==
  {s \in UNION {[1..k -> GraphEdges] : k \in 2..n} :
     /\ s[1].from = s[Len(s)].to
     /\ \A i \in 2..Len(s) : s[i].from = s[i - 1].to
     /\ Cardinality({s[i].from : i \in DOMAIN s}) = Len(s)}

\* A market in which no simple cycle has a profit has no cycle returned
\* (test no_cycle_when_unprofitable), however often edges are relaxed in place.
NothingWithoutProfit ==
  phase = "done" /\ cycles # {} =>
    \E s \in SimpleCyclesUpTo(Cardinality(Tokens)) : RouteWeight(s) < 0
=============================================================================
