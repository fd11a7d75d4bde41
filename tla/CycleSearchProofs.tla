-------------------------- MODULE CycleSearchProofs --------------------------
(***************************************************************************)
(* The search's invariants for every graph, start, hop bound and weights.  *)
(***************************************************************************)
EXTENDS CycleSearch, FiniteFacts

\* The counters and predecessors are untouched while the graph is built.
BuildFresh == phase = "build" => DOMAIN prev = {} /\ ni = 1 /\ ei = 1

\* Every edge is listed under its source and joins its pool's two tokens.
EdgesJoinPools ==
  \A t \in Tokens : \A i \in DOMAIN adj[t] :
    LET e == adj[t][i]
    IN  /\ e.from = t /\ e.from # e.to
        /\ \/ e.from = e.pool.token0 /\ e.to = e.pool.token1
           \/ e.from = e.pool.token1 /\ e.to = e.pool.token0

ResultsAreCandidates == IF phase = "done" THEN cycles \subseteq Candidates ELSE cycles = {}

SearchInv == TypeOK /\ PrevConsistent /\ BuildFresh /\ EdgesJoinPools /\ ResultsAreCandidates

LEMMA SearchInitially == Init => SearchInv
<1> SUFFICES ASSUME Init PROVE SearchInv
  OBVIOUS
<1> USE SearchAssumption DEF Init
<1>1. TypeOK
  <2>1. nodes \in Seq(Tokens) /\ adj \in [Tokens -> Seq(Edges)] /\ DOMAIN nodes = {} /\ Len(nodes) = 0
    OBVIOUS
  <2>2. Reached \subseteq Tokens /\ dist \in [Reached -> Int]
    BY DEF Reached
  <2>3. prev \in [DOMAIN prev -> Edges]
    OBVIOUS
  <2>4. \A i \in DOMAIN nodes : adj[nodes[i]] # <<>>
    BY <2>1
  <2>5. phase = "build" /\ round = 1 /\ ni = 1 /\ ei = 1 /\ changed = FALSE
    OBVIOUS
  <2> HIDE DEF Init
  <2>6. round \in Nat /\ ni \in 1..(Len(nodes) + 1) /\ ei \in Nat
    BY <2>1, <2>5
  <2>7. changed \in BOOLEAN /\ phase \in {"build", "relax", "close", "done"} /\ phase # "relax"
    BY <2>5
  <2> QED
    BY <2>1, <2>2, <2>3, <2>4, <2>6, <2>7 DEF TypeOK
<1>2. PrevConsistent
  BY DEF PrevConsistent, Reached
<1>3. BuildFresh /\ EdgesJoinPools /\ ResultsAreCandidates
  BY DEF BuildFresh, EdgesJoinPools, ResultsAreCandidates
<1> QED
  BY <1>1, <1>2, <1>3 DEF SearchInv

-----------------------------------------------------------------------------
(* Building the graph.                                                     *)

LEMMA EnsureNodeType ==
  ASSUME NEW seq \in Seq(Tokens), NEW token \in Tokens
  PROVE  /\ EnsureNode(seq, token) \in Seq(Tokens)
         /\ \A i \in DOMAIN EnsureNode(seq, token) :
              \/ EnsureNode(seq, token)[i] = token
              \/ \E j \in DOMAIN seq : EnsureNode(seq, token)[i] = seq[j]
         /\ Len(EnsureNode(seq, token)) >= Len(seq)
  BY DEF EnsureNode

LEMMA AppendFacts ==
  ASSUME NEW s \in Seq(Edges), NEW e \in Edges
  PROVE  /\ Append(s, e) \in Seq(Edges) /\ Append(s, e) # <<>>
         /\ \A i \in DOMAIN Append(s, e) :
              (i \in DOMAIN s /\ Append(s, e)[i] = s[i]) \/ Append(s, e)[i] = e
<1>1. Len(Append(s, e)) = Len(s) + 1
  OBVIOUS
<1> QED
  BY <1>1

LEMMA AddPoolStep ==
  ASSUME SearchInv, NEW p \in Pools, NEW r \in Rates, AddPool(p, r[1], r[2])
  PROVE  SearchInv'
<1> USE SearchAssumption
<1> DEFINE e01 == [from |-> p.token0, to |-> p.token1, pool |-> p, weight |-> r[1]]
           e10 == [from |-> p.token1, to |-> p.token0, pool |-> p, weight |-> r[2]]
<1>1. /\ p.token0 \in Tokens /\ p.token1 \in Tokens /\ p.token0 # p.token1
      /\ e01 \in Edges /\ e10 \in Edges
  BY DEF Edges
<1>2. /\ nodes' = EnsureNode(EnsureNode(nodes, p.token0), p.token1)
      /\ adj' = [t \in Tokens |-> IF t = p.token0 THEN Append(adj[t], e01)
                                  ELSE IF t = p.token1 THEN Append(adj[t], e10)
                                  ELSE adj[t]]
      /\ phase = "build"
      /\ UNCHANGED <<phase, dist, prev, round, ni, ei, changed, cycles>>
  BY <1>1 DEF AddPool, SearchInv, TypeOK
<1>3. nodes \in Seq(Tokens) /\ adj \in [Tokens -> Seq(Edges)]
  BY DEF SearchInv, TypeOK
<1> HIDE DEF e01, e10
<1>4. nodes' \in Seq(Tokens) /\ adj' \in [Tokens -> Seq(Edges)]
  <2>1. EnsureNode(nodes, p.token0) \in Seq(Tokens)
    BY <1>1, <1>3, EnsureNodeType
  <2>2. nodes' \in Seq(Tokens)
    BY <1>1, <1>2, <2>1, EnsureNodeType
  <2>3. \A t \in Tokens : /\ Append(adj[t], e01) \in Seq(Edges)
                          /\ Append(adj[t], e10) \in Seq(Edges)
    BY <1>1, <1>3, AppendFacts
  <2> QED
    BY <1>2, <1>3, <2>2, <2>3
<1>5. \A t \in Tokens : \A i \in DOMAIN adj'[t] :
        \/ i \in DOMAIN adj[t] /\ adj'[t][i] = adj[t][i]
        \/ t = p.token0 /\ adj'[t][i] = e01
        \/ t = p.token1 /\ adj'[t][i] = e10
  <2> SUFFICES ASSUME NEW t \in Tokens, NEW i \in DOMAIN adj'[t]
               PROVE  \/ i \in DOMAIN adj[t] /\ adj'[t][i] = adj[t][i]
                      \/ t = p.token0 /\ adj'[t][i] = e01
                      \/ t = p.token1 /\ adj'[t][i] = e10
    OBVIOUS
  <2>1. CASE t = p.token0
    <3>1. adj'[t] = Append(adj[t], e01)
      BY <1>2, <2>1
    <3> QED
      BY <1>1, <1>3, <2>1, <3>1, AppendFacts
  <2>2. CASE t = p.token1
    <3>1. adj'[t] = Append(adj[t], e10)
      BY <1>1, <1>2, <2>2
    <3> QED
      BY <1>1, <1>3, <2>2, <3>1, AppendFacts
  <2>3. CASE t \notin {p.token0, p.token1}
    BY <1>2, <2>3
  <2> QED
    BY <2>1, <2>2, <2>3
<1>6. adj'[p.token0] # <<>> /\ adj'[p.token1] # <<>>
  <2>1. adj'[p.token0] = Append(adj[p.token0], e01) /\ adj'[p.token1] = Append(adj[p.token1], e10)
    BY <1>1, <1>2
  <2> QED
    BY <1>1, <1>3, <2>1, AppendFacts
<1>7. \A t \in Tokens : adj[t] # <<>> => adj'[t] # <<>>
  <2> SUFFICES ASSUME NEW t \in Tokens, adj[t] # <<>> PROVE adj'[t] # <<>>
    OBVIOUS
  <2>1. CASE t \in {p.token0, p.token1}
    BY <1>6, <2>1
  <2>2. CASE t \notin {p.token0, p.token1}
    BY <1>2, <2>2
  <2> QED
    BY <2>1, <2>2
<1>8. \A i \in DOMAIN nodes' : \/ nodes'[i] \in {p.token0, p.token1}
                               \/ \E j \in DOMAIN nodes : nodes'[i] = nodes[j]
  <2>1. EnsureNode(nodes, p.token0) \in Seq(Tokens)
    BY <1>1, <1>3, EnsureNodeType
  <2>2. \A i \in DOMAIN nodes' : \/ nodes'[i] = p.token1
                                 \/ \E j \in DOMAIN EnsureNode(nodes, p.token0) :
                                      nodes'[i] = EnsureNode(nodes, p.token0)[j]
    BY <1>1, <1>2, <2>1, EnsureNodeType
  <2>3. \A j \in DOMAIN EnsureNode(nodes, p.token0) :
          \/ EnsureNode(nodes, p.token0)[j] = p.token0
          \/ \E k \in DOMAIN nodes : EnsureNode(nodes, p.token0)[j] = nodes[k]
    BY <1>1, <1>3, EnsureNodeType
  <2> QED
    BY <2>2, <2>3
<1>9. TypeOK'
  <2>1. \A i \in DOMAIN nodes' : adj'[nodes'[i]] # <<>>
    <3> SUFFICES ASSUME NEW i \in DOMAIN nodes' PROVE adj'[nodes'[i]] # <<>>
      OBVIOUS
    <3>1. CASE nodes'[i] \in {p.token0, p.token1}
      BY <1>6, <3>1
    <3>2. CASE \E j \in DOMAIN nodes : nodes'[i] = nodes[j]
      <4>1. PICK j \in DOMAIN nodes : nodes'[i] = nodes[j]
        BY <3>2
      <4>2. nodes[j] \in Tokens /\ adj[nodes[j]] # <<>>
        BY <1>3 DEF SearchInv, TypeOK
      <4> QED
        BY <1>7, <4>1, <4>2
    <3> QED
      BY <1>8, <3>1, <3>2
  <2>2. ni' \in 1..(Len(nodes') + 1)
    BY <1>2, <1>4 DEF SearchInv, BuildFresh
  <2> QED
    BY <1>2, <1>4, <2>1, <2>2 DEF SearchInv, TypeOK, Reached
<1>10. PrevConsistent'
  BY <1>2 DEF SearchInv, PrevConsistent, BuildFresh, Reached
<1>11. EdgesJoinPools'
  <2>1. /\ e01.from = p.token0 /\ e01.to = p.token1 /\ e01.pool = p
        /\ e10.from = p.token1 /\ e10.to = p.token0 /\ e10.pool = p
    BY DEF e01, e10
  <2> SUFFICES ASSUME NEW t \in Tokens, NEW i \in DOMAIN adj'[t]
               PROVE  LET e == adj'[t][i]
                      IN  /\ e.from = t /\ e.from # e.to
                          /\ \/ e.from = e.pool.token0 /\ e.to = e.pool.token1
                             \/ e.from = e.pool.token1 /\ e.to = e.pool.token0
    BY DEF EdgesJoinPools
  <2>2. CASE i \in DOMAIN adj[t] /\ adj'[t][i] = adj[t][i]
    BY <2>2 DEF SearchInv, EdgesJoinPools
  <2>3. CASE t = p.token0 /\ adj'[t][i] = e01
    BY <1>1, <2>1, <2>3
  <2>4. CASE t = p.token1 /\ adj'[t][i] = e10
    BY <1>1, <2>1, <2>4
  <2> QED
    BY <1>5, <2>2, <2>3, <2>4
<1>12. BuildFresh' /\ ResultsAreCandidates'
  BY <1>2 DEF SearchInv, BuildFresh, ResultsAreCandidates
<1> QED
  BY <1>9, <1>10, <1>11, <1>12 DEF SearchInv

-----------------------------------------------------------------------------
(* The relaxation.                                                         *)

LEMMA RelaxStep ==
  ASSUME SearchInv, NEW e \in GraphEdges, Relax(e), UNCHANGED graphVars
  PROVE  /\ dist' \in [Reached' -> Int] /\ Reached' \subseteq Tokens
         /\ prev' \in [DOMAIN prev' -> Edges] /\ changed' \in BOOLEAN
         /\ PrevConsistent'
<1>1. GraphEdges' = GraphEdges
  BY DEF GraphEdges, graphVars
<1>2. e \in Edges
  BY DEF GraphEdges, SearchInv, TypeOK
<1>3. /\ dist \in [Reached -> Int] /\ Reached \subseteq Tokens
      /\ prev \in [DOMAIN prev -> Edges] /\ changed \in BOOLEAN
  BY DEF SearchInv, TypeOK
<1>4. PrevConsistent
  BY DEF SearchInv
<1>5. CASE ~Improves(e)
  BY <1>1, <1>3, <1>4, <1>5 DEF Relax, PrevConsistent, Reached
<1>6. CASE Improves(e)
  <2>1. /\ dist' = [k \in Reached \cup {e.to} |->
                      IF k = e.to THEN dist[e.from] + e.weight ELSE dist[k]]
        /\ prev' = [k \in DOMAIN prev \cup {e.to} |-> IF k = e.to THEN e ELSE prev[k]]
        /\ changed' = TRUE
    BY <1>6 DEF Relax, Updated, Reached
  <2>2. e.from \in Reached /\ (e.to \in Reached => dist[e.from] + e.weight < dist[e.to])
    BY <1>6 DEF Improves
  <2>3. e.to \in Tokens /\ e.weight \in Int /\ dist[e.from] \in Int
    BY <1>2, <1>3, <2>2 DEF Edges
  <2>4. /\ dist' \in [Reached \cup {e.to} -> Int]
        /\ prev' \in [DOMAIN prev \cup {e.to} -> Edges]
        /\ Reached' = Reached \cup {e.to} /\ DOMAIN prev' = DOMAIN prev \cup {e.to}
    BY <1>2, <1>3, <2>1, <2>3 DEF Reached
  <2>5. \A k \in Reached : dist'[k] <= dist[k]
    <3> SUFFICES ASSUME NEW k \in Reached PROVE dist'[k] <= dist[k]
      OBVIOUS
    <3>1. dist[k] \in Int
      BY <1>3
    <3> QED
      BY <2>1, <2>2, <2>3, <3>1
  <2>6. ASSUME NEW t \in DOMAIN prev'
        PROVE  /\ prev'[t] \in GraphEdges /\ prev'[t].to = t /\ prev'[t].from \in Reached'
               /\ dist'[t] >= dist'[prev'[t].from] + prev'[t].weight
    <3>1. CASE t = e.to
      <4>1. prev'[t] = e /\ dist'[t] = dist[e.from] + e.weight
        BY <2>1, <2>4, <3>1
      <4>2. dist'[e.from] <= dist[e.from] /\ dist'[e.from] \in Int
        BY <2>2, <2>4, <2>5
      <4> QED
        BY <2>2, <2>3, <2>4, <3>1, <4>1, <4>2
    <3>2. CASE t # e.to
      <4>1. t \in DOMAIN prev /\ prev'[t] = prev[t]
        BY <2>1, <2>4, <3>2
      <4>2. /\ prev[t] \in GraphEdges /\ prev[t].to = t /\ prev[t].from \in Reached
            /\ dist[t] >= dist[prev[t].from] + prev[t].weight /\ t \in Reached
        BY <1>4, <4>1 DEF PrevConsistent
      <4>3. dist'[t] = dist[t]
        BY <2>1, <3>2, <4>2
      <4>4. dist'[prev[t].from] <= dist[prev[t].from]
        BY <2>5, <4>2
      <4>5. /\ dist'[prev[t].from] \in Int /\ dist[prev[t].from] \in Int
            /\ prev[t].weight \in Int /\ dist[t] \in Int
        BY <1>3, <2>4, <4>1, <4>2 DEF Edges
      <4> QED
        BY <2>4, <4>1, <4>2, <4>3, <4>4, <4>5
    <3> QED
      BY <3>1, <3>2
  <2>7. PrevConsistent'
    <3>1. Start \in Reached' /\ Reached' \ {Start} \subseteq DOMAIN prev' /\ DOMAIN prev' \subseteq Reached'
      BY <1>4, <2>4 DEF PrevConsistent
    <3> QED
      BY <1>1, <2>6, <3>1 DEF PrevConsistent
  <2> QED
    BY <2>1, <2>3, <2>4, <2>7, <1>3
<1> QED
  BY <1>5, <1>6

LEMMA RelaxEdgeStep == SearchInv /\ RelaxEdge => SearchInv'
<1> SUFFICES ASSUME SearchInv, RelaxEdge PROVE SearchInv'
  OBVIOUS
<1>1. /\ phase = "relax" /\ phase' = phase /\ cycles' = cycles /\ round' = round
      /\ ni <= Len(nodes) /\ Relax(Current) /\ UNCHANGED graphVars
  BY DEF RelaxEdge
<1>2. nodes \in Seq(Tokens) /\ adj \in [Tokens -> Seq(Edges)] /\ ni \in DOMAIN nodes
  BY <1>1 DEF SearchInv, TypeOK
<1>3. nodes[ni] \in Tokens /\ ei \in DOMAIN adj[nodes[ni]]
  BY <1>1, <1>2 DEF SearchInv, TypeOK
<1>4. Current \in GraphEdges
  BY <1>2, <1>3 DEF Current, GraphEdges
<1>5. /\ dist' \in [Reached' -> Int] /\ Reached' \subseteq Tokens
      /\ prev' \in [DOMAIN prev' -> Edges] /\ changed' \in BOOLEAN
      /\ PrevConsistent'
  BY <1>1, <1>4, RelaxStep
<1>6. /\ ni' \in 1..(Len(nodes') + 1) /\ ei' \in Nat
      /\ (ni' <= Len(nodes') => ei' \in DOMAIN adj'[nodes'[ni']])
  <2>1. nodes' = nodes /\ adj' = adj
    BY <1>1 DEF graphVars
  <2>2. CASE ei < Len(adj[nodes[ni]])
    BY <1>2, <1>3, <2>1, <2>2 DEF RelaxEdge
  <2>3. CASE ~(ei < Len(adj[nodes[ni]]))
    <3>1. ei' = 1 /\ ni' = ni + 1
      BY <2>3 DEF RelaxEdge
    <3>2. ASSUME ni + 1 <= Len(nodes) PROVE 1 \in DOMAIN adj[nodes[ni + 1]]
      <4>1. ni + 1 \in DOMAIN nodes
        BY <1>2, <3>2
      <4>2. nodes[ni + 1] \in Tokens /\ adj[nodes[ni + 1]] # <<>>
        BY <1>2, <4>1 DEF SearchInv, TypeOK
      <4>3. adj[nodes[ni + 1]] \in Seq(Edges)
        BY <1>2, <4>2
      <4> QED
        BY <4>2, <4>3
    <3> QED
      BY <1>2, <2>1, <3>1, <3>2
  <2> QED
    BY <2>2, <2>3
<1>7. TypeOK'
  BY <1>1, <1>5, <1>6 DEF SearchInv, TypeOK, graphVars
<1>8. EdgesJoinPools' /\ BuildFresh' /\ ResultsAreCandidates'
  BY <1>1 DEF SearchInv, EdgesJoinPools, BuildFresh, ResultsAreCandidates, graphVars
<1> QED
  BY <1>5, <1>7, <1>8 DEF SearchInv

LEMMA CounterStep == SearchInv /\ (FindCycles \/ EndRound) => SearchInv'
<1> SUFFICES ASSUME SearchInv, FindCycles \/ EndRound PROVE SearchInv'
  OBVIOUS
<1>1. UNCHANGED <<graphVars, dist, prev, cycles>> /\ phase' \in {"relax", "close"} /\ phase # "done"
  BY DEF FindCycles, EndRound
<1>2. nodes' = nodes /\ adj' = adj /\ dist' = dist /\ prev' = prev /\ cycles' = cycles
  BY <1>1 DEF graphVars
<1>3. nodes \in Seq(Tokens) /\ adj \in [Tokens -> Seq(Edges)]
  BY DEF SearchInv, TypeOK
<1>4. ni' = 1 /\ ei' = 1 /\ changed' \in BOOLEAN /\ round' \in Nat
  <2>1. changed \in BOOLEAN /\ round \in Nat
    BY DEF SearchInv, TypeOK
  <2>2. CASE FindCycles
    BY <2>1, <2>2 DEF FindCycles, SearchInv, BuildFresh
  <2>3. CASE EndRound
    <3>1. round' = round + 1 \/ round' = round
      BY <2>3 DEF EndRound
    <3>2. round' \in Nat
      BY <2>1, <3>1
    <3>3. ni' = 1 /\ ei' = 1 /\ changed' = FALSE
      BY <2>3 DEF EndRound
    <3> QED
      BY <3>2, <3>3
  <2> QED
    BY <2>2, <2>3
<1>5. ASSUME 1 <= Len(nodes) PROVE 1 \in DOMAIN adj[nodes[1]]
  <2>1. nodes[1] \in Tokens /\ adj[nodes[1]] # <<>>
    BY <1>3, <1>5 DEF SearchInv, TypeOK
  <2>2. adj[nodes[1]] \in Seq(Edges)
    BY <1>3, <2>1
  <2> QED
    BY <2>1, <2>2
<1>6. TypeOK'
  BY <1>1, <1>2, <1>3, <1>4, <1>5 DEF SearchInv, TypeOK, Reached
<1>7. PrevConsistent' /\ EdgesJoinPools'
  BY <1>2 DEF SearchInv, PrevConsistent, EdgesJoinPools, GraphEdges, Reached
<1>8. BuildFresh' /\ ResultsAreCandidates'
  BY <1>1, <1>2 DEF SearchInv, BuildFresh, ResultsAreCandidates
<1> QED
  BY <1>6, <1>7, <1>8 DEF SearchInv

LEMMA CloseStep == SearchInv /\ Close => SearchInv'
<1> SUFFICES ASSUME SearchInv, Close PROVE SearchInv'
  OBVIOUS
<1>1. /\ phase = "close" /\ phase' = "done"
      /\ nodes' = nodes /\ adj' = adj /\ dist' = dist /\ prev' = prev
      /\ round' = round /\ ni' = ni /\ ei' = ei /\ changed' = changed
  BY DEF Close, graphVars
<1>2. cycles' \subseteq Candidates
  BY DEF Close
<1>3. Candidates' = Candidates
  BY <1>1 DEF Candidates, Total, Below, ClosingEdges, Reconstructs, Reconstruct, Hop,
              BackLength, BackLengths, Back, IsSimpleCycle, IsCyclic, Reached
<1>4. TypeOK'
  BY <1>1 DEF SearchInv, TypeOK, Reached
<1>5. PrevConsistent' /\ EdgesJoinPools'
  BY <1>1 DEF SearchInv, PrevConsistent, EdgesJoinPools, GraphEdges, Reached
<1>6. BuildFresh' /\ ResultsAreCandidates'
  BY <1>1, <1>2, <1>3 DEF BuildFresh, ResultsAreCandidates
<1> QED
  BY <1>4, <1>5, <1>6 DEF SearchInv

LEMMA SearchStep == SearchInv /\ [Next]_vars => SearchInv'
<1> SUFFICES ASSUME SearchInv, [Next]_vars PROVE SearchInv'
  OBVIOUS
<1>1. CASE \E p \in Pools, r \in Rates : AddPool(p, r[1], r[2])
  BY <1>1, AddPoolStep
<1>2. CASE RelaxEdge
  BY <1>2, RelaxEdgeStep
<1>3. CASE FindCycles \/ EndRound
  BY <1>3, CounterStep
<1>4. CASE Close
  BY <1>4, CloseStep
<1>5. CASE UNCHANGED vars
  <2>1. /\ nodes' = nodes /\ adj' = adj /\ dist' = dist /\ prev' = prev /\ phase' = phase
        /\ round' = round /\ ni' = ni /\ ei' = ei /\ changed' = changed /\ cycles' = cycles
    BY <1>5 DEF vars, graphVars
  <2>2. Candidates' = Candidates
    BY <2>1 DEF Candidates, Total, Below, ClosingEdges, Reconstructs, Reconstruct, Hop,
                BackLength, BackLengths, Back, IsSimpleCycle, IsCyclic, Reached
  <2> QED
    BY <2>1, <2>2 DEF SearchInv, TypeOK, PrevConsistent, BuildFresh, EdgesJoinPools,
                      ResultsAreCandidates, GraphEdges, Reached
<1> QED
  BY <1>1, <1>2, <1>3, <1>4, <1>5 DEF Next

LEMMA SearchInvariant == Spec => []SearchInv
  BY SearchInitially, SearchStep, PTL DEF Spec

\* The loop counters always point at an edge, and every variable has its type, for
\* every graph (the double loop of graph.rs:89-111).
THEOREM SearchTypeCorrect == Spec => []TypeOK
  BY SearchInvariant, PTL DEF SearchInv

\* Whatever the order of insertion, the weights and the number of rounds, the
\* predecessors recorded while edges are relaxed in place can be walked back
\* (graph.rs:89-111, 182-195).
THEOREM PredecessorsConsistent == Spec => []PrevConsistent
  BY SearchInvariant, PTL DEF SearchInv

-----------------------------------------------------------------------------
(* Reconstruction: what walking the predecessors back gives.               *)

LEMMA GraphEdgeFacts ==
  ASSUME SearchInv, NEW t \in Tokens, NEW e, e \in {adj[t][i] : i \in DOMAIN adj[t]}
  PROVE  /\ e \in Edges /\ e \in GraphEdges /\ e.from = t /\ e.weight \in Int
         /\ Hop(e, e.from).tokenIn = e.from /\ Hop(e, e.from).tokenOut = e.to
         /\ Hop(e, e.from).weight = e.weight
         /\ [from |-> Hop(e, e.from).tokenIn, to |-> Hop(e, e.from).tokenOut,
             pool |-> Hop(e, e.from).pool, weight |-> Hop(e, e.from).weight] = e
<1>1. adj \in [Tokens -> Seq(Edges)] /\ EdgesJoinPools
  BY DEF SearchInv, TypeOK
<1>2. e \in Edges /\ e \in GraphEdges
  BY <1>1 DEF GraphEdges
<1>3. /\ e.from = t /\ e.from # e.to
      /\ \/ e.from = e.pool.token0 /\ e.to = e.pool.token1
         \/ e.from = e.pool.token1 /\ e.to = e.pool.token0
  BY <1>1 DEF EdgesJoinPools
<1>4. /\ Hop(e, e.from).tokenIn = e.from /\ Hop(e, e.from).tokenOut = e.to
      /\ Hop(e, e.from).weight = e.weight /\ Hop(e, e.from).pool = e.pool
  BY <1>3 DEF Hop
<1>5. e = [from |-> e.from, to |-> e.to, pool |-> e.pool, weight |-> e.weight] /\ e.weight \in Int
  BY <1>2 DEF Edges
<1> QED
  BY <1>2, <1>3, <1>4, <1>5

\* The edge recorded for a token is an edge of the graph into it.
LEMMA PrevFacts ==
  ASSUME SearchInv, NEW x \in Reached, x # Start
  PROVE  /\ prev[x].to = x /\ prev[x].from \in Reached /\ prev[x].weight \in Int
         /\ Hop(prev[x], prev[x].from).tokenIn = prev[x].from
         /\ Hop(prev[x], prev[x].from).tokenOut = x
         /\ Hop(prev[x], prev[x].from).weight = prev[x].weight
         /\ [from |-> Hop(prev[x], prev[x].from).tokenIn, to |-> Hop(prev[x], prev[x].from).tokenOut,
             pool |-> Hop(prev[x], prev[x].from).pool,
             weight |-> Hop(prev[x], prev[x].from).weight] \in GraphEdges
         /\ dist[x] >= dist[prev[x].from] + prev[x].weight
<1>1. /\ x \in DOMAIN prev /\ prev[x] \in GraphEdges /\ prev[x].to = x /\ prev[x].from \in Reached
      /\ dist[x] >= dist[prev[x].from] + prev[x].weight
  BY DEF SearchInv, PrevConsistent
<1>2. PICK t \in Tokens : prev[x] \in {adj[t][i] : i \in DOMAIN adj[t]}
  BY <1>1 DEF GraphEdges
<1> QED
  BY <1>1, <1>2, GraphEdgeFacts

LEMMA BackFacts ==
  ASSUME SearchInv, NEW t \in Reached
  PROVE  /\ Back(t)[0] = t
         /\ \A k \in 1..GuardLimit :
              Back(t)[k] = IF Back(t)[k - 1] = Start THEN Start ELSE prev[Back(t)[k - 1]].from
         /\ \A k \in 0..GuardLimit : Back(t)[k] \in Reached
<1> DEFINE step == [kx \in Nat \X Reached |-> IF kx[2] = Start THEN Start ELSE prev[kx[2]].from]
           Walks(b) == b = [k \in 0..GuardLimit |->
                              IF k = 0 THEN t
                              ELSE IF b[k - 1] = Start THEN Start ELSE prev[b[k - 1]].from]
<1>1. \A x \in Reached : (IF x = Start THEN Start ELSE prev[x].from) \in Reached
  BY PrevFacts DEF SearchInv, PrevConsistent
<1>2. step \in [Nat \X Reached -> Reached]
  BY <1>1
<1>3. GuardLimit \in Nat
  BY DEF GuardLimit
<1>4. \E b : Walks(b)
  <2> HIDE DEF step
  <2>1. PICK b \in [0..GuardLimit -> Reached] : IsIteration(b, t, step, GuardLimit)
    BY <1>2, <1>3, IterationExists
  <2>2. ASSUME NEW k \in 0..GuardLimit, k # 0
        PROVE  step[<<k, b[k - 1]>>] = IF b[k - 1] = Start THEN Start ELSE prev[b[k - 1]].from
    <3>1. k \in Nat /\ k - 1 \in 0..GuardLimit
      BY <1>3, <2>2
    <3>2. <<k, b[k - 1]>> \in Nat \X Reached
      BY <3>1
    <3> QED
      BY <3>2 DEF step
  <2>3. Walks(b)
    BY <2>1, <2>2 DEF IsIteration
  <2> QED
    BY <2>3
<1>5. Back(t) = CHOOSE b : Walks(b)
  BY DEF Back
<1>6. Walks(Back(t))
  <2> HIDE DEF Walks
  <2> QED
    BY <1>4, <1>5
<1>7. Back(t)[0] = t
  BY <1>3, <1>6
<1>8. \A k \in 1..GuardLimit :
        Back(t)[k] = IF Back(t)[k - 1] = Start THEN Start ELSE prev[Back(t)[k - 1]].from
  BY <1>3, <1>6
<1> DEFINE S == {k \in Nat : k <= GuardLimit => Back(t)[k] \in Reached}
<1> HIDE DEF Walks, step
<1>9. \A k \in Nat : k \in S => k + 1 \in S
  <2> SUFFICES ASSUME NEW k \in Nat, k \in S, k + 1 <= GuardLimit
               PROVE  Back(t)[k + 1] \in Reached
    OBVIOUS
  <2>1. k + 1 \in 1..GuardLimit /\ (k + 1) - 1 = k
    BY <1>3
  <2>2. Back(t)[k] \in Reached
    BY <1>3
  <2>3. Back(t)[k + 1] = IF Back(t)[k] = Start THEN Start ELSE prev[Back(t)[k]].from
    BY <1>8, <2>1
  <2> QED
    BY <1>1, <2>2, <2>3
<1>10. 0 \in S
  BY <1>7
<1>11. Nat \subseteq S
  <2> HIDE DEF S
  <2> QED
    BY <1>9, <1>10, SetInduction
<1> QED
  BY <1>7, <1>8, <1>11

\* The walk from a token that reconstructs meets Start first after BackLength steps.
LEMMA BackLengthFacts ==
  ASSUME SearchInv, NEW t \in Reached, t # Start, Reconstructs(t)
  PROVE  /\ BackLength(t) \in 1..GuardLimit /\ Back(t)[BackLength(t)] = Start
         /\ \A i \in 0..(BackLength(t) - 1) :
              /\ Back(t)[i] # Start /\ Back(t)[i] \in Reached
              /\ Back(t)[i + 1] = prev[Back(t)[i]].from
<1>1. BackLengths(t) \in SUBSET Nat /\ BackLengths(t) # {}
  BY DEF BackLengths, Reconstructs, GuardLimit
<1>2. \E k \in BackLengths(t) : \A l \in BackLengths(t) : k <= l
  BY <1>1, LeastNatural
<1>3. BackLength(t) \in BackLengths(t) /\ \A l \in BackLengths(t) : BackLength(t) <= l
  BY <1>2 DEF BackLength
<1>4. BackLength(t) \in 0..GuardLimit /\ Back(t)[BackLength(t)] = Start
  BY <1>3 DEF BackLengths
<1>5. BackLength(t) # 0
  BY <1>4, BackFacts
<1>6. \A i \in 0..(BackLength(t) - 1) : Back(t)[i] # Start
  <2> SUFFICES ASSUME NEW i \in 0..(BackLength(t) - 1), Back(t)[i] = Start PROVE FALSE
    OBVIOUS
  <2>1. i \in 0..GuardLimit /\ i < BackLength(t)
    BY <1>4 DEF GuardLimit
  <2>2. i \in BackLengths(t)
    BY <2>1 DEF BackLengths
  <2> QED
    BY <1>3, <1>4, <2>1, <2>2 DEF GuardLimit
<1>7. ASSUME NEW i \in 0..(BackLength(t) - 1)
      PROVE  Back(t)[i] \in Reached /\ Back(t)[i + 1] = prev[Back(t)[i]].from
  <2>1. i \in 0..GuardLimit /\ i + 1 \in 1..GuardLimit /\ (i + 1) - 1 = i
    BY <1>4 DEF GuardLimit
  <2> QED
    BY <1>6, <2>1, BackFacts
<1> QED
  BY <1>4, <1>5, <1>6, <1>7 DEF GuardLimit

\* The hops of a reconstructed route: hop i leaves the token BackLength - i + 1 steps
\* back and enters the next, and the last closes the cycle.
LEMMA RouteFacts ==
  ASSUME SearchInv, NEW t \in Reached, t # Start, Reconstructs(t), NEW e \in ClosingEdges(t)
  PROVE  LET k == BackLength(t)
             r == Reconstruct(t, e)
         IN  /\ k \in Nat \ {0} /\ DOMAIN r = 1..(k + 1) /\ Len(r) = k + 1
             /\ \A i \in 1..k :
                  /\ Back(t)[k - i] \in Reached /\ Back(t)[k - i] # Start
                  /\ Back(t)[k - i + 1] = prev[Back(t)[k - i]].from
                  /\ r[i] = Hop(prev[Back(t)[k - i]], prev[Back(t)[k - i]].from)
             /\ r[k + 1] = Hop(e, e.from) /\ e.from = t /\ e.to = Start
             /\ Back(t)[0] = t /\ Back(t)[k] = Start
<1> DEFINE k == BackLength(t)
           r == Reconstruct(t, e)
           h == [i \in 1..k |-> Hop(prev[Back(t)[k - i]], Back(t)[k - i + 1])]
<1>1. k \in Nat \ {0} /\ Back(t)[k] = Start /\ Back(t)[0] = t
  BY BackLengthFacts, BackFacts DEF GuardLimit
<1>2. t \in Tokens /\ e.from = t /\ e.to = Start
  <2>1. t \in Tokens /\ e \in {adj[t][i] : i \in DOMAIN adj[t]} /\ e.to = Start
    BY DEF SearchInv, TypeOK, ClosingEdges
  <2> QED
    BY <2>1, GraphEdgeFacts
<1>3. r = Append(h, Hop(e, t))
  BY DEF Reconstruct
<1> HIDE DEF k
<1>4. /\ h \in Seq({h[i] : i \in 1..k}) /\ Len(h) = k
  BY <1>1
<1>5. DOMAIN r = 1..(k + 1) /\ Len(r) = k + 1 /\ r[k + 1] = Hop(e, t)
      /\ \A i \in 1..k : r[i] = h[i]
  <2> HIDE DEF h, r
  <2> QED
    BY <1>1, <1>3, <1>4
<1>6. ASSUME NEW i \in 1..k
      PROVE  /\ Back(t)[k - i] \in Reached /\ Back(t)[k - i] # Start
             /\ Back(t)[k - i + 1] = prev[Back(t)[k - i]].from
             /\ r[i] = Hop(prev[Back(t)[k - i]], prev[Back(t)[k - i]].from)
  <2>1. k - i \in 0..(k - 1)
    BY <1>1
  <2>2. /\ Back(t)[k - i] \in Reached /\ Back(t)[k - i] # Start
        /\ Back(t)[(k - i) + 1] = prev[Back(t)[k - i]].from
    BY <2>1, BackLengthFacts DEF k
  <2>3. r[i] = Hop(prev[Back(t)[k - i]], Back(t)[k - i + 1])
    BY <1>5
  <2> QED
    BY <2>2, <2>3
<1> HIDE DEF r, h
<1> QED
  BY <1>1, <1>2, <1>5, <1>6 DEF k, r

LEMMA CandidateRoute ==
  ASSUME SearchInv, NEW c \in Candidates
  PROVE  \E t \in Reached \ {Start} : \E e \in ClosingEdges(t) :
           /\ c.route = Reconstruct(t, e) /\ c.logProfit = -Total(t, e)
           /\ Reconstructs(t) /\ IsSimpleCycle(Reconstruct(t, e))
  BY DEF Candidates

\* A sequence of distinct members of a finite set is no longer than the set.
LEMMA DistinctInFiniteSet ==
  ASSUME NEW T, IsFiniteSet(T), NEW n \in Nat, NEW r,
         \A i \in 1..n : r[i].tokenIn \in T,
         \A i \in 1..n : \A j \in 1..(i - 1) : r[i].tokenIn # r[j].tokenIn
  PROVE  n <= Cardinality(T)
<1> DEFINE f == [i \in 1..n |-> r[i].tokenIn]
<1>1. IsFiniteSet(1..n) /\ Cardinality(1..n) = n
  BY FS_Interval
<1>2. Cardinality(T) \in Nat
  BY FS_CardinalityType
<1>3. f \in [1..n -> T]
  OBVIOUS
<1>4. ASSUME Cardinality(T) < n PROVE FALSE
  <2>1. PICK x \in 1..n, y \in 1..n : x # y /\ f[x] = f[y]
    <3> HIDE DEF f
    <3>1. Cardinality(T) < Cardinality(1..n)
      BY <1>1, <1>4
    <3> QED
      BY <1>1, <1>3, <3>1, FS_PigeonHole
  <2>2. x \in 1..(y - 1) \/ y \in 1..(x - 1)
    BY <2>1
  <2> QED
    BY <2>1, <2>2
<1> QED
  BY <1>2, <1>4

LEMMA CandidatesAreCycles ==
  ASSUME SearchInv, NEW c \in Candidates
  PROVE  /\ Len(c.route) <= Cardinality(Tokens) /\ Len(c.route) <= GuardLimit + 1
         /\ c.route[1].tokenIn = Start /\ c.route[Len(c.route)].tokenOut = Start
         /\ \A i \in DOMAIN c.route :
              /\ i > 1 => c.route[i].tokenIn = c.route[i - 1].tokenOut
              /\ \A j \in 1..(i - 1) : c.route[i].tokenIn # c.route[j].tokenIn
              /\ [from |-> c.route[i].tokenIn, to |-> c.route[i].tokenOut,
                  pool |-> c.route[i].pool, weight |-> c.route[i].weight] \in GraphEdges
<1>0. PICK t \in Reached \ {Start} : \E e \in ClosingEdges(t) :
        /\ c.route = Reconstruct(t, e) /\ Reconstructs(t) /\ IsSimpleCycle(Reconstruct(t, e))
  BY CandidateRoute
<1>1. PICK e \in ClosingEdges(t) :
        /\ c.route = Reconstruct(t, e) /\ Reconstructs(t) /\ IsSimpleCycle(Reconstruct(t, e))
  BY <1>0
<1> DEFINE k == BackLength(t)
           r == c.route
<1>2. /\ k \in Nat \ {0} /\ DOMAIN r = 1..(k + 1) /\ Len(r) = k + 1
      /\ \A i \in 1..k :
           /\ Back(t)[k - i] \in Reached /\ Back(t)[k - i] # Start
           /\ Back(t)[k - i + 1] = prev[Back(t)[k - i]].from
           /\ r[i] = Hop(prev[Back(t)[k - i]], prev[Back(t)[k - i]].from)
      /\ r[k + 1] = Hop(e, e.from) /\ e.from = t /\ e.to = Start
      /\ Back(t)[0] = t /\ Back(t)[k] = Start
  BY <1>1, RouteFacts
<1>3. IsSimpleCycle(r)
  BY <1>1
<1> HIDE DEF k, r
<1>4. ASSUME NEW i \in 1..k
      PROVE  /\ r[i].tokenIn = Back(t)[k - i + 1] /\ r[i].tokenOut = Back(t)[k - i]
             /\ [from |-> r[i].tokenIn, to |-> r[i].tokenOut,
                 pool |-> r[i].pool, weight |-> r[i].weight] \in GraphEdges
  <2> DEFINE x == Back(t)[k - i]
  <2>1. /\ x \in Reached /\ x # Start /\ Back(t)[k - i + 1] = prev[x].from
        /\ r[i] = Hop(prev[x], prev[x].from)
    BY <1>2
  <2> HIDE DEF x
  <2>2. /\ r[i].tokenIn = prev[x].from /\ r[i].tokenOut = x
        /\ [from |-> r[i].tokenIn, to |-> r[i].tokenOut,
            pool |-> r[i].pool, weight |-> r[i].weight] \in GraphEdges
    BY <2>1, PrevFacts
  <2> QED
    BY <2>1, <2>2 DEF x
<1>5. /\ r[k + 1].tokenIn = t /\ r[k + 1].tokenOut = Start
      /\ [from |-> r[k + 1].tokenIn, to |-> r[k + 1].tokenOut,
          pool |-> r[k + 1].pool, weight |-> r[k + 1].weight] \in GraphEdges
  <2>1. t \in Tokens /\ e \in {adj[t][i] : i \in DOMAIN adj[t]}
    BY DEF SearchInv, TypeOK, ClosingEdges
  <2> QED
    BY <1>2, <2>1, GraphEdgeFacts
<1>6. ASSUME NEW i \in 2..(k + 1) PROVE r[i].tokenIn = r[i - 1].tokenOut
  <2>1. i - 1 \in 1..k /\ r[i - 1].tokenOut = Back(t)[k - (i - 1)]
    <3>1. i - 1 \in 1..k
      BY <1>2
    <3> QED
      BY <1>4, <3>1
  <2>2. CASE i = k + 1
    <3>1. k - (i - 1) = 0
      BY <1>2, <2>2
    <3> QED
      BY <1>2, <1>5, <2>1, <2>2, <3>1
  <2>3. CASE i # k + 1
    <3>1. i \in 1..k /\ k - i + 1 = k - (i - 1)
      BY <1>2, <2>3
    <3> QED
      BY <1>4, <2>1, <3>1
  <2> QED
    BY <2>2, <2>3
<1>7. r[1].tokenIn = Start
  <2>1. 1 \in 1..k /\ k - 1 + 1 = k
    BY <1>2
  <2> QED
    BY <1>2, <1>4, <2>1
<1>8. ASSUME NEW i \in 1..(k + 1), NEW j \in 1..(i - 1) PROVE r[i].tokenIn # r[j].tokenIn
  <2>1. i \in 2..(k + 1) /\ i - 1 \in 1..(Len(r) - 1)
    BY <1>2
  <2>2. /\ r[i - 1].tokenOut # r[1].tokenIn
        /\ \A l \in 1..((i - 1) - 1) : r[i - 1].tokenOut # r[l].tokenOut
    BY <1>3, <2>1 DEF IsSimpleCycle
  <2>3. CASE j = 1
    BY <1>6, <2>1, <2>2, <2>3
  <2>4. CASE j # 1
    <3>1. j \in 2..(k + 1) /\ j - 1 \in 1..((i - 1) - 1)
      BY <1>2, <2>4
    <3> QED
      BY <1>6, <2>1, <2>2, <3>1
  <2> QED
    BY <2>3, <2>4
<1>9. \A i \in 1..(k + 1) :
        [from |-> r[i].tokenIn, to |-> r[i].tokenOut,
         pool |-> r[i].pool, weight |-> r[i].weight] \in GraphEdges
  <2> SUFFICES ASSUME NEW i \in 1..(k + 1)
               PROVE  [from |-> r[i].tokenIn, to |-> r[i].tokenOut,
                       pool |-> r[i].pool, weight |-> r[i].weight] \in GraphEdges
    OBVIOUS
  <2>1. i \in 1..k \/ i = k + 1
    BY <1>2
  <2> QED
    BY <1>4, <1>5, <2>1
<1>10. /\ Len(r) <= Cardinality(Tokens) /\ Len(r) <= GuardLimit + 1
       /\ r[1].tokenIn = Start /\ r[Len(r)].tokenOut = Start
       /\ \A i \in DOMAIN r :
            /\ i > 1 => r[i].tokenIn = r[i - 1].tokenOut
            /\ \A j \in 1..(i - 1) : r[i].tokenIn # r[j].tokenIn
            /\ [from |-> r[i].tokenIn, to |-> r[i].tokenOut,
                pool |-> r[i].pool, weight |-> r[i].weight] \in GraphEdges
  <2>1. r[1].tokenIn = Start /\ r[Len(r)].tokenOut = Start /\ DOMAIN r = 1..(k + 1)
    BY <1>2, <1>5, <1>7
  <2>2. \A i \in DOMAIN r : i > 1 => r[i].tokenIn = r[i - 1].tokenOut
    BY <1>2, <1>6
  <2>3. \A i \in DOMAIN r : \A j \in 1..(i - 1) : r[i].tokenIn # r[j].tokenIn
    BY <1>8, <2>1
  <2>4. \A i \in DOMAIN r : r[i].tokenIn \in Tokens
    <3>1. \A i \in 1..k : r[i].tokenIn \in Tokens
      <4> SUFFICES ASSUME NEW i \in 1..k PROVE r[i].tokenIn \in Tokens
        OBVIOUS
      <4>1. Back(t)[k - i] \in Reached /\ r[i].tokenIn = prev[Back(t)[k - i]].from
        BY <1>2, <1>4
      <4> QED
        BY <1>2, <4>1, PrevFacts DEF SearchInv, TypeOK
    <3>2. r[k + 1].tokenIn \in Tokens
      BY <1>5 DEF SearchInv, TypeOK
    <3> QED
      BY <1>2, <3>1, <3>2
  <2>5. Len(r) <= Cardinality(Tokens)
    <3>1. DOMAIN r = 1..Len(r) /\ Len(r) \in Nat
      BY <1>2
    <3> QED
      BY <2>3, <2>4, <3>1, DistinctInFiniteSet, SearchAssumption
  <2>6. Len(r) <= GuardLimit + 1
    BY <1>1, <1>2, BackLengthFacts DEF k, GuardLimit
  <2> QED
    BY <1>9, <2>1, <2>2, <2>3, <2>5, <2>6
<1> QED
  BY <1>10 DEF r

\* Whatever the graph and the argument, every cycle find_cycles returns is a simple
\* cycle of the graph through the start token (graph.rs:113-147, 167-223).
THEOREM ReturnedRoutesAreCycles == Spec => []RoutesAreCycles
<1>1. SearchInv => RoutesAreCycles
  <2> SUFFICES ASSUME SearchInv, NEW c \in cycles
               PROVE  c \in Candidates
    BY CandidatesAreCycles DEF RoutesAreCycles
  <2> QED
    BY DEF SearchInv, ResultsAreCandidates
<1> QED
  BY <1>1, SearchInvariant, PTL

-----------------------------------------------------------------------------
(* How far the reported profit can be from the route's.                    *)

LEMMA WeightsAlongFacts ==
  ASSUME NEW route, Len(route) \in Nat, \A i \in 1..Len(route) : route[i].weight \in Int
  PROVE  /\ WeightsAlong(route)[0] = 0
         /\ \A i \in 1..Len(route) :
              WeightsAlong(route)[i] = WeightsAlong(route)[i - 1] + route[i].weight
         /\ \A i \in 0..Len(route) : WeightsAlong(route)[i] \in Int
<1> DEFINE n == Len(route)
           step == [kx \in Nat \X Int |->
                      IF kx[1] \in 1..n THEN kx[2] + route[kx[1]].weight ELSE 0]
           Sums(b) == b = [i \in 0..n |-> IF i = 0 THEN 0 ELSE b[i - 1] + route[i].weight]
<1>1. step \in [Nat \X Int -> Int]
  OBVIOUS
<1>2. \E b : Sums(b)
  <2> HIDE DEF step, n
  <2> DEFINE zero == 0
  <2>0. n \in Nat /\ zero \in Int
    BY DEF n
  <2> HIDE DEF zero
  <2>1. PICK b \in [0..n -> Int] : IsIteration(b, zero, step, n)
    BY <1>1, <2>0, IterationExists
  <2>2. ASSUME NEW i \in 0..n, i # 0
        PROVE  step[<<i, b[i - 1]>>] = b[i - 1] + route[i].weight
    <3>1. i \in 1..n /\ i \in Nat /\ i - 1 \in 0..n
      BY <2>2 DEF n
    <3>2. <<i, b[i - 1]>> \in Nat \X Int
      BY <3>1
    <3> QED
      BY <3>1, <3>2 DEF step
  <2>3. Sums(b)
    BY <2>1, <2>2 DEF IsIteration, zero
  <2> QED
    BY <2>3
<1>3. WeightsAlong(route) = CHOOSE b : Sums(b)
  BY DEF WeightsAlong
<1>4. Sums(WeightsAlong(route))
  <2> HIDE DEF Sums
  <2> QED
    BY <1>2, <1>3
<1>5. WeightsAlong(route)[0] = 0
  BY <1>4
<1>6. \A i \in 1..n : WeightsAlong(route)[i] = WeightsAlong(route)[i - 1] + route[i].weight
  BY <1>4
<1> DEFINE S == {i \in Nat : i <= n => WeightsAlong(route)[i] \in Int}
<1> HIDE DEF Sums, step
<1>7. \A i \in Nat : i \in S => i + 1 \in S
  <2> SUFFICES ASSUME NEW i \in Nat, i \in S, i + 1 <= n
               PROVE  WeightsAlong(route)[i + 1] \in Int
    OBVIOUS
  <2>1. i + 1 \in 1..n /\ (i + 1) - 1 = i
    OBVIOUS
  <2>2. WeightsAlong(route)[i] \in Int /\ route[i + 1].weight \in Int
    BY <2>1
  <2> QED
    BY <1>6, <2>1, <2>2
<1>8. 0 \in S
  BY <1>5
<1>9. Nat \subseteq S
  <2> HIDE DEF S
  <2> QED
    BY <1>7, <1>8, SetInduction
<1> QED
  BY <1>5, <1>6, <1>9

LEMMA CandidateProfit ==
  ASSUME SearchInv, NEW c \in Candidates
  PROVE  c.logProfit + dist[Start] <= -RouteWeight(c.route)
<1>0. PICK t \in Reached \ {Start} : \E e \in ClosingEdges(t) :
        c.route = Reconstruct(t, e) /\ c.logProfit = -Total(t, e) /\ Reconstructs(t)
  BY CandidateRoute
<1>1. PICK e \in ClosingEdges(t) :
        c.route = Reconstruct(t, e) /\ c.logProfit = -Total(t, e) /\ Reconstructs(t)
  BY <1>0
<1> DEFINE k == BackLength(t)
           r == c.route
           sum == WeightsAlong(r)
<1>2. /\ k \in Nat \ {0} /\ DOMAIN r = 1..(k + 1) /\ Len(r) = k + 1
      /\ \A i \in 1..k :
           /\ Back(t)[k - i] \in Reached /\ Back(t)[k - i] # Start
           /\ Back(t)[k - i + 1] = prev[Back(t)[k - i]].from
           /\ r[i] = Hop(prev[Back(t)[k - i]], prev[Back(t)[k - i]].from)
      /\ r[k + 1] = Hop(e, e.from) /\ e.from = t /\ e.to = Start
      /\ Back(t)[0] = t /\ Back(t)[k] = Start
  BY <1>1, RouteFacts
<1>3. dist \in [Reached -> Int] /\ Start \in Reached
  BY DEF SearchInv, TypeOK, PrevConsistent
<1>4. c.logProfit = -(dist[t] + e.weight)
  BY <1>1 DEF Total
<1> HIDE DEF k, r
<1>5. r[k + 1].weight = e.weight /\ e.weight \in Int
  <2>1. t \in Tokens /\ e \in {adj[t][i] : i \in DOMAIN adj[t]}
    BY DEF SearchInv, TypeOK, ClosingEdges
  <2> QED
    BY <1>2, <2>1, GraphEdgeFacts
<1>6. ASSUME NEW i \in 1..k
      PROVE  /\ r[i].weight \in Int
             /\ Back(t)[k - i] \in Reached /\ Back(t)[k - i + 1] \in Reached
             /\ dist[Back(t)[k - i]] >= dist[Back(t)[k - i + 1]] + r[i].weight
  <2> DEFINE x == Back(t)[k - i]
  <2>1. /\ x \in Reached /\ x # Start /\ Back(t)[k - i + 1] = prev[x].from
        /\ r[i] = Hop(prev[x], prev[x].from)
    BY <1>2
  <2> HIDE DEF x
  <2>2. /\ r[i].weight = prev[x].weight /\ prev[x].weight \in Int /\ prev[x].from \in Reached
        /\ dist[x] >= dist[prev[x].from] + prev[x].weight
    BY <2>1, PrevFacts
  <2> QED
    BY <2>1, <2>2 DEF x
<1>7. \A i \in 1..Len(r) : r[i].weight \in Int
  <2> SUFFICES ASSUME NEW i \in 1..(k + 1) PROVE r[i].weight \in Int
    BY <1>2
  <2>1. i \in 1..k \/ i = k + 1
    BY <1>2
  <2> QED
    BY <1>5, <1>6, <2>1
<1>8. /\ sum[0] = 0 /\ \A i \in 1..(k + 1) : sum[i] = sum[i - 1] + r[i].weight
      /\ \A i \in 0..(k + 1) : sum[i] \in Int
  <2>1. Len(r) \in Nat /\ Len(r) = k + 1
    BY <1>2
  <2> QED
    BY <1>7, <2>1, WeightsAlongFacts
<1> HIDE DEF sum
<1> DEFINE S == {i \in Nat : i <= k => dist[Back(t)[k - i]] >= dist[Start] + sum[i]}
<1>9. 0 \in S
  <2>1. k - 0 = k /\ dist[Start] \in Int
    BY <1>2, <1>3
  <2> QED
    BY <1>2, <1>8, <2>1
<1>10. \A i \in Nat : i \in S => i + 1 \in S
  <2> SUFFICES ASSUME NEW i \in Nat, i \in S, i + 1 <= k
               PROVE  dist[Back(t)[k - (i + 1)]] >= dist[Start] + sum[i + 1]
    OBVIOUS
  <2>1. /\ i + 1 \in 1..k /\ i + 1 \in 1..(k + 1) /\ (i + 1) - 1 = i
        /\ k - (i + 1) + 1 = k - i /\ i \in 0..(k + 1)
    BY <1>2
  <2>2. /\ Back(t)[k - (i + 1)] \in Reached /\ Back(t)[k - i] \in Reached
        /\ dist[Back(t)[k - (i + 1)]] >= dist[Back(t)[k - i]] + r[i + 1].weight
        /\ r[i + 1].weight \in Int
    BY <1>6, <2>1
  <2>3. sum[i + 1] = sum[i] + r[i + 1].weight /\ sum[i] \in Int
    BY <1>8, <2>1
  <2>4. dist[Back(t)[k - i]] >= dist[Start] + sum[i]
    BY <1>2
  <2>5. /\ dist[Back(t)[k - (i + 1)]] \in Int /\ dist[Back(t)[k - i]] \in Int
        /\ dist[Start] \in Int
    BY <1>3, <2>2
  <2> QED
    BY <2>2, <2>3, <2>4, <2>5
<1>11. dist[t] >= dist[Start] + sum[k]
  <2>1. Nat \subseteq S
    <3> HIDE DEF S
    <3> QED
      BY <1>9, <1>10, SetInduction
  <2>2. k - k = 0 /\ k \in Nat
    BY <1>2
  <2> QED
    BY <1>2, <2>1, <2>2
<1>12. sum[k + 1] = sum[k] + e.weight /\ sum[k] \in Int
  <2>1. k + 1 \in 1..(k + 1) /\ (k + 1) - 1 = k /\ k \in 0..(k + 1)
    BY <1>2
  <2> QED
    BY <1>5, <1>8, <2>1
<1>13. RouteWeight(r) = sum[k + 1]
  BY <1>2 DEF RouteWeight, sum
<1>14. dist[t] \in Int /\ dist[Start] \in Int
  BY <1>3
<1> QED
  BY <1>4, <1>5, <1>11, <1>12, <1>13, <1>14 DEF r

\* A reported profit exceeds its route's by no more than the relaxation improved the
\* start token itself, for every graph: it is never overstated before a profitable
\* cycle through the start has been closed (graph.rs:121-124).
THEOREM OverstatementIsBounded == Spec => []OverstatementBounded
<1>1. SearchInv => OverstatementBounded
  <2> SUFFICES ASSUME SearchInv, NEW c \in cycles
               PROVE  c \in Candidates
    BY CandidateProfit DEF OverstatementBounded
  <2> QED
    BY DEF SearchInv, ResultsAreCandidates
<1> QED
  BY <1>1, SearchInvariant, PTL

-----------------------------------------------------------------------------
(* No profit without a profitable market.  As long as no simple cycle of   *)
(* the graph has negative weight, the predecessors form a tree with the    *)
(* start token at its root.  An edge that would break it closes a cycle of *)
(* predecessors on which every step but its own is at least paid for by    *)
(* the distances, and its own improves on them: that cycle is negative.    *)

NegativeCycle == \E s \in SimpleCyclesUpTo(Cardinality(Tokens)) : RouteWeight(s) < 0

\* p is the walk back from t, which meets the start token first after n steps.
WalkBack(p, n, t) ==
  /\ p \in [0..n -> Reached] /\ p[0] = t /\ p[n] = Start
  /\ \A i \in 0..(n - 1) : p[i] # Start /\ p[i + 1] = prev[p[i]].from

Rooted ==
  /\ Start \notin DOMAIN prev /\ dist[Start] = 0
  /\ \A t \in Reached : \E n \in Nat : \E p \in [0..n -> Reached] : WalkBack(p, n, t)

RootedUnlessNegative == (phase = "build" => Rooted) /\ (NegativeCycle \/ Rooted)

\* Walking back is deterministic, so that no token is met twice.
LEMMA WalkIsSimple ==
  ASSUME NEW n \in Nat, NEW p \in [0..n -> Reached], NEW t, WalkBack(p, n, t),
         NEW i \in 0..n, NEW j \in 0..n, p[i] = p[j]
  PROVE  i = j
<1>1. ASSUME NEW a \in 0..n, NEW b \in 0..n, a < b, p[a] = p[b] PROVE FALSE
  <2> DEFINE S == {k \in Nat : b + k <= n => p[a + k] = p[b + k]}
  <2>1. 0 \in S
    BY <1>1
  <2>2. ASSUME NEW k \in Nat, k \in S, b + (k + 1) <= n
        PROVE  p[a + (k + 1)] = p[b + (k + 1)]
    <3>1. /\ a + k \in 0..(n - 1) /\ b + k \in 0..(n - 1)
          /\ a + (k + 1) = (a + k) + 1 /\ b + (k + 1) = (b + k) + 1
      BY <1>1, <2>2
    <3>2. p[(a + k) + 1] = prev[p[a + k]].from /\ p[(b + k) + 1] = prev[p[b + k]].from
      BY <3>1 DEF WalkBack
    <3>3. p[a + k] = p[b + k]
      BY <1>1, <2>2, <3>1
    <3> QED
      BY <3>1, <3>2, <3>3
  <2>3. Nat \subseteq S
    <3>1. \A k \in Nat : k \in S => k + 1 \in S
      BY <2>2
    <3> HIDE DEF S
    <3> QED
      BY <2>1, <3>1, SetInduction
  <2>4. n - b \in Nat /\ b + (n - b) = n /\ a + (n - b) \in 0..(n - 1)
    BY <1>1
  <2>5. n - b \in S
    BY <2>3, <2>4
  <2>6. p[a + (n - b)] = p[n]
    BY <2>4, <2>5
  <2> QED
    BY <2>4, <2>6 DEF WalkBack
<1> QED
  BY <1>1

\* An edge that improves on a token it can be reached from, by the predecessors, closes a
\* negative cycle.
LEMMA ImprovementClosesCycle ==
  ASSUME SearchInv, NEW m \in Nat \ {0}, NEW p \in [0..m -> Reached],
         \A i \in 0..(m - 1) : p[i] \in DOMAIN prev /\ p[i + 1] = prev[p[i]].from,
         \A i, j \in 0..m : p[i] = p[j] => i = j,
         NEW e \in GraphEdges, e.from = p[0], e.to = p[m],
         dist[p[0]] + e.weight < dist[p[m]]
  PROVE  NegativeCycle
<1> DEFINE s == [i \in 1..(m + 1) |-> IF i <= m THEN prev[p[m - i]] ELSE e]
           sum == WeightsAlong(s)
<1>1. /\ dist \in [Reached -> Int] /\ Reached \subseteq Tokens /\ GraphEdges \subseteq Edges
      /\ e.weight \in Int
  <2>1. GraphEdges \subseteq Edges
    BY DEF SearchInv, TypeOK, GraphEdges
  <2> QED
    BY <2>1 DEF SearchInv, TypeOK, Edges
<1>2. ASSUME NEW i \in 1..m
      PROVE  /\ s[i] = prev[p[m - i]] /\ s[i] \in GraphEdges
             /\ s[i].to = p[m - i] /\ s[i].from = p[m + 1 - i] /\ s[i].weight \in Int
             /\ p[m - i] \in Reached /\ p[m + 1 - i] \in Reached
             /\ dist[p[m - i]] >= dist[p[m + 1 - i]] + s[i].weight
  <2> DEFINE x == p[m - i]
  <2>1. m - i \in 0..(m - 1) /\ (m - i) + 1 = m + 1 - i /\ m + 1 - i \in 0..m
    OBVIOUS
  <2>2. x \in DOMAIN prev /\ x \in Reached /\ p[m + 1 - i] = prev[x].from /\ p[m + 1 - i] \in Reached
    BY <2>1
  <2>3. s[i] = prev[x]
    OBVIOUS
  <2> HIDE DEF x, s
  <2>4. /\ prev[x] \in GraphEdges /\ prev[x].to = x
        /\ dist[x] >= dist[prev[x].from] + prev[x].weight
    BY <2>2 DEF SearchInv, PrevConsistent
  <2>5. prev[x].weight \in Int
    BY <1>1, <2>4 DEF Edges
  <2> QED
    BY <2>2, <2>3, <2>4, <2>5 DEF x
<1>3. s[m + 1] = e /\ m + 1 \in 1..(m + 1)
  OBVIOUS
<1>4. s \in [1..(m + 1) -> GraphEdges] /\ Len(s) = m + 1 /\ DOMAIN s = 1..(m + 1)
  <2>1. \A i \in 1..(m + 1) : s[i] \in GraphEdges
    <3> SUFFICES ASSUME NEW i \in 1..(m + 1) PROVE s[i] \in GraphEdges
      OBVIOUS
    <3>1. i \in 1..m \/ i = m + 1
      OBVIOUS
    <3> HIDE DEF s
    <3> QED
      BY <1>2, <1>3, <3>1
  <2>2. s \in [1..(m + 1) -> GraphEdges]
    BY <2>1
  <2> HIDE DEF s
  <2> QED
    BY <2>2
<1> HIDE DEF s
<1>5. \A i \in 1..(m + 1) : s[i].from = p[m + 1 - i] /\ s[i].weight \in Int
  <2> SUFFICES ASSUME NEW i \in 1..(m + 1) PROVE s[i].from = p[m + 1 - i] /\ s[i].weight \in Int
    OBVIOUS
  <2>1. CASE i \in 1..m
    BY <1>2, <2>1
  <2>2. CASE i = m + 1
    <3>1. m + 1 - i = 0
      BY <2>2
    <3> QED
      BY <1>1, <1>3, <2>2, <3>1
  <2> QED
    BY <2>1, <2>2
<1>6. s[1].from = s[Len(s)].to
  <2>1. 1 \in 1..(m + 1) /\ m + 1 - 1 = m
    OBVIOUS
  <2> QED
    BY <1>3, <1>4, <1>5, <2>1
<1>7. ASSUME NEW i \in 2..(m + 1) PROVE s[i].from = s[i - 1].to
  <2>1. i \in 1..(m + 1) /\ i - 1 \in 1..m /\ m - (i - 1) = m + 1 - i
    OBVIOUS
  <2> QED
    BY <1>2, <1>5, <2>1
<1>8. Cardinality({s[i].from : i \in DOMAIN s}) = m + 1 /\ m + 1 <= Cardinality(Tokens)
  <2> DEFINE F == {s[i].from : i \in DOMAIN s}
             g == [i \in 1..(m + 1) |-> s[i].from]
  <2>1. ASSUME NEW i \in 1..(m + 1), NEW j \in 1..(m + 1), g[i] = g[j] PROVE i = j
    <3>1. m + 1 - i \in 0..m /\ m + 1 - j \in 0..m /\ p[m + 1 - i] = p[m + 1 - j]
      BY <1>5, <2>1
    <3>2. m + 1 - i = m + 1 - j
      BY <3>1
    <3> QED
      BY <3>2
  <2>2. g \in [1..(m + 1) -> F] /\ \A x \in F : \E i \in 1..(m + 1) : g[i] = x
    BY <1>4
  <2>3. g \in Bijection(1..(m + 1), F)
    <3> HIDE DEF g, F
    <3> QED
      BY <2>1, <2>2, Zenon DEF Bijection, Injection, Surjection, IsInjective
  <2> HIDE DEF g, F
  <2>4. IsFiniteSet(1..(m + 1)) /\ Cardinality(1..(m + 1)) = m + 1
    <3>1. m + 1 \in Int /\ 1 \in Int /\ ~(1 > m + 1) /\ m + 1 - 1 + 1 = m + 1
      OBVIOUS
    <3> QED
      BY <3>1, FS_Interval
  <2>5. Cardinality(F) = m + 1
    BY <2>3, <2>4, FS_Bijection DEF ExistsBijection
  <2>6. F \subseteq Tokens
    <3>1. \A i \in 1..(m + 1) : s[i] \in Edges
      BY <1>1, <1>4
    <3> QED
      BY <1>4, <3>1 DEF F, Edges
  <2>7. Cardinality(F) <= Cardinality(Tokens)
    BY <2>6, SearchAssumption, FS_Subset
  <2> QED
    BY <2>5, <2>7 DEF F
<1>9. s \in SimpleCyclesUpTo(Cardinality(Tokens))
  <2>1. Cardinality(Tokens) \in Nat
    BY SearchAssumption, FS_CardinalityType
  <2>2. m + 1 \in 2..Cardinality(Tokens)
    BY <1>8, <2>1
  <2> QED
    BY <1>4, <1>6, <1>7, <1>8, <2>2 DEF SimpleCyclesUpTo
<1>10. /\ sum[0] = 0 /\ \A i \in 1..(m + 1) : sum[i] = sum[i - 1] + s[i].weight
       /\ \A i \in 0..(m + 1) : sum[i] \in Int
  <2>1. Len(s) \in Nat /\ \A i \in 1..Len(s) : s[i].weight \in Int
    BY <1>4, <1>5
  <2> QED
    BY <1>4, <2>1, WeightsAlongFacts
<1>11. RouteWeight(s) = sum[m + 1]
  BY <1>4 DEF RouteWeight
<1> HIDE DEF sum
<1> DEFINE S == {i \in Nat : i <= m => dist[p[m - i]] >= dist[p[m]] + sum[i]}
<1>12. 0 \in S
  <2>1. m - 0 = m /\ dist[p[m]] \in Int
    BY <1>1
  <2> QED
    BY <1>10, <2>1
<1>13. \A i \in Nat : i \in S => i + 1 \in S
  <2> SUFFICES ASSUME NEW i \in Nat, i \in S, i + 1 <= m
               PROVE  dist[p[m - (i + 1)]] >= dist[p[m]] + sum[i + 1]
    OBVIOUS
  <2>1. /\ i + 1 \in 1..m /\ i + 1 \in 1..(m + 1) /\ (i + 1) - 1 = i
        /\ m + 1 - (i + 1) = m - i /\ i \in 0..(m + 1) /\ m \in 0..m
    <3> HIDE DEF S
    <3> QED
      BY SMTT(20)
  <2>2. /\ p[m - (i + 1)] \in Reached /\ p[m - i] \in Reached
        /\ dist[p[m - (i + 1)]] >= dist[p[m - i]] + s[i + 1].weight
        /\ s[i + 1].weight \in Int
    BY <1>2, <2>1
  <2>3. sum[i + 1] = sum[i] + s[i + 1].weight /\ sum[i] \in Int
    BY <1>10, <2>1
  <2>4. dist[p[m - i]] >= dist[p[m]] + sum[i]
    OBVIOUS
  <2>5. dist[p[m - (i + 1)]] \in Int /\ dist[p[m - i]] \in Int /\ dist[p[m]] \in Int
    BY <1>1, <2>1, <2>2
  <2>6. \A a, b, c, d, w \in Int : a >= b + w /\ b >= c + d => a >= c + (d + w)
    OBVIOUS
  <2>7. dist[p[m - (i + 1)]] >= dist[p[m]] + (sum[i] + s[i + 1].weight)
    <3> HIDE DEF S
    <3> QED
      BY <2>2, <2>3, <2>4, <2>5, <2>6, Zenon
  <2> QED
    BY <2>3, <2>7
<1>14. dist[p[0]] >= dist[p[m]] + sum[m]
  <2>1. Nat \subseteq S
    <3> HIDE DEF S
    <3> QED
      BY <1>12, <1>13, SetInduction
  <2>2. m - m = 0 /\ m \in Nat
    OBVIOUS
  <2> QED
    BY <2>1, <2>2
<1>15. sum[m + 1] = sum[m] + e.weight /\ sum[m] \in Int
  <2>1. m + 1 \in 1..(m + 1) /\ (m + 1) - 1 = m /\ m \in 0..(m + 1)
    OBVIOUS
  <2> QED
    BY <1>3, <1>10, <2>1
<1>16. dist[p[0]] \in Int /\ dist[p[m]] \in Int
  <2>1. 0 \in 0..m /\ m \in 0..m
    OBVIOUS
  <2> QED
    BY <1>1, <2>1
<1>17. RouteWeight(s) < 0
  BY <1>1, <1>11, <1>14, <1>15, <1>16
<1> QED
  BY <1>9, <1>17 DEF NegativeCycle

\* The tree stays one when an edge improves, or a negative cycle is closed.
LEMMA RelaxKeepsTree ==
  ASSUME SearchInv, Rooted, NEW e \in GraphEdges, Relax(e), UNCHANGED graphVars
  PROVE  NegativeCycle \/ Rooted'
<1> DEFINE u == e.from
           v == e.to
<1>1. /\ Start \in Reached /\ Reached \ {Start} \subseteq DOMAIN prev /\ DOMAIN prev \subseteq Reached
      /\ dist \in [Reached -> Int] /\ dist[Start] = 0 /\ Start \notin DOMAIN prev
  BY DEF SearchInv, TypeOK, PrevConsistent, Rooted
<1>2. CASE ~Improves(e)
  <2>1. dist' = dist /\ prev' = prev
    BY <1>2 DEF Relax
  <2>2. Reached' = Reached
    BY <2>1 DEF Reached
  <2>3. ASSUME NEW p, NEW n, NEW t PROVE WalkBack(p, n, t)' <=> WalkBack(p, n, t)
    BY <2>1, <2>2 DEF WalkBack
  <2>4. ASSUME NEW t \in Reached
        PROVE  \E n \in Nat : \E p \in [0..n -> Reached'] : WalkBack(p, n, t)'
    <3>1. PICK n \in Nat : \E p \in [0..n -> Reached] : WalkBack(p, n, t)
      BY DEF Rooted
    <3> QED
      BY <2>2, <2>3, <3>1
  <2> QED
    BY <1>1, <2>1, <2>2, <2>4 DEF Rooted
<1>3. CASE Improves(e) /\ ~NegativeCycle
  <2>1. u \in Reached /\ u # v
    <3>1. PICK t \in Tokens : e \in {adj[t][i] : i \in DOMAIN adj[t]}
      BY DEF GraphEdges
    <3>2. u # v
      BY <3>1 DEF SearchInv, EdgesJoinPools
    <3> QED
      BY <1>3, <3>2 DEF Improves
  <2>2. /\ dist' = [k \in Reached \cup {v} |-> IF k = v THEN dist[u] + e.weight ELSE dist[k]]
        /\ prev' = [k \in DOMAIN prev \cup {v} |-> IF k = v THEN e ELSE prev[k]]
        /\ v \in Reached => dist[u] + e.weight < dist[v]
    BY <1>3 DEF Relax, Updated, Reached, Improves
  <2>3. Reached' = Reached \cup {v} /\ DOMAIN prev' = DOMAIN prev \cup {v} /\ prev'[v] = e
    BY <2>2 DEF Reached
  <2>4. PICK n \in Nat : \E q \in [0..n -> Reached] : WalkBack(q, n, u)
    BY <2>1 DEF Rooted
  <2>5. PICK q \in [0..n -> Reached] : WalkBack(q, n, u)
    BY <2>4
  <2>6. ASSUME NEW m \in 0..n, q[m] = v PROVE FALSE
    <3> DEFINE p == [i \in 0..m |-> q[i]]
    <3>1. m \in Nat \ {0} /\ 0 \in 0..m /\ m \in 0..m
      BY <2>1, <2>5, <2>6 DEF WalkBack
    <3>2. p \in [0..m -> Reached] /\ p[0] = u /\ p[m] = v
      BY <2>5, <2>6, <3>1 DEF WalkBack
    <3>3. ASSUME NEW i \in 0..(m - 1)
          PROVE  p[i] \in DOMAIN prev /\ p[i + 1] = prev[p[i]].from
      <4>1. i \in 0..(n - 1) /\ i \in 0..m /\ i + 1 \in 0..m /\ i \in 0..n
        BY <3>1
      <4>2. q[i] \in Reached /\ q[i] # Start /\ q[i + 1] = prev[q[i]].from
        BY <2>5, <4>1 DEF WalkBack
      <4> QED
        BY <1>1, <4>1, <4>2
    <3>4. ASSUME NEW i \in 0..m, NEW j \in 0..m, p[i] = p[j] PROVE i = j
      <4>1. i \in 0..n /\ j \in 0..n /\ q[i] = q[j]
        BY <3>1, <3>4
      <4> QED
        BY <2>5, <4>1, WalkIsSimple
    <3>5. dist[p[0]] + e.weight < dist[p[m]]
      BY <2>2, <3>1, <3>2
    <3> HIDE DEF p
    <3>6. NegativeCycle
      BY <3>1, <3>2, <3>3, <3>4, <3>5, ImprovementClosesCycle
    <3> QED
      BY <1>3, <3>6
  <2>7. v # Start
    <3>1. q[n] = Start /\ n \in 0..n
      BY <2>5 DEF WalkBack
    <3> QED
      BY <2>6, <3>1
  <2> HIDE DEF u, v
  <2>8. Start \notin DOMAIN prev' /\ dist'[Start] = 0
    BY <1>1, <2>2, <2>3, <2>7
  <2>9. ASSUME NEW k \in Nat, NEW p \in [0..k -> Reached], NEW t, WalkBack(p, k, t),
               \A i \in 0..k : p[i] # v
        PROVE  p \in [0..k -> Reached'] /\ WalkBack(p, k, t)'
    <3>1. p \in [0..k -> Reached']
      BY <2>3
    <3>2. ASSUME NEW i \in 0..(k - 1) PROVE p[i] # Start /\ p[i + 1] = prev'[p[i]].from
      <4>1. i \in 0..k /\ p[i] \in Reached
        OBVIOUS
      <4>2. p[i] # Start /\ p[i + 1] = prev[p[i]].from /\ p[i] \in DOMAIN prev /\ p[i] # v
        BY <1>1, <2>9, <4>1 DEF WalkBack
      <4>3. prev'[p[i]] = prev[p[i]]
        BY <2>2, <4>2
      <4> QED
        BY <4>2, <4>3
    <3> QED
      BY <2>9, <3>1, <3>2 DEF WalkBack
  <2>10. ASSUME NEW m \in Nat, NEW p \in [0..m -> Reached'], NEW t, p[0] = t, p[m] = v,
                \A i \in 0..(m - 1) : p[i] # Start /\ p[i] # v /\ p[i + 1] = prev[p[i]].from
         PROVE  \E k \in Nat : \E r \in [0..k -> Reached'] : WalkBack(r, k, t)'
    <3> DEFINE k == m + 1 + n
               r == [i \in 0..k |-> IF i <= m THEN p[i] ELSE q[i - m - 1]]
    <3>1. k \in Nat /\ 0 \in 0..k /\ m \in 0..k /\ k \in 0..k /\ ~(k <= m) /\ k - m - 1 = n
      OBVIOUS
    <3>2. r \in [0..k -> Reached']
      <4>1. ASSUME NEW i \in 0..k PROVE (IF i <= m THEN p[i] ELSE q[i - m - 1]) \in Reached'
        <5>1. CASE i <= m
          BY <5>1
        <5>2. CASE ~(i <= m)
          <6>1. i - m - 1 \in 0..n
            BY <5>2
          <6> QED
            BY <2>3, <5>2, <6>1
        <5> QED
          BY <5>1, <5>2
      <4> QED
        BY <4>1
    <3>3. r[0] = t /\ r[k] = Start
      <4>1. q[n] = Start
        BY <2>5 DEF WalkBack
      <4> QED
        BY <2>10, <3>1, <4>1
    <3>4. ASSUME NEW i \in 0..(k - 1) PROVE r[i] # Start /\ r[i + 1] = prev'[r[i]].from
      <4>1. CASE i < m
        <5>1. i \in 0..(m - 1) /\ i + 1 \in 0..m /\ r[i] = p[i] /\ r[i + 1] = p[i + 1] /\ i \in 0..m
          BY <4>1
        <5>2. p[i] # Start /\ p[i] # v /\ p[i + 1] = prev[p[i]].from /\ p[i] \in Reached'
          BY <2>10, <5>1
        <5>3. p[i] \in DOMAIN prev
          BY <1>1, <2>3, <5>2
        <5>4. prev'[p[i]] = prev[p[i]]
          BY <2>2, <5>2, <5>3
        <5> QED
          BY <5>1, <5>2, <5>4
      <4>2. CASE i = m
        <5>1. r[i] = v
          BY <2>10, <3>1, <4>2
        <5>2. r[i + 1] = q[0]
          <6>1. i + 1 \in 0..k /\ ~(i + 1 <= m) /\ (i + 1) - m - 1 = 0
            BY <4>2
          <6> QED
            BY <6>1
        <5>3. q[0] = u /\ prev'[v].from = u
          BY <2>3, <2>5 DEF WalkBack, u
        <5> QED
          BY <2>7, <5>1, <5>2, <5>3
      <4>3. CASE i > m
        <5> DEFINE j == i - m - 1
        <5>1. /\ j \in 0..(n - 1) /\ j \in 0..n /\ (i + 1) - m - 1 = j + 1
              /\ i \in 0..k /\ i + 1 \in 0..k /\ ~(i <= m) /\ ~(i + 1 <= m)
          BY <4>3
        <5>2. r[i] = q[j] /\ r[i + 1] = q[j + 1]
          <6>1. r[i + 1] = q[(i + 1) - m - 1]
            BY <5>1
          <6> QED
            BY <5>1, <6>1
        <5> HIDE DEF j, r
        <5>3. q[j] # Start /\ q[j + 1] = prev[q[j]].from /\ q[j] \in DOMAIN prev /\ q[j] # v
          BY <1>1, <2>5, <2>6, <5>1 DEF WalkBack
        <5>4. prev'[q[j]] = prev[q[j]]
          BY <2>2, <5>3
        <5> QED
          BY <5>2, <5>3, <5>4
      <4> QED
        BY <4>1, <4>2, <4>3
    <3> HIDE DEF k, r
    <3>5. WalkBack(r, k, t)'
      BY <3>2, <3>3, <3>4 DEF WalkBack
    <3> QED
      BY <3>1, <3>2, <3>5
  <2>11. ASSUME NEW t \in Reached'
         PROVE  \E k \in Nat : \E r \in [0..k -> Reached'] : WalkBack(r, k, t)'
    <3>1. CASE t \notin Reached
      <4> DEFINE p == [i \in 0..0 |-> v]
      <4>1. p \in [0..0 -> Reached'] /\ p[0] = t /\ p[0] = v /\ 0..(0 - 1) = {}
        BY <2>3, <3>1
      <4> HIDE DEF p
      <4>2. \A i \in 0..(0 - 1) : p[i] # Start /\ p[i] # v /\ p[i + 1] = prev[p[i]].from
        BY <4>1
      <4> QED
        BY <2>10, <4>1, <4>2
    <3>2. CASE t \in Reached
      <4>1. PICK k \in Nat : \E p \in [0..k -> Reached] : WalkBack(p, k, t)
        BY <3>2 DEF Rooted
      <4>2. PICK p \in [0..k -> Reached] : WalkBack(p, k, t)
        BY <4>1
      <4>3. CASE \A i \in 0..k : p[i] # v
        BY <2>9, <4>2, <4>3
      <4>4. CASE \E i \in 0..k : p[i] = v
        <5>1. PICK m \in 0..k : p[m] = v
          BY <4>4
        <5> DEFINE w == [i \in 0..m |-> p[i]]
        <5>2. m \in Nat /\ w \in [0..m -> Reached'] /\ w[0] = t /\ w[m] = v
          <6>1. \A i \in 0..m : i \in 0..k
            OBVIOUS
          <6> QED
            BY <2>3, <4>2, <5>1, <6>1 DEF WalkBack
        <5>3. ASSUME NEW i \in 0..(m - 1)
              PROVE  w[i] # Start /\ w[i] # v /\ w[i + 1] = prev[w[i]].from
          <6>1. /\ i \in 0..(k - 1) /\ i \in 0..k /\ i \in 0..m /\ i + 1 \in 0..m /\ i # m
            OBVIOUS
          <6>2. p[i] # p[m]
            BY <4>2, <6>1, WalkIsSimple
          <6>3. p[i] # Start /\ p[i + 1] = prev[p[i]].from
            BY <4>2, <6>1 DEF WalkBack
          <6> QED
            BY <5>1, <6>1, <6>2, <6>3
        <5> HIDE DEF w
        <5> QED
          BY <2>10, <5>2, <5>3
      <4> QED
        BY <4>3, <4>4
    <3> QED
      BY <3>1, <3>2
  <2> QED
    BY <2>8, <2>11 DEF Rooted
<1> QED
  BY <1>2, <1>3

LEMMA RootedInitially == Init => RootedUnlessNegative
<1> SUFFICES ASSUME Init PROVE Rooted
  BY DEF RootedUnlessNegative
<1> DEFINE p == [i \in 0..0 |-> Start]
<1>1. Reached = {Start} /\ dist[Start] = 0 /\ DOMAIN prev = {}
  BY DEF Init, Reached
<1>2. p \in [0..0 -> Reached] /\ p[0] = Start /\ 0..(0 - 1) = {}
  BY <1>1
<1> HIDE DEF p
<1>3. WalkBack(p, 0, Start)
  BY <1>2 DEF WalkBack
<1> QED
  BY <1>1, <1>2, <1>3 DEF Rooted

LEMMA RootedStep == SearchInv /\ RootedUnlessNegative /\ [Next]_vars => RootedUnlessNegative'
<1> SUFFICES ASSUME SearchInv, RootedUnlessNegative, [Next]_vars PROVE RootedUnlessNegative'
  OBVIOUS
<1>1. ASSUME UNCHANGED <<dist, prev>>, Rooted PROVE Rooted'
  <2>1. dist' = dist /\ prev' = prev /\ Reached' = Reached
    BY <1>1 DEF Reached
  <2>2. ASSUME NEW p, NEW n, NEW t PROVE WalkBack(p, n, t)' <=> WalkBack(p, n, t)
    BY <2>1 DEF WalkBack
  <2>3. ASSUME NEW t \in Reached
        PROVE  \E n \in Nat : \E p \in [0..n -> Reached'] : WalkBack(p, n, t)'
    <3>1. PICK n \in Nat : \E p \in [0..n -> Reached] : WalkBack(p, n, t)
      BY <1>1 DEF Rooted
    <3> QED
      BY <2>1, <2>2, <3>1
  <2> QED
    BY <1>1, <2>1, <2>3 DEF Rooted
<1>2. ASSUME UNCHANGED adj PROVE NegativeCycle' <=> NegativeCycle
  BY <1>2 DEF NegativeCycle, SimpleCyclesUpTo, GraphEdges
<1>3. CASE \E p \in Pools, r \in Rates : AddPool(p, r[1], r[2])
  <2>1. phase = "build" /\ UNCHANGED <<dist, prev>>
    BY <1>3 DEF AddPool
  <2> QED
    BY <1>1, <2>1 DEF RootedUnlessNegative
<1>4. CASE RelaxEdge
  <2>1. phase' = "relax" /\ Relax(Current) /\ UNCHANGED graphVars /\ UNCHANGED adj
    BY <1>4 DEF RelaxEdge, graphVars
  <2>2. Current \in GraphEdges
    <3>1. nodes \in Seq(Tokens) /\ ni \in DOMAIN nodes /\ phase = "relax" /\ ni <= Len(nodes)
      BY <1>4 DEF RelaxEdge, SearchInv, TypeOK
    <3>2. nodes[ni] \in Tokens /\ ei \in DOMAIN adj[nodes[ni]]
      BY <3>1 DEF SearchInv, TypeOK
    <3> QED
      BY <3>2 DEF Current, GraphEdges
  <2> QED
    BY <1>2, <2>1, <2>2, RelaxKeepsTree DEF RootedUnlessNegative
<1>5. CASE FindCycles \/ EndRound \/ Close
  <2>1. UNCHANGED <<dist, prev>> /\ UNCHANGED adj /\ phase' # "build"
    BY <1>5 DEF FindCycles, EndRound, Close, graphVars
  <2> QED
    BY <1>1, <1>2, <2>1 DEF RootedUnlessNegative
<1>6. CASE UNCHANGED vars
  <2>1. UNCHANGED <<dist, prev>> /\ UNCHANGED adj /\ phase' = phase
    BY <1>6 DEF vars, graphVars
  <2> QED
    BY <1>1, <1>2, <2>1 DEF RootedUnlessNegative
<1> QED
  BY <1>3, <1>4, <1>5, <1>6 DEF Next

\* A candidate is itself a negative cycle while the predecessors form a tree.
LEMMA CandidateIsNegative ==
  ASSUME SearchInv, Rooted, NEW c \in Candidates
  PROVE  NegativeCycle
<1>1. PICK t \in Reached \ {Start} : \E e \in ClosingEdges(t) : Below(Total(t, e))
  BY DEF Candidates
<1>2. PICK e \in ClosingEdges(t) : Below(Total(t, e))
  BY <1>1
<1>3. /\ t \in Tokens /\ e \in {adj[t][i] : i \in DOMAIN adj[t]} /\ e.to = Start
      /\ dist \in [Reached -> Int] /\ dist[Start] = 0
      /\ Reached \ {Start} \subseteq DOMAIN prev
  BY DEF SearchInv, TypeOK, ClosingEdges, PrevConsistent, Rooted
<1>4. e \in GraphEdges /\ e.from = t /\ e.weight \in Int
  BY <1>3, GraphEdgeFacts
<1>5. PICK n \in Nat : \E p \in [0..n -> Reached] : WalkBack(p, n, t)
  BY <1>1 DEF Rooted
<1>6. PICK p \in [0..n -> Reached] : WalkBack(p, n, t)
  BY <1>5
<1>7. p[0] = t /\ p[n] = Start /\ n \in Nat \ {0}
  BY <1>6 DEF WalkBack
<1>8. \A i \in 0..(n - 1) : p[i] \in DOMAIN prev /\ p[i + 1] = prev[p[i]].from
  <2> SUFFICES ASSUME NEW i \in 0..(n - 1)
               PROVE  p[i] \in DOMAIN prev /\ p[i + 1] = prev[p[i]].from
    OBVIOUS
  <2>1. i \in 0..n
    OBVIOUS
  <2>2. p[i] \in Reached /\ p[i] # Start /\ p[i + 1] = prev[p[i]].from
    BY <1>6, <2>1 DEF WalkBack
  <2> QED
    BY <1>3, <2>2
<1>9. \A i, j \in 0..n : p[i] = p[j] => i = j
  BY <1>6, WalkIsSimple
<1>10. dist[p[0]] + e.weight < dist[p[n]]
  <2>1. dist[t] + e.weight < -MinLogProfit /\ MinLogProfit \in Nat
    BY <1>2, SearchAssumption DEF Below, Total
  <2>2. dist[t] \in Int
    BY <1>3
  <2> QED
    BY <1>3, <1>4, <1>7, <2>1, <2>2
<1>11. e.from = p[0] /\ e.to = p[n] /\ e \in GraphEdges
  BY <1>3, <1>4, <1>7
<1> QED
  BY <1>7, <1>8, <1>9, <1>10, <1>11, ImprovementClosesCycle

\* Only a graph with a simple cycle of negative weight, and so a market with a
\* profitable one, has a cycle returned: for every graph, start token, number of hops and
\* threshold, however the relaxation in place orders the improvements
\* (graph.rs:89-147, test no_cycle_when_unprofitable).
THEOREM NoProfitNoCycle == Spec => []NothingWithoutProfit
<1>1. SearchInv /\ RootedUnlessNegative => NothingWithoutProfit
  <2> SUFFICES ASSUME SearchInv, RootedUnlessNegative, phase = "done", NEW c \in cycles
               PROVE  NegativeCycle
    BY DEF NothingWithoutProfit, NegativeCycle
  <2>1. c \in Candidates
    BY DEF SearchInv, ResultsAreCandidates
  <2> QED
    BY <2>1, CandidateIsNegative DEF RootedUnlessNegative
<1>2. Spec => []RootedUnlessNegative
  BY RootedInitially, RootedStep, SearchInvariant, PTL DEF Spec
<1> QED
  BY <1>1, <1>2, SearchInvariant, PTL
=============================================================================
