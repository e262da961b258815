---------------------------- MODULE PlanningProofs ----------------------------
(***************************************************************************)
(* Theorems about RoutePlanning, for every graph, every distance that      *)
(* keeps the triangle inequality and every query, and about                *)
(* TopologyExtraction, for every grid and every inflation.                 *)
(*                                                                         *)
(* A node is open while the queue still has it at its least cost, and      *)
(* closed after.  Lines never longer than the edges make every closed node *)
(* final: what it cost, with the heuristic, is no more than anything that  *)
(* is still in the queue (Settled), so that nothing found later improves   *)
(* on it, and it has passed its cost on over every edge (Relaxed).  The    *)
(* way back leads over closed nodes (Linked), of which there are always    *)
(* more than the way has edges (Rooted).  A way that is cheaper than what  *)
(* is known of its end would have to leave the closed nodes over one that  *)
(* is open and comes before the end in the queue (WaysAreKnown).           *)
(*                                                                         *)
(* Of the extraction, passages are what matters: cells with two neighbours *)
(* and no diagonal step.  A trace that has come into one has its way on,   *)
(* so that it is lost only among the corners of four free cells, where     *)
(* nodes have direct edges (TracingInv).  The free cells that belong to    *)
(* nodes joined by edges are then left by no step (NoStepLeaves).          *)
(***************************************************************************)
EXTENDS RoutePlanning, TopologyExtraction, FiniteSetTheorems, SequenceTheorems, WellFoundedInduction, TLAPS

LEMMA LeastNumber ==
    ASSUME NEW T \in SUBSET Nat, T # {}
    PROVE  \E x \in T : \A y \in T : x <= y
<1>1. PICK x \in T : \A y \in T : ~(<<y, x>> \in OpToRel(<, Nat))
  BY NatLessThanWellFounded, WFMin
<1>2. \A y \in T : ~(y < x)
  BY <1>1 DEF OpToRel
<1>3. \A y \in T : y \in Nat
  OBVIOUS
<1> QED
  BY <1>2, <1>3

-----------------------------------------------------------------------------
(* A search in progress.                                                   *)

(* A node is open while the queue still has it at its least cost.          *)
Opened(n) == \E q \in queue : q[3] = n /\ q[2] = best[n]
Closed == {n \in DOMAIN best : ~Opened(n)}

SearchTypes ==
    /\ query \in Queries /\ graph \in Overlays
    /\ best \in [DOMAIN best -> Nat] /\ DOMAIN best \subseteq NodeIds
    /\ query.start \in DOMAIN best /\ best[query.start] = 0
    /\ DOMAIN previous = DOMAIN best \ {query.start}
    /\ queue \in SUBSET (Nat \X Nat \X NodeIds)

Queued ==
    \A q \in queue :
        /\ q[3] \in DOMAIN best /\ best[q[3]] <= q[2]
        /\ queue = {<<0, 0, query.start>>} \/ q[1] = q[2] + Heuristic(q[3])

(* What is closed was not dearer than anything that is still in the queue. *)
Settled == \A n \in Closed, q \in queue : best[n] + Heuristic(n) <= q[1]

(* What is closed has passed its cost on.                                  *)
Relaxed ==
    \A n \in Closed : \A e \in From(n) :
        Passable(e) => /\ Across(e, n) \in DOMAIN best
                       /\ best[Across(e, n)] <= best[n] + EdgeCost(e)

(* The way back leads over closed nodes, and the costs add up along it.    *)
Linked ==
    \A n \in DOMAIN best \ {query.start} :
        /\ previous[n].node \in Closed
        /\ previous[n].edge \in From(previous[n].node) /\ Passable(previous[n].edge)
        /\ Across(previous[n].edge, previous[n].node) = n
        /\ best[n] = best[previous[n].node] + EdgeCost(previous[n].edge)

(* And it ends: no way back is longer than there are closed nodes.         *)
IsBack(back) ==
    back = [n \in DOMAIN best |->
               IF n = query.start THEN <<>>
               ELSE Append(back[previous[n].node], previous[n].edge)]

Rooted ==
    \E back :
        /\ IsBack(back)
        /\ \A n \in DOMAIN best :
              /\ back[n] \in Seq(EdgeIds)
              /\ Len(back[n]) <= Cardinality(Closed)
              /\ n \in Closed => Len(back[n]) < Cardinality(Closed)

Searching == SearchTypes /\ Queued /\ Settled /\ Relaxed /\ Linked /\ Rooted

(* The heuristic is consistent with the cost of every edge.                *)
LEMMA GraphFacts ==
    ASSUME SearchTypes
    PROVE  /\ EdgeIds \in SUBSET Nat /\ NodeIds \in SUBSET Nat /\ IsFiniteSet(NodeIds)
           /\ query.kind \in {"ASTAR", "DIJKSTRA", "TREE"}
           /\ query.start \in NodeIds /\ query.goal \in NodeIds
           /\ \A n \in NodeIds : Heuristic(n) \in Nat
           /\ \A n \in NodeIds : \A e \in From(n) :
                 /\ e \in EdgeIds /\ Across(e, n) \in NodeIds /\ EdgeCost(e) \in Nat
                 /\ Heuristic(n) <= EdgeCost(e) + Heuristic(Across(e, n))
<1>1. query \in QueryType
  BY RouteAssumption DEF SearchTypes
<1>2. query.kind \in {"ASTAR", "DIJKSTRA", "TREE"} /\ query.start \in NodeIds /\ query.goal \in NodeIds
  BY <1>1 DEF QueryType
<1>3. \A n \in NodeIds : Heuristic(n) \in Nat
  BY <1>2, RouteAssumption DEF Heuristic
<1>4. ASSUME NEW n \in NodeIds, NEW e \in From(n)
      PROVE  /\ e \in EdgeIds /\ Across(e, n) \in NodeIds /\ EdgeCost(e) \in Nat
             /\ Heuristic(n) <= EdgeCost(e) + Heuristic(Across(e, n))
  <2>1. e \in EdgeIds /\ n \in {Ends[e][1], Ends[e][2]}
    BY DEF From
  <2>2. Ends[e] \in NodeIds \X NodeIds
    BY <2>1, RouteAssumption DEF EdgeIds
  <2>3. Ends[e][1] \in NodeIds /\ Ends[e][2] \in NodeIds
    BY <2>2
  <2>4. Across(e, n) \in NodeIds /\ {n, Across(e, n)} = {Ends[e][1], Ends[e][2]}
    BY <2>1, <2>3 DEF Across
  <2>5. Crow(e) = Distance[<<n, Across(e, n)>>] /\ Crow(e) \in Nat
    <3>1. \/ n = Ends[e][1] /\ Across(e, n) = Ends[e][2]
          \/ n = Ends[e][2] /\ Across(e, n) = Ends[e][1]
      BY <2>1 DEF Across
    <3>2. Distance[<<Ends[e][1], Ends[e][2]>>] = Distance[<<Ends[e][2], Ends[e][1]>>]
      BY <2>3, RouteAssumption
    <3>3. Distance[<<Ends[e][1], Ends[e][2]>>] \in Nat
      BY <2>3, RouteAssumption
    <3> QED
      BY <2>2, <3>1, <3>2, <3>3 DEF Crow
  <2>6. graph[e] \in EdgeViewType
    BY <2>1, RouteAssumption DEF SearchTypes
  <2>7. graph[e].extra \in Nat /\ graph[e].charge \in Nat
    BY <2>6 DEF EdgeViewType
  <2>8. EdgeCost(e) \in Nat /\ Crow(e) <= EdgeCost(e)
    BY <2>5, <2>7 DEF EdgeCost, Metric
  <2>9. Heuristic(n) <= EdgeCost(e) + Heuristic(Across(e, n))
    <3>1. CASE query.kind = "ASTAR"
      <4> DEFINE m == Across(e, n)
                 a == Distance[<<n, query.goal>>]  b == Distance[<<n, m>>]  d == Distance[<<m, query.goal>>]
      <4>1. a <= b + d /\ a \in Nat /\ b \in Nat /\ d \in Nat
        BY <1>2, <2>4, RouteAssumption
      <4>2. Heuristic(n) = a /\ Heuristic(m) = d /\ b <= EdgeCost(e)
        BY <2>5, <2>8, <3>1 DEF Heuristic
      <4> HIDE DEF a, b, d
      <4> QED
        BY <2>8, <4>1, <4>2
    <3>2. CASE query.kind # "ASTAR"
      BY <2>8, <3>2 DEF Heuristic
    <3> QED
      BY <3>1, <3>2
  <2> QED
    BY <2>1, <2>4, <2>8, <2>9
<1>5. EdgeIds \in SUBSET Nat
  <2>1. Len(Ends) \in Nat
    BY RouteAssumption
  <2> QED
    BY <2>1 DEF EdgeIds
<1> QED
  BY <1>2, <1>3, <1>4, <1>5, RouteAssumption

(* heapq.heappop gives the least entry.                                    *)
LEMMA TopIs ==
    ASSUME SearchTypes, queue # {}
    PROVE  Top \in queue /\ \A q \in queue : Top[1] <= q[1]
<1>1. \A q \in queue : q[1] \in Nat /\ q[2] \in Nat /\ q[3] \in Nat
  <2> SUFFICES ASSUME NEW q \in queue PROVE q[1] \in Nat /\ q[2] \in Nat /\ q[3] \in Nat
    OBVIOUS
  <2>1. q \in Nat \X Nat \X NodeIds /\ NodeIds \subseteq Nat
    BY RouteAssumption DEF SearchTypes
  <2> QED
    BY <2>1
<1>2. PICK a \in {q[1] : q \in queue} : \A y \in {q[1] : q \in queue} : a <= y
  <2>1. {q[1] : q \in queue} \in SUBSET Nat /\ {q[1] : q \in queue} # {}
    BY <1>1
  <2> QED
    BY <2>1, LeastNumber
<1> DEFINE A == {q \in queue : q[1] = a}
<1>3. PICK b \in {q[2] : q \in A} : \A y \in {q[2] : q \in A} : b <= y
  <2>1. {q[2] : q \in A} \in SUBSET Nat /\ {q[2] : q \in A} # {}
    BY <1>1, <1>2
  <2> QED
    BY <2>1, LeastNumber
<1> DEFINE B == {q \in A : q[2] = b}
<1>4. PICK d \in {q[3] : q \in B} : \A y \in {q[3] : q \in B} : d <= y
  <2>1. {q[3] : q \in B} \in SUBSET Nat /\ {q[3] : q \in B} # {}
    BY <1>1, <1>3
  <2> QED
    BY <2>1, LeastNumber
<1>5. PICK p \in B : p[3] = d
  BY <1>4
<1>6. p \in queue /\ p[1] = a /\ p[2] = b /\ p[3] = d
  BY <1>5
<1>7. \A q \in queue : Sooner(p, q)
  <2> SUFFICES ASSUME NEW q \in queue PROVE Sooner(p, q)
    OBVIOUS
  <2>1. a <= q[1] /\ (q[1] = a => b <= q[2]) /\ (q[1] = a /\ q[2] = b => d <= q[3])
    BY <1>2, <1>3, <1>4
  <2> QED
    BY <1>1, <1>6, <2>1 DEF Sooner
<1>8. Top \in queue /\ \A q \in queue : Sooner(Top, q)
  BY <1>6, <1>7 DEF Top
<1> QED
  BY <1>1, <1>8 DEF Sooner

(* Of the edges to a node, one of the cheapest is kept, if any improves.   *)
LEMMA SomeImproves ==
    ASSUME SearchTypes, NEW n \in NodeIds, NEW c \in Nat, NEW f \in From(n), Passable(f),
           Across(f, n) \in DOMAIN best => Candidate(c, f) < best[Across(f, n)]
    PROVE  \E g \in From(n) : /\ Across(g, n) = Across(f, n) /\ Improves(n, c, g)
                              /\ EdgeCost(g) <= EdgeCost(f)
<1> DEFINE m == Across(f, n)
           F == {e \in From(n) : Across(e, n) = m /\ Passable(e)}
           G(x) == {e \in F : EdgeCost(e) = x}
<1>1. \A e \in F : e \in Nat /\ EdgeCost(e) \in Nat
  BY GraphFacts
<1>2. PICK x \in {EdgeCost(e) : e \in F} : \A y \in {EdgeCost(e) : e \in F} : x <= y
  <2>1. {EdgeCost(e) : e \in F} \in SUBSET Nat /\ {EdgeCost(e) : e \in F} # {}
    BY <1>1
  <2> QED
    BY <2>1, LeastNumber
<1>3. PICK g \in G(x) : \A y \in G(x) : g <= y
  <2>1. G(x) \in SUBSET Nat /\ G(x) # {}
    BY <1>1, <1>2
  <2> QED
    BY <2>1, LeastNumber
<1>4. /\ g \in From(n) /\ Across(g, n) = m /\ Passable(g) /\ g \in Nat
      /\ EdgeCost(g) \in Nat /\ \A e \in F : EdgeCost(g) <= EdgeCost(e)
      /\ \A e \in F : e < g => EdgeCost(g) < EdgeCost(e)
  <2>1. g \in F /\ EdgeCost(g) = x
    BY <1>3
  <2>2. \A e \in F : x <= EdgeCost(e)
    BY <1>2
  <2>3. \A e \in F : EdgeCost(e) = x => g <= e
    BY <1>3
  <2> HIDE DEF F, G
  <2>4. \A e \in F : e < g => EdgeCost(g) < EdgeCost(e)
    BY <1>1, <2>1, <2>2, <2>3
  <2> QED
    BY <1>1, <2>1, <2>2, <2>4 DEF F
<1>5. f \in F /\ EdgeCost(f) \in Nat /\ (m \in DOMAIN best => best[m] \in Nat)
  BY <1>1 DEF SearchTypes
<1>6. m \in DOMAIN best => Candidate(c, g) < best[m]
  BY <1>4, <1>5 DEF Candidate
<1>7. Improves(n, c, g)
  BY <1>4, <1>6 DEF Improves
<1> QED
  BY <1>4, <1>5, <1>7

(* What becomes of the node at the other end of an edge.                   *)
LEMMA KeptIs ==
    ASSUME SearchTypes, NEW n \in NodeIds, NEW c \in Nat,
           NEW e \in Improving(n, c)
    PROVE  \E k \in Kept(n, c) :
              /\ Across(k, n) = Across(e, n)
              /\ \A j \in Kept(n, c) : Across(j, n) = Across(e, n) => j = k
              /\ \A f \in From(n) :
                    Across(f, n) = Across(e, n) /\ Passable(f) => EdgeCost(k) <= EdgeCost(f)
<1> DEFINE m == Across(e, n)
           F == {f \in Improving(n, c) : Across(f, n) = m}
<1>1. \A f \in From(n) : f \in Nat /\ f \in EdgeIds /\ EdgeCost(f) \in Nat
  BY GraphFacts
<1>2. \A f \in F : f \in From(n) /\ Improves(n, c, f) /\ f <= Len(Ends) /\ f \in Nat /\ Len(Ends) \in Nat
  BY <1>1, RouteAssumption DEF EdgeIds, Improving
<1>3. PICK x \in {Len(Ends) - f : f \in F} : \A y \in {Len(Ends) - f : f \in F} : x <= y
  <2>1. {Len(Ends) - f : f \in F} \in SUBSET Nat /\ {Len(Ends) - f : f \in F} # {}
    BY <1>2
  <2> QED
    BY <2>1, LeastNumber
<1>4. PICK k \in F : x = Len(Ends) - k
  BY <1>3
<1>5. \A f \in F : f <= k
  <2> SUFFICES ASSUME NEW f \in F PROVE f <= k
    OBVIOUS
  <2>1. Len(Ends) - k <= Len(Ends) - f
    BY <1>3, <1>4
  <2> QED
    BY <1>2, <2>1
<1>6. k \in Kept(n, c) /\ Across(k, n) = m /\ k \in Improving(n, c)
  BY <1>4, <1>5 DEF Kept
<1>7. ASSUME NEW j \in Kept(n, c), Across(j, n) = m PROVE j = k
  <2>1. j \in F /\ k <= j
    BY <1>6, <1>7 DEF Kept
  <2>2. j <= k
    BY <1>5, <2>1
  <2> QED
    BY <1>2, <2>1, <2>2
<1>8. ASSUME NEW f \in From(n), Across(f, n) = m, Passable(f) PROVE EdgeCost(k) <= EdgeCost(f)
  <2> SUFFICES ASSUME ~(EdgeCost(k) <= EdgeCost(f)) PROVE FALSE
    OBVIOUS
  <2>1. k \in From(n) /\ Improves(n, c, k)
    BY <1>2, <1>4
  <2>2. EdgeCost(f) < EdgeCost(k) /\ EdgeCost(f) \in Nat /\ EdgeCost(k) \in Nat
    BY <1>1, <2>1
  <2>3. m \in DOMAIN best => Candidate(c, f) < best[m]
    <3>1. m \in DOMAIN best => Candidate(c, k) < best[m] /\ best[m] \in Nat
      BY <1>6, <2>1 DEF Improves, SearchTypes
    <3> QED
      BY <2>2, <3>1 DEF Candidate
  <2>4. PICK g \in From(n) : /\ Across(g, n) = m /\ Improves(n, c, g)
                             /\ EdgeCost(g) <= EdgeCost(f)
    BY <1>8, <2>3, SomeImproves
  <2>5. g \in F /\ Passable(g)
    BY <2>4 DEF Improves, Improving
  <2>6. g <= k /\ g \in Nat /\ k \in Nat /\ EdgeCost(g) \in Nat /\ EdgeCost(g) < EdgeCost(k)
    BY <1>1, <1>2, <1>5, <2>2, <2>4, <2>5
  <2>7. g < k
    BY <2>6
  <2>8. EdgeCost(k) < EdgeCost(g)
    BY <1>6, <2>1, <2>4, <2>5, <2>7 DEF Improves
  <2> QED
    BY <2>2, <2>6, <2>8
<1> QED
  BY <1>6, <1>7, <1>8

-----------------------------------------------------------------------------
(* The steps.                                                              *)

LEMMA ClosedFacts ==
    ASSUME SearchTypes
    PROVE  Closed \in SUBSET NodeIds /\ IsFiniteSet(Closed) /\ Cardinality(Closed) \in Nat
<1>1. Closed \in SUBSET NodeIds
  BY DEF Closed, SearchTypes
<1> QED
  BY <1>1, GraphFacts, FS_Subset, FS_CardinalityType

(* Nothing is lost by a step that leaves the search alone.                 *)
LEMMA SearchStays ==
    ASSUME Searching, query' = query, graph' = graph, queue' = queue, best' = best,
           previous' = previous
    PROVE  Searching'
<1>1. \A e : /\ Passable(e)' = Passable(e) /\ EdgeCost(e)' = EdgeCost(e)
             /\ Heuristic(e)' = Heuristic(e) /\ Opened(e)' = Opened(e)
  BY DEF Passable, EdgeCost, Metric, Heuristic, Opened
<1>2. Closed' = Closed
  BY <1>1 DEF Closed
<1>3. SearchTypes' /\ Queued'
  BY <1>1 DEF Searching, SearchTypes, Queued
<1>4. Settled' /\ Relaxed' /\ Linked'
  BY <1>1, <1>2 DEF Searching, Settled, Relaxed, Linked
<1>5. Rooted'
  BY <1>2 DEF Searching, Rooted, IsBack
<1> QED
  BY <1>3, <1>4, <1>5 DEF Searching

(* A question starts with one open node.                                   *)
LEMMA AskInv ==
    ASSUME Ask
    PROVE  Searching'
<1>0. PICK s : s = query'.start
  OBVIOUS
<1>1. /\ query' \in Queries /\ graph' \in Overlays
      /\ queue' = {<<0, 0, s>>} /\ best' = [n \in {s} |-> 0] /\ previous' = <<>>
  BY <1>0 DEF Ask
<1>2. s \in NodeIds
  BY <1>0, <1>1, RouteAssumption DEF QueryType
<1>3. DOMAIN best' = {s} /\ best'[s] = 0 /\ DOMAIN previous' = {}
  BY <1>1
<1>4. SearchTypes'
  BY <1>0, <1>1, <1>2, <1>3 DEF SearchTypes
<1>5. Queued'
  BY <1>0, <1>1, <1>3 DEF Queued
<1>6. Closed' = {}
  BY <1>1, <1>3 DEF Closed, Opened
<1>7. Settled' /\ Relaxed' /\ Linked'
  BY <1>0, <1>3, <1>6 DEF Settled, Relaxed, Linked
<1>8. Rooted'
  <2> DEFINE back == [n \in {s} |-> <<>>]
  <2>1. IsBack(back)'
    BY <1>0, <1>3 DEF IsBack
  <2>2. back[s] \in Seq(EdgeIds) /\ Len(back[s]) = 0
    OBVIOUS
  <2>3. Cardinality(Closed') = 0
    BY <1>6, FS_EmptySet
  <2> HIDE DEF back
  <2> QED
    BY <1>3, <1>6, <2>1, <2>2, <2>3 DEF Rooted
<1> QED
  BY <1>4, <1>5, <1>7, <1>8 DEF Searching

(* An entry that is out of date says nothing of its node.                  *)
LEMMA DropInv ==
    ASSUME Searching, DropStale
    PROVE  Searching'
<1>1. /\ queue # {} /\ queue' = queue \ {Top} /\ best[Top[3]] < Top[2]
      /\ query' = query /\ graph' = graph /\ best' = best /\ previous' = previous
  <2>1. Top \in queue
    BY TopIs DEF DropStale, Searching
  <2>2. Top[2] \in Nat /\ best[Top[3]] \in Nat
    BY <2>1 DEF Searching, SearchTypes, Queued
  <2> QED
    BY <2>2 DEF DropStale, Outdated
<1>2. \A n : Opened(n)' <=> Opened(n)
  <2>1. \A q \in queue : q[2] = best[q[3]] => q # Top
    <3>1. Top \in queue
      BY <1>1, TopIs DEF Searching
    <3>2. Top[2] \in Nat /\ best[Top[3]] \in Nat
      BY <3>1 DEF Searching, SearchTypes, Queued
    <3> QED
      BY <1>1, <3>2
  <2> QED
    BY <1>1, <2>1 DEF Opened
<1>3. Closed' = Closed
  BY <1>1, <1>2 DEF Closed
<1>4. \A e : /\ Passable(e)' = Passable(e) /\ EdgeCost(e)' = EdgeCost(e)
             /\ Heuristic(e)' = Heuristic(e)
  BY <1>1 DEF Passable, EdgeCost, Metric, Heuristic
<1>5. SearchTypes'
  BY <1>1 DEF Searching, SearchTypes
<1>6. Queued'
  <2>1. queue # {<<0, 0, query.start>>}
    <3> SUFFICES ASSUME queue = {<<0, 0, query.start>>} PROVE FALSE
      OBVIOUS
    <3>1. Top = <<0, 0, query.start>>
      BY TopIs DEF Searching
    <3> QED
      BY <1>1, <3>1 DEF Searching, SearchTypes
  <2>2. \A q \in queue : q[1] = q[2] + Heuristic(q[3]) /\ q[3] \in DOMAIN best /\ best[q[3]] <= q[2]
    BY <2>1 DEF Searching, Queued
  <2> QED
    BY <1>1, <1>4, <2>2 DEF Queued
<1>7. Settled' /\ Relaxed' /\ Linked'
  BY <1>1, <1>3, <1>4 DEF Searching, Settled, Relaxed, Linked
<1>8. Rooted'
  BY <1>1, <1>3 DEF Searching, Rooted, IsBack
<1> QED
  BY <1>5, <1>6, <1>7, <1>8 DEF Searching

(* What an expansion makes of the nodes.                                   *)
Found(n, c) == {Across(e, n) : e \in Improving(n, c)}

Added(n, c) ==
    {<<c + EdgeCost(e) + Heuristic(Across(e, n)), c + EdgeCost(e), Across(e, n)>> :
        e \in Improving(n, c)}

Expanded(n, c) ==
    /\ n \in DOMAIN best \ Closed /\ c = best[n] /\ Top \in queue
    /\ DOMAIN best' = DOMAIN best \cup Found(n, c)
    /\ DOMAIN previous' = DOMAIN previous \cup Found(n, c)
    /\ \A m \in DOMAIN best \ Found(n, c) : best'[m] = best[m]
    /\ \A m \in DOMAIN previous \ Found(n, c) : previous'[m] = previous[m]
    /\ \A m \in Found(n, c) : \E e \in Improving(n, c) :
          /\ Across(e, n) = m /\ best'[m] = c + EdgeCost(e)
          /\ previous'[m] = [node |-> n, edge |-> e]
          /\ \A f \in From(n) :
                Across(f, n) = m /\ Passable(f) => EdgeCost(e) <= EdgeCost(f)
    /\ queue' = (queue \ {Top}) \cup Added(n, c)
    /\ query' = query /\ graph' = graph

LEMMA ExpansionIs ==
    ASSUME Searching, Expand, answer' = answer, NEW n, NEW c, n = Top[3], c = Top[2]
    PROVE  Expanded(n, c)
<1> DEFINE Over(m) == CHOOSE e \in Kept(n, c) : Across(e, n) = m
           found == {Across(e, n) : e \in Kept(n, c)}
<1>1. /\ Top \in queue /\ n \in DOMAIN best /\ c = best[n] /\ n \notin Closed
      /\ n \in NodeIds /\ c \in Nat
  <2>1. Top \in queue
    BY TopIs DEF Expand, Searching
  <2>2. n \in DOMAIN best /\ best[n] <= c /\ c \in Nat /\ best[n] \in Nat /\ ~(c > best[n])
    BY <2>1 DEF Searching, SearchTypes, Queued, Expand, Outdated
  <2>3. c = best[n]
    BY <2>2
  <2> QED
    BY <2>1, <2>2, <2>3 DEF Closed, Opened, Searching, SearchTypes
<1>2. /\ best' = [m \in DOMAIN best \cup found |->
                     IF m \in found THEN Candidate(c, Over(m)) ELSE best[m]]
      /\ previous' = [m \in DOMAIN previous \cup found |->
                         IF m \in found THEN [node |-> n, edge |-> Over(m)] ELSE previous[m]]
      /\ queue' = (queue \ {Top}) \cup
             {<<Candidate(c, e) + Heuristic(Across(e, n)), Candidate(c, e), Across(e, n)>> :
                  e \in Improving(n, c)}
      /\ query' = query /\ graph' = graph
  <2>1. answer = Pending /\ Pending # Raised
    BY DEF Expand, Pending, Raised
  <2> QED
    BY <2>1 DEF Expand
<1>3. SearchTypes
  BY DEF Searching
<1>4. \A e \in Improving(n, c) : \E k \in Kept(n, c) :
              /\ Across(k, n) = Across(e, n)
              /\ \A j \in Kept(n, c) : Across(j, n) = Across(e, n) => j = k
              /\ \A f \in From(n) :
                    Across(f, n) = Across(e, n) /\ Passable(f) => EdgeCost(k) <= EdgeCost(f)
  BY <1>1, <1>3, KeptIs
<1>5. \A e \in Kept(n, c) : e \in Improving(n, c)
  BY DEF Kept
<1>6. found = Found(n, c)
  BY <1>4, <1>5 DEF Found
<1>7. ASSUME NEW m \in Found(n, c)
      PROVE  /\ Over(m) \in Improving(n, c) /\ Across(Over(m), n) = m
             /\ \A f \in From(n) :
                   Across(f, n) = m /\ Passable(f) => EdgeCost(Over(m)) <= EdgeCost(f)
  <2>1. PICK e \in Improving(n, c) : Across(e, n) = m
    BY <1>7 DEF Found
  <2>2. PICK k \in Kept(n, c) :
              /\ Across(k, n) = m
              /\ \A j \in Kept(n, c) : Across(j, n) = m => j = k
              /\ \A f \in From(n) :
                    Across(f, n) = m /\ Passable(f) => EdgeCost(k) <= EdgeCost(f)
    BY <1>4, <2>1
  <2>3. Over(m) \in Kept(n, c) /\ Across(Over(m), n) = m
    BY <2>2
  <2>4. Over(m) = k
    BY <2>2, <2>3
  <2> HIDE DEF Over
  <2> QED
    BY <1>5, <2>2, <2>4
<1> HIDE DEF found, Over
<1>8. /\ DOMAIN best' = DOMAIN best \cup Found(n, c)
      /\ \A m \in Found(n, c) : best'[m] = c + EdgeCost(Over(m))
      /\ \A m \in DOMAIN best \ Found(n, c) : best'[m] = best[m]
  BY <1>2, <1>6 DEF Candidate
<1>9. /\ DOMAIN previous' = DOMAIN previous \cup Found(n, c)
      /\ \A m \in Found(n, c) : previous'[m] = [node |-> n, edge |-> Over(m)]
      /\ \A m \in DOMAIN previous \ Found(n, c) : previous'[m] = previous[m]
  BY <1>2, <1>6
<1>10. queue' = (queue \ {Top}) \cup Added(n, c)
  BY <1>2 DEF Candidate, Added
<1> QED
  BY <1>1, <1>2, <1>7, <1>8, <1>9, <1>10 DEF Expanded

(* An expansion closes its node, and what it finds is open.                *)
LEMMA ExpandInv ==
    ASSUME Searching, Expand
    PROVE  Searching'
<1>1. CASE answer' # answer
  BY <1>1, SearchStays DEF Expand
<1>2. CASE answer' = answer
  <2>1. PICK n, c : n = Top[3] /\ c = Top[2]
    OBVIOUS
  <2>0. PICK added : added = Added(n, c)
    OBVIOUS
  <2>2. /\ n \in DOMAIN best \ Closed /\ c = best[n] /\ Top \in queue
        /\ DOMAIN best' = DOMAIN best \cup Found(n, c)
        /\ DOMAIN previous' = DOMAIN previous \cup Found(n, c)
        /\ \A m \in DOMAIN best \ Found(n, c) : best'[m] = best[m]
        /\ \A m \in DOMAIN previous \ Found(n, c) : previous'[m] = previous[m]
        /\ \A m \in Found(n, c) : \E e \in Improving(n, c) :
              /\ Across(e, n) = m /\ best'[m] = c + EdgeCost(e)
              /\ previous'[m] = [node |-> n, edge |-> e]
              /\ \A f \in From(n) :
                    Across(f, n) = m /\ Passable(f) => EdgeCost(e) <= EdgeCost(f)
        /\ queue' = (queue \ {Top}) \cup added
        /\ query' = query /\ graph' = graph
    <3>1. Expanded(n, c)
      BY <1>2, <2>1, ExpansionIs, Zenon
    <3> QED
      BY <2>0, <3>1 DEF Expanded
  <2>3. SearchTypes /\ Queued /\ Settled /\ Relaxed /\ Linked /\ Rooted
    BY DEF Searching
  <2>4. \A e : /\ Passable(e)' = Passable(e) /\ EdgeCost(e)' = EdgeCost(e)
               /\ Heuristic(e)' = Heuristic(e)
    BY <2>2 DEF Passable, EdgeCost, Metric, Heuristic
  <2>5. /\ n \in NodeIds /\ c \in Nat /\ Heuristic(n) \in Nat /\ best[query.start] = 0
        /\ \A m \in DOMAIN best : m \in NodeIds /\ best[m] \in Nat /\ Heuristic(m) \in Nat
        /\ \A q \in queue : q[1] \in Nat /\ q[2] \in Nat /\ q[3] \in DOMAIN best /\ best[q[3]] <= q[2]
    BY <2>2, <2>3, GraphFacts DEF SearchTypes, Queued
  <2>6. \A e \in Improving(n, c) :
           /\ e \in From(n) /\ Passable(e) /\ Across(e, n) \in NodeIds /\ EdgeCost(e) \in Nat
           /\ Heuristic(n) <= EdgeCost(e) + Heuristic(Across(e, n)) /\ Heuristic(Across(e, n)) \in Nat
           /\ Across(e, n) \in DOMAIN best => c + EdgeCost(e) < best[Across(e, n)]
    BY <2>3, <2>5, GraphFacts DEF Improving, Improves, Candidate
  <2>7. Top[1] <= c + Heuristic(n) /\ Top[1] \in Nat
    <3>1. CASE queue = {<<0, 0, query.start>>}
      <4>1. Top = <<0, 0, query.start>>
        BY <2>2, <3>1
      <4> QED
        BY <2>5, <4>1
    <3>2. CASE queue # {<<0, 0, query.start>>}
      <4>1. Top[1] = Top[2] + Heuristic(Top[3])
        BY <2>2, <2>3, <3>2 DEF Queued
      <4> QED
        BY <2>1, <2>5, <4>1
    <3> QED
      BY <3>1, <3>2
  <2>8. \A q \in queue \ {Top} : q[1] = q[2] + Heuristic(q[3]) /\ Top[1] = c + Heuristic(n)
    <3>1. CASE queue = {<<0, 0, query.start>>}
      BY <2>2, <3>1
    <3>2. CASE queue # {<<0, 0, query.start>>}
      BY <2>1, <2>2, <2>3, <3>2 DEF Queued
    <3> QED
      BY <3>1, <3>2
  <2>9. \A q \in queue : Top[1] <= q[1]
    BY <2>2, <2>3, TopIs
  <2>10. n \notin Found(n, c) /\ query.start \notin Found(n, c)
    <3>1. n \notin Found(n, c)
      <4> SUFFICES ASSUME NEW e \in Improving(n, c), Across(e, n) = n PROVE FALSE
        BY DEF Found
      <4> QED
        BY <2>2, <2>5, <2>6
    <3>2. query.start \notin Found(n, c)
      <4> SUFFICES ASSUME NEW e \in Improving(n, c), Across(e, n) = query.start PROVE FALSE
        BY DEF Found
      <4>1. query.start \in DOMAIN best
        BY <2>3 DEF SearchTypes
      <4> QED
        BY <2>5, <2>6, <4>1
    <3> QED
      BY <3>1, <3>2
  <2>11. \A x \in Closed : x \notin Found(n, c)
    <3> SUFFICES ASSUME NEW x \in Closed, NEW e \in Improving(n, c), Across(e, n) = x PROVE FALSE
      BY DEF Found
    <3>1. x \in DOMAIN best /\ best[x] + Heuristic(x) <= Top[1]
      BY <2>2, <2>3 DEF Settled, Closed
    <3>2. c + EdgeCost(e) < best[x] /\ EdgeCost(e) \in Nat /\ Heuristic(n) <= EdgeCost(e) + Heuristic(x)
      BY <2>6, <3>1
    <3> QED
      BY <2>5, <2>7, <3>1, <3>2
  <2>12. /\ \A m \in DOMAIN best' : best'[m] \in Nat /\ m \in NodeIds
         /\ \A m \in DOMAIN best : best'[m] <= best[m]
    <3>1. \A m \in Found(n, c) : best'[m] \in Nat /\ m \in NodeIds
      BY <2>2, <2>5, <2>6
    <3>2. \A m \in Found(n, c) : m \in DOMAIN best => best'[m] <= best[m]
      BY <2>2, <2>5, <2>6
    <3> QED
      BY <2>2, <2>5, <3>1, <3>2
  <2>13. \A q \in added : /\ q[1] = q[2] + Heuristic(q[3]) /\ q[3] \in Found(n, c)
                          /\ q[1] \in Nat /\ q[2] \in Nat /\ q[3] \in NodeIds
                          /\ best'[q[3]] <= q[2] /\ c + Heuristic(n) <= q[1]
                          /\ q \in Nat \X Nat \X NodeIds
    <3> SUFFICES ASSUME NEW e \in Improving(n, c),
                        NEW q, q = <<c + EdgeCost(e) + Heuristic(Across(e, n)), c + EdgeCost(e), Across(e, n)>>
                 PROVE  /\ q[1] = q[2] + Heuristic(q[3]) /\ q[3] \in Found(n, c)
                        /\ q[1] \in Nat /\ q[2] \in Nat /\ q[3] \in NodeIds
                        /\ best'[q[3]] <= q[2] /\ c + Heuristic(n) <= q[1]
                        /\ q \in Nat \X Nat \X NodeIds
      BY <2>0 DEF Added
    <3>1. q[1] = c + EdgeCost(e) + Heuristic(Across(e, n)) /\ q[2] = c + EdgeCost(e) /\ q[3] = Across(e, n)
      OBVIOUS
    <3>2. q[3] \in Found(n, c)
      BY <3>1 DEF Found
    <3>3. best'[q[3]] <= q[2]
      <4>1. PICK k \in Improving(n, c) :
              /\ best'[q[3]] = c + EdgeCost(k)
              /\ \A f \in From(n) :
                    Across(f, n) = q[3] /\ Passable(f) => EdgeCost(k) <= EdgeCost(f)
        BY <2>2, <3>2
      <4>2. EdgeCost(k) <= EdgeCost(e) /\ EdgeCost(k) \in Nat /\ EdgeCost(e) \in Nat
        BY <2>6, <3>1, <4>1
      <4> QED
        BY <2>5, <3>1, <4>1, <4>2
    <3>4. /\ EdgeCost(e) \in Nat /\ Heuristic(Across(e, n)) \in Nat /\ Across(e, n) \in NodeIds
          /\ Heuristic(n) <= EdgeCost(e) + Heuristic(Across(e, n))
      BY <2>6
    <3> QED
      BY <2>5, <3>1, <3>2, <3>3, <3>4
  <2>14. \A m \in Found(n, c) : \E q \in added : q[3] = m /\ q[2] = best'[m]
    <3> SUFFICES ASSUME NEW m \in Found(n, c) PROVE \E q \in added : q[3] = m /\ q[2] = best'[m]
      OBVIOUS
    <3>1. PICK e \in Improving(n, c) : Across(e, n) = m /\ best'[m] = c + EdgeCost(e)
      BY <2>2
    <3> DEFINE q == <<c + EdgeCost(e) + Heuristic(Across(e, n)), c + EdgeCost(e), Across(e, n)>>
    <3>2. q \in added /\ q[3] = m /\ q[2] = best'[m]
      BY <2>0, <3>1 DEF Added
    <3> QED
      BY <3>2
  <2>15. Closed' = Closed \cup {n}
    <3>1. ASSUME NEW m \in Closed' PROVE m \in Closed \cup {n}
      <4>1. m \in DOMAIN best' /\ \A q \in queue' : q[3] = m => q[2] # best'[m]
        BY <3>1 DEF Closed, Opened
      <4>2. m \notin Found(n, c)
        BY <2>2, <2>14, <4>1
      <4>3. m \in DOMAIN best /\ best'[m] = best[m]
        BY <2>2, <4>1, <4>2
      <4>4. CASE m # n
        BY <2>1, <2>2, <4>1, <4>3, <4>4 DEF Closed, Opened
      <4> QED
        BY <4>4
    <3>2. ASSUME NEW m \in Closed \cup {n} PROVE m \in Closed'
      <4>1. m \notin Found(n, c) /\ m \in DOMAIN best
        BY <2>2, <2>10, <2>11, <3>2 DEF Closed
      <4>2. best'[m] = best[m] /\ m \in DOMAIN best'
        BY <2>2, <4>1
      <4>3. ASSUME NEW q \in queue', q[3] = m, q[2] = best[m] PROVE FALSE
        <5>1. q \in queue \ {Top}
          BY <2>2, <2>13, <4>1, <4>3
        <5>2. CASE m = n
          <6>1. q[1] = Top[1] /\ q[2] = Top[2] /\ q[3] = Top[3]
            BY <2>1, <2>2, <2>8, <4>3, <5>1, <5>2
          <6>2. q \in Nat \X Nat \X NodeIds /\ Top \in Nat \X Nat \X NodeIds
            BY <2>2, <2>3, <5>1 DEF SearchTypes
          <6>3. q = Top
            BY <6>1, <6>2
          <6> QED
            BY <5>1, <6>3
        <5>3. CASE m # n
          BY <3>2, <4>3, <5>1, <5>3 DEF Closed, Opened
        <5> QED
          BY <5>2, <5>3
      <4> QED
        BY <4>2, <4>3 DEF Closed, Opened
    <3> QED
      BY <3>1, <3>2
  <2>16. SearchTypes'
    <3>1. best' \in [DOMAIN best' -> Nat] /\ DOMAIN best' \subseteq NodeIds
      <4>1. best' = [m \in DOMAIN best' |-> best'[m]]
        BY <1>2 DEF Expand, Pending, Raised
      <4> QED
        BY <2>12, <4>1
    <3>2. query.start \in DOMAIN best' /\ best'[query.start] = 0
      BY <2>2, <2>3, <2>10 DEF SearchTypes
    <3>3. DOMAIN previous' = DOMAIN best' \ {query.start}
      BY <2>2, <2>3, <2>10 DEF SearchTypes
    <3>4. queue' \in SUBSET (Nat \X Nat \X NodeIds)
      BY <2>2, <2>3, <2>13 DEF SearchTypes
    <3>5. query' \in Queries /\ graph' \in Overlays
      BY <2>2, <2>3 DEF SearchTypes
    <3> QED
      BY <2>2, <3>1, <3>2, <3>3, <3>4, <3>5 DEF SearchTypes
  <2>17. Queued'
    <3> SUFFICES ASSUME NEW q \in queue'
                 PROVE  /\ q[3] \in DOMAIN best' /\ best'[q[3]] <= q[2]
                        /\ q[1] = q[2] + Heuristic(q[3])'
      BY DEF Queued
    <3>1. CASE q \in added
      BY <2>2, <2>4, <2>13, <3>1
    <3>2. CASE q \in queue \ {Top}
      <4>1. q[3] \in DOMAIN best /\ best[q[3]] <= q[2] /\ q[2] \in Nat /\ best[q[3]] \in Nat
        BY <2>5, <3>2
      <4>2. best'[q[3]] <= best[q[3]] /\ best'[q[3]] \in Nat /\ q[3] \in DOMAIN best'
        BY <2>2, <2>12, <4>1
      <4> QED
        BY <2>4, <2>8, <3>2, <4>1, <4>2
    <3> QED
      BY <2>2, <3>1, <3>2
  <2>18. Settled'
    <3> SUFFICES ASSUME NEW x \in Closed \cup {n}, NEW q \in queue'
                 PROVE  best'[x] + Heuristic(x) <= q[1]
      BY <2>4, <2>15 DEF Settled
    <3>1. x \in DOMAIN best /\ best'[x] = best[x] /\ best[x] \in Nat /\ Heuristic(x) \in Nat
      BY <2>2, <2>5, <2>10, <2>11 DEF Closed
    <3>2. CASE x \in Closed
      <4>1. best[x] + Heuristic(x) <= Top[1]
        BY <2>2, <2>3, <3>2 DEF Settled
      <4>2. Top[1] <= q[1] /\ q[1] \in Nat
        BY <2>2, <2>5, <2>7, <2>9, <2>13
      <4> QED
        BY <2>7, <3>1, <4>1, <4>2
    <3>3. CASE x = n
      BY <2>2, <2>5, <2>8, <2>9, <2>13, <3>1, <3>3
    <3> QED
      BY <3>2, <3>3
  <2>19. Relaxed'
    <3> SUFFICES ASSUME NEW x \in Closed \cup {n}, NEW e \in From(x), Passable(e)
                 PROVE  /\ Across(e, x) \in DOMAIN best'
                        /\ best'[Across(e, x)] <= best'[x] + EdgeCost(e)
      BY <2>4, <2>15 DEF Relaxed
    <3>1. x \in DOMAIN best /\ best'[x] = best[x] /\ best[x] \in Nat /\ EdgeCost(e) \in Nat
      BY <2>2, <2>3, <2>5, <2>10, <2>11, GraphFacts DEF Closed
    <3>2. CASE x \in Closed
      <4>1. Across(e, x) \in DOMAIN best /\ best[Across(e, x)] <= best[x] + EdgeCost(e)
        BY <2>3, <3>2 DEF Relaxed
      <4>2. /\ best'[Across(e, x)] <= best[Across(e, x)] /\ best[Across(e, x)] \in Nat
            /\ best'[Across(e, x)] \in Nat
        BY <2>2, <2>5, <2>12, <4>1
      <4> QED
        BY <2>2, <3>1, <4>1, <4>2
    <3>3. CASE x = n
      <4> DEFINE m == Across(e, n)
      <4>1. CASE m \in Found(n, c)
        <5>1. PICK k \in Improving(n, c) :
                /\ best'[m] = c + EdgeCost(k)
                /\ \A f \in From(n) :
                      Across(f, n) = m /\ Passable(f) => EdgeCost(k) <= EdgeCost(f)
          BY <2>2, <4>1
        <5>2. EdgeCost(k) <= EdgeCost(e) /\ EdgeCost(k) \in Nat
          BY <2>6, <3>3, <5>1
        <5> QED
          BY <2>2, <2>5, <3>1, <3>3, <4>1, <5>1, <5>2
      <4>2. CASE m \notin Found(n, c)
        <5>1. m \in DOMAIN best /\ ~(c + EdgeCost(e) < best[m])
          <6> SUFFICES ASSUME m \in DOMAIN best => Candidate(c, e) < best[m] PROVE FALSE
            BY DEF Candidate
          <6>1. PICK g \in From(n) : Across(g, n) = m /\ Improves(n, c, g)
            BY <2>3, <2>5, <3>3, SomeImproves
          <6> QED
            BY <4>2, <6>1 DEF Found, Improving
        <5>2. m \in DOMAIN best' /\ best'[m] = best[m] /\ best[m] \in Nat
          BY <2>2, <2>5, <4>2, <5>1
        <5> QED
          BY <2>2, <2>5, <3>1, <3>3, <5>1, <5>2
      <4> QED
        BY <4>1, <4>2
    <3> QED
      BY <3>2, <3>3
  <2>20. Linked'
    <3> SUFFICES ASSUME NEW m \in DOMAIN best', m # query.start
                 PROVE  /\ previous'[m].node \in Closed \cup {n}
                        /\ previous'[m].edge \in From(previous'[m].node) /\ Passable(previous'[m].edge)
                        /\ Across(previous'[m].edge, previous'[m].node) = m
                        /\ best'[m] = best'[previous'[m].node] + EdgeCost(previous'[m].edge)
      BY <2>2, <2>4, <2>15 DEF Linked
    <3>1. CASE m \in Found(n, c)
      <4>1. PICK e \in Improving(n, c) :
              /\ Across(e, n) = m /\ best'[m] = c + EdgeCost(e)
              /\ previous'[m] = [node |-> n, edge |-> e]
        BY <2>2, <3>1
      <4>2. best'[n] = c
        BY <2>2, <2>10
      <4> QED
        BY <2>6, <4>1, <4>2
    <3>2. CASE m \notin Found(n, c)
      <4>1. m \in DOMAIN best /\ best'[m] = best[m] /\ m \in DOMAIN previous /\ previous'[m] = previous[m]
        BY <2>2, <2>3, <3>2 DEF SearchTypes
      <4>2. /\ previous[m].node \in Closed
            /\ previous[m].edge \in From(previous[m].node) /\ Passable(previous[m].edge)
            /\ Across(previous[m].edge, previous[m].node) = m
            /\ best[m] = best[previous[m].node] + EdgeCost(previous[m].edge)
        BY <2>3, <4>1 DEF Linked
      <4>3. best'[previous[m].node] = best[previous[m].node]
        BY <2>2, <2>11, <4>2 DEF Closed
      <4> QED
        BY <4>1, <4>2, <4>3
    <3> QED
      BY <3>1, <3>2
  <2>21. Rooted'
    <3>1. PICK back :
            /\ IsBack(back)
            /\ \A m \in DOMAIN best :
                  /\ back[m] \in Seq(EdgeIds)
                  /\ Len(back[m]) <= Cardinality(Closed)
                  /\ m \in Closed => Len(back[m]) < Cardinality(Closed)
      BY <2>3 DEF Rooted
    <3>0. PICK new : new = [m \in DOMAIN best' |->
                IF m \in Found(n, c) THEN Append(back[n], previous'[m].edge) ELSE back[m]]
      OBVIOUS
    <3>2. \A m \in DOMAIN best' : m \notin Found(n, c) => m \in DOMAIN best
      BY <2>2
    <3>3. /\ \A m \in Found(n, c) : new[m] = Append(back[n], previous'[m].edge)
          /\ \A m \in DOMAIN best : m \notin Found(n, c) => new[m] = back[m]
          /\ new[n] = back[n]
      BY <2>2, <2>10, <3>0
    <3>4. \A m \in DOMAIN best' :
             new[m] = IF m = query.start THEN <<>>
                      ELSE Append(new[previous'[m].node], previous'[m].edge)
      <4> SUFFICES ASSUME NEW m \in DOMAIN best'
                   PROVE  new[m] = IF m = query.start THEN <<>>
                                   ELSE Append(new[previous'[m].node], previous'[m].edge)
        OBVIOUS
      <4>1. CASE m \in Found(n, c)
        <5>1. previous'[m].node = n /\ m # query.start
          BY <2>2, <2>10, <4>1
        <5> QED
          BY <3>3, <4>1, <5>1
      <4>2. CASE m \notin Found(n, c)
        <5>1. m \in DOMAIN best /\ new[m] = back[m]
          BY <3>2, <3>3, <4>2
        <5>2. back[m] = IF m = query.start THEN <<>>
                        ELSE Append(back[previous[m].node], previous[m].edge)
          BY <3>1, <5>1 DEF IsBack
        <5>3. CASE m # query.start
          <6>1. previous'[m] = previous[m] /\ previous[m].node \in Closed
            BY <2>2, <2>3, <4>2, <5>1, <5>3 DEF SearchTypes, Linked
          <6>2. new[previous[m].node] = back[previous[m].node]
            BY <2>11, <3>3, <6>1 DEF Closed
          <6> QED
            BY <5>1, <5>2, <5>3, <6>1, <6>2
        <5>4. CASE m = query.start
          <6> QED
            BY <5>1, <5>2, <5>4
        <5> QED
          BY <5>3, <5>4
      <4> QED
        BY <4>1, <4>2
    <3>5. IsBack(new)'
      <4>1. new = [m \in DOMAIN best' |-> new[m]]
        BY <3>0
      <4>2. new = [m \in DOMAIN best' |-> IF m = query.start THEN <<>>
                                         ELSE Append(new[previous'[m].node], previous'[m].edge)]
        BY <3>4, <4>1
      <4> QED
        BY <2>2, <4>2 DEF IsBack
    <3>6. Cardinality(Closed') = Cardinality(Closed) + 1 /\ Cardinality(Closed) \in Nat
      BY <2>2, <2>3, <2>15, ClosedFacts, FS_AddElement
    <3>7. ASSUME NEW m \in DOMAIN best'
          PROVE  /\ new[m] \in Seq(EdgeIds)
                 /\ Len(new[m]) <= Cardinality(Closed')
                 /\ m \in Closed' => Len(new[m]) < Cardinality(Closed')
      <4>1. CASE m \in Found(n, c)
        <5>1. /\ back[n] \in Seq(EdgeIds) /\ Len(back[n]) <= Cardinality(Closed)
              /\ Len(back[n]) \in Nat
          BY <2>2, <3>1
        <5>2. previous'[m].edge \in EdgeIds
          BY <2>2, <2>3, <2>5, <2>6, <4>1, GraphFacts
        <5>3. new[m] = Append(back[n], previous'[m].edge)
          BY <3>3, <4>1
        <5>4. m \notin Closed'
          BY <2>10, <2>11, <2>15, <4>1
        <5> QED
          BY <3>6, <5>1, <5>2, <5>3, <5>4
      <4>2. CASE m \notin Found(n, c)
        <5>1. m \in DOMAIN best /\ new[m] = back[m]
          BY <3>2, <3>3, <4>2
        <5>2. back[m] \in Seq(EdgeIds) /\ Len(back[m]) <= Cardinality(Closed) /\ Len(back[m]) \in Nat
          BY <3>1, <5>1
        <5> QED
          BY <3>6, <5>1, <5>2
      <4> QED
        BY <4>1, <4>2
    <3>8. \E b : IsBack(b)' /\ \A m \in DOMAIN best' :
                  /\ b[m] \in Seq(EdgeIds)
                  /\ Len(b[m]) <= Cardinality(Closed')
                  /\ m \in Closed' => Len(b[m]) < Cardinality(Closed')
      BY <3>5, <3>7
    <3> QED
      BY <3>8 DEF Rooted
  <2> QED
    BY <2>16, <2>17, <2>18, <2>19, <2>20, <2>21 DEF Searching
<1> QED
  BY <1>1, <1>2

-----------------------------------------------------------------------------
(* The reference.                                                          *)
Furthest == Cardinality(NodeIds) - 1

Levels(of, m) ==
    of = [k \in 0..m |->
             IF k = 0 THEN {[to |-> query.start, edges |-> <<>>, cost |-> 0]} ELSE Longer(of[k - 1])]

(* The ways by the number of their edges.                                  *)
LEMMA LevelsExist ==
    ASSUME NEW n \in Nat
    PROVE  \E of : Levels(of, n)
<1> DEFINE Bad == {m \in Nat : ~\E of : Levels(of, m)}
           first == {[to |-> query.start, edges |-> <<>>, cost |-> 0]}
<1>1. SUFFICES ASSUME Bad # {} PROVE FALSE
  OBVIOUS
<1>2. PICK m \in Bad : \A y \in Bad : m <= y
  BY <1>1, LeastNumber
<1>3. m # 0
  <2> DEFINE of == [k \in 0..0 |-> first]
  <2>1. of = [k \in 0..0 |-> IF k = 0 THEN first ELSE Longer(of[k - 1])]
    OBVIOUS
  <2> HIDE DEF of
  <2>2. Levels(of, 0)
    BY <2>1 DEF Levels
  <2> QED
    BY <1>2, <2>2
<1>4. m \in Nat /\ m - 1 \in Nat /\ ~(m <= m - 1)
  BY <1>2, <1>3
<1>5. PICK of : Levels(of, m - 1)
  <2>1. m - 1 \notin Bad
    <3> HIDE DEF Bad
    <3> QED
      BY <1>2, <1>4
  <2> QED
    BY <1>4, <2>1
<1> DEFINE h == [k \in 0..m |-> IF k = m THEN Longer(of[m - 1]) ELSE of[k]]
<1> HIDE DEF first
<1>6. ASSUME NEW k \in 0..m
      PROVE  h[k] = IF k = 0 THEN first ELSE Longer(h[k - 1])
  <2>1. \A j \in 0..(m - 1) :
           of[j] = IF j = 0 THEN first ELSE Longer(of[j - 1])
    BY <1>5 DEF Levels, first
  <2>2. CASE k = m
    <3>1. m - 1 \in 0..m /\ m - 1 # m
      BY <1>4
    <3>2. h[m - 1] = of[m - 1] /\ h[m] = Longer(of[m - 1])
      BY <3>1, <2>2
    <3> HIDE DEF h
    <3> QED
      BY <1>3, <2>2, <3>2
  <2>3. CASE k # m
    <3>1. k \in 0..(m - 1) /\ (k # 0 => k - 1 \in 0..m /\ k - 1 # m)
      BY <1>4, <2>3
    <3>2. h[k] = of[k] /\ (k # 0 => h[k - 1] = of[k - 1])
      BY <2>3, <3>1
    <3> HIDE DEF h
    <3> QED
      BY <2>1, <3>1, <3>2
  <2> QED
    BY <2>2, <2>3
<1>7. h = [k \in 0..m |-> h[k]]
  OBVIOUS
<1> HIDE DEF h
<1>8. h = [k \in 0..m |-> IF k = 0 THEN first ELSE Longer(h[k - 1])]
  BY <1>6, <1>7
<1>9. Levels(h, m)
  BY <1>8 DEF Levels, first
<1> QED
  BY <1>2, <1>9

LEMMA WaysAre ==
    ASSUME SearchTypes
    PROVE  /\ Furthest \in Nat
           /\ \E of : Levels(of, Furthest) /\ Ways = UNION {of[k] : k \in 0..Furthest}
<1> DEFINE Of == CHOOSE of : of = [k \in 0..(Cardinality(NodeIds) - 1) |->
                IF k = 0 THEN {[to |-> query.start, edges |-> <<>>, cost |-> 0]}
                ELSE Longer(of[k - 1])]
<1>1. Furthest \in Nat
  <2>1. query.start \in NodeIds /\ IsFiniteSet(NodeIds)
    BY GraphFacts
  <2>2. Cardinality(NodeIds) \in Nat /\ Cardinality(NodeIds) # 0
    BY <2>1, FS_CardinalityType, FS_EmptySet
  <2> QED
    BY <2>2 DEF Furthest
<1>2. \E of : Levels(of, Furthest)
  BY <1>1, LevelsExist
<1>3. Levels(Of, Furthest)
  BY <1>2 DEF Levels, Furthest
<1>4. Ways = UNION {Of[k] : k \in 0..Furthest}
  BY DEF Ways, Furthest
<1> QED
  BY <1>1, <1>3, <1>4

(* What is known of a way: its end is found, at no more than it costs, or  *)
(* something is open that the way has yet to pass.                         *)
Known(w) ==
    \/ w.to \in DOMAIN best /\ best[w.to] <= w.cost
    \/ \E q \in queue : q[2] + Heuristic(q[3]) <= w.cost + Heuristic(w.to)

(* So it is with every way, one edge at a time.                            *)
LEMMA WaysAreKnown ==
    ASSUME Searching, NEW of, NEW n \in Nat, Levels(of, n),
           NEW k \in 0..n, NEW w \in of[k]
    PROVE  w.to \in NodeIds /\ w.cost \in Nat /\ Known(w)
<1> DEFINE Right(v) == v.to \in NodeIds /\ v.cost \in Nat /\ Known(v)
           Bad == {j \in 0..n : \E v \in of[j] : ~Right(v)}
<1>0. SearchTypes /\ Queued /\ Relaxed
  BY DEF Searching
<1>1. SUFFICES ASSUME Bad # {} PROVE FALSE
  OBVIOUS
<1>2. PICK j \in Bad : \A y \in Bad : j <= y
  <2>1. Bad \in SUBSET Nat
    OBVIOUS
  <2> HIDE DEF Bad
  <2> QED
    BY <1>1, <2>1, LeastNumber
<1>3. j \in 0..n
  BY <1>2
<1>4. PICK v \in of[j] : ~Right(v)
  BY <1>2
<1>5. of[j] = IF j = 0 THEN {[to |-> query.start, edges |-> <<>>, cost |-> 0]}
              ELSE Longer(of[j - 1])
  BY <1>3 DEF Levels
<1>6. CASE j = 0
  <2>1. v.to = query.start /\ v.cost = 0
    BY <1>4, <1>5, <1>6
  <2>2. Right(v)
    BY <1>0, <2>1, GraphFacts DEF SearchTypes, Known
  <2> QED
    BY <1>4, <2>2
<1>7. CASE j # 0
  <2>0. PICK u \in of[j - 1] :
           v \in {[to |-> Across(f, u.to), edges |-> Append(u.edges, f), cost |-> Candidate(u.cost, f)] :
                      f \in {e \in From(u.to) : Passable(e)}}
    <3>1. v \in Longer(of[j - 1])
      BY <1>4, <1>5, <1>7
    <3> QED
      BY <3>1 DEF Longer
  <2>1. PICK e \in From(u.to) :
           Passable(e) /\ v.to = Across(e, u.to) /\ v.cost = Candidate(u.cost, e)
    <3>1. PICK e \in {f \in From(u.to) : Passable(f)} :
             v = [to |-> Across(e, u.to), edges |-> Append(u.edges, e), cost |-> Candidate(u.cost, e)]
      BY <2>0
    <3> QED
      BY <3>1
  <2>2. Right(u)
    <3>1. j - 1 \in 0..n /\ ~(j <= j - 1)
      BY <1>3, <1>7
    <3>2. j - 1 \notin Bad
      BY <1>2, <3>1
    <3> HIDE DEF Right
    <3> QED
      BY <2>0, <3>1, <3>2
  <2>3. /\ Across(e, u.to) \in NodeIds /\ EdgeCost(e) \in Nat
        /\ Heuristic(u.to) <= EdgeCost(e) + Heuristic(v.to)
        /\ Heuristic(u.to) \in Nat /\ Heuristic(v.to) \in Nat
    BY <1>0, <2>1, <2>2, GraphFacts
  <2>4. v.to \in NodeIds /\ v.cost \in Nat /\ v.cost = u.cost + EdgeCost(e)
    BY <2>1, <2>2, <2>3 DEF Candidate
  <2>5. \A q \in queue : q[2] \in Nat /\ Heuristic(q[3]) \in Nat
    <3> SUFFICES ASSUME NEW q \in queue PROVE q[2] \in Nat /\ Heuristic(q[3]) \in Nat
      OBVIOUS
    <3>1. q[2] \in Nat /\ q[3] \in NodeIds
      BY <1>0 DEF SearchTypes
    <3> QED
      BY <1>0, <3>1, GraphFacts
  <2>6. CASE \E q \in queue : q[2] + Heuristic(q[3]) <= u.cost + Heuristic(u.to)
    <3>1. PICK q \in queue : q[2] + Heuristic(q[3]) <= u.cost + Heuristic(u.to)
      BY <2>6
    <3>2. q[2] + Heuristic(q[3]) <= v.cost + Heuristic(v.to)
      BY <2>2, <2>3, <2>4, <2>5, <3>1
    <3> QED
      BY <1>4, <2>4, <3>2 DEF Known
  <2>7. CASE u.to \in DOMAIN best /\ best[u.to] <= u.cost
    <3>1. best[u.to] \in Nat
      BY <1>0, <2>7 DEF SearchTypes
    <3>2. CASE u.to \in Closed
      <4>1. v.to \in DOMAIN best /\ best[v.to] <= best[u.to] + EdgeCost(e)
        BY <1>0, <2>1, <3>2 DEF Relaxed
      <4>2. best[v.to] \in Nat
        BY <1>0, <4>1 DEF SearchTypes
      <4>3. best[v.to] <= v.cost
        BY <2>2, <2>3, <2>4, <2>7, <3>1, <4>1, <4>2
      <4> QED
        BY <1>4, <2>4, <4>1, <4>3 DEF Known
    <3>3. CASE u.to \notin Closed
      <4>1. PICK q \in queue : q[3] = u.to /\ q[2] = best[u.to]
        BY <2>7, <3>3 DEF Closed, Opened
      <4>2. q[2] + Heuristic(q[3]) <= v.cost + Heuristic(v.to)
        BY <2>2, <2>3, <2>4, <2>7, <3>1, <4>1
      <4> QED
        BY <1>4, <2>4, <4>2 DEF Known
    <3> QED
      BY <3>2, <3>3
  <2> QED
    BY <2>2, <2>6, <2>7 DEF Known
<1> QED
  BY <1>6, <1>7

(* The way back from every node found is a way of the reference.           *)
LEMMA RoutesAreWays ==
    ASSUME Searching, NEW n \in DOMAIN best
    PROVE  /\ Route(n).cost = best[n]
           /\ [to |-> n, edges |-> Route(n).edges, cost |-> Route(n).cost] \in Ways
<1>0. SearchTypes /\ Linked
  BY DEF Searching
<1>1. PICK back :
        /\ IsBack(back)
        /\ \A m \in DOMAIN best :
              /\ back[m] \in Seq(EdgeIds)
              /\ Len(back[m]) <= Cardinality(Closed)
              /\ m \in Closed => Len(back[m]) < Cardinality(Closed)
  BY DEF Searching, Rooted
<1>2. PICK of : Levels(of, Furthest) /\ Ways = UNION {of[k] : k \in 0..Furthest}
  BY <1>0, WaysAre
<1>3. Furthest \in Nat /\ Cardinality(NodeIds) \in Nat
  BY <1>0, WaysAre, GraphFacts, FS_CardinalityType
<1>4. \A m \in DOMAIN best : Len(back[m]) \in 0..Furthest
  <2> SUFFICES ASSUME NEW m \in DOMAIN best PROVE Len(back[m]) \in 0..Furthest
    OBVIOUS
  <2>1. /\ Len(back[m]) \in Nat /\ Len(back[m]) <= Cardinality(Closed)
        /\ m \in Closed => Len(back[m]) < Cardinality(Closed)
    BY <1>1
  <2>2. Closed \in SUBSET NodeIds /\ Cardinality(Closed) \in Nat /\ IsFiniteSet(NodeIds)
    BY <1>0, ClosedFacts, GraphFacts
  <2>3. Cardinality(Closed) <= Cardinality(NodeIds)
    BY <2>2, FS_Subset
  <2>4. CASE m \in Closed
    BY <1>3, <2>1, <2>2, <2>3, <2>4 DEF Furthest
  <2>5. CASE m \notin Closed
    <3>1. Closed \subseteq NodeIds /\ Closed # NodeIds
      BY <1>0, <2>2, <2>5 DEF SearchTypes
    <3>2. Cardinality(Closed) # Cardinality(NodeIds)
      BY <2>2, <3>1, FS_Subset
    <3> QED
      BY <1>3, <2>1, <2>2, <2>3, <3>2 DEF Furthest
  <2> QED
    BY <2>4, <2>5
<1>5. \A m \in DOMAIN best : m # query.start =>
         /\ previous[m].node \in DOMAIN best
         /\ back[m] = Append(back[previous[m].node], previous[m].edge)
         /\ Len(back[m]) = Len(back[previous[m].node]) + 1
  <2> SUFFICES ASSUME NEW m \in DOMAIN best, m # query.start
               PROVE  /\ previous[m].node \in DOMAIN best
                      /\ back[m] = Append(back[previous[m].node], previous[m].edge)
                      /\ Len(back[m]) = Len(back[previous[m].node]) + 1
    OBVIOUS
  <2>1. previous[m].node \in DOMAIN best
    BY <1>0 DEF Linked, Closed
  <2>2. back[m] = Append(back[previous[m].node], previous[m].edge)
    BY <1>1 DEF IsBack
  <2>3. back[previous[m].node] \in Seq(EdgeIds)
    BY <1>1, <2>1
  <2> QED
    BY <2>1, <2>2, <2>3
<1> DEFINE Way(m) == [to |-> m, edges |-> back[m], cost |-> best[m]]
           Lost == {k \in 0..Furthest : \E m \in DOMAIN best : Len(back[m]) = k /\ Way(m) \notin of[k]}
<1>6. Lost = {}
  <2> SUFFICES ASSUME Lost # {} PROVE FALSE
    OBVIOUS
  <2>1. PICK k \in Lost : \A y \in Lost : k <= y
    <3>1. Lost \in SUBSET Nat
      BY <1>3
    <3> HIDE DEF Lost
    <3> QED
      BY <3>1, LeastNumber
  <2>2. PICK m \in DOMAIN best : Len(back[m]) = k /\ Way(m) \notin of[k]
    BY <2>1
  <2>3. of[k] = IF k = 0 THEN {[to |-> query.start, edges |-> <<>>, cost |-> 0]}
                ELSE Longer(of[k - 1])
    BY <1>2, <2>1 DEF Levels
  <2>4. CASE m = query.start
    <3>1. back[m] = <<>> /\ best[m] = 0
      BY <1>0, <1>1, <2>4 DEF IsBack, SearchTypes
    <3>2. k = 0
      BY <2>2, <3>1
    <3> QED
      BY <2>2, <2>3, <2>4, <3>1, <3>2
  <2>5. CASE m # query.start
    <3> DEFINE p == previous[m].node
               e == previous[m].edge
    <3>1. /\ p \in DOMAIN best /\ e \in From(p) /\ Passable(e) /\ Across(e, p) = m
          /\ best[m] = best[p] + EdgeCost(e)
          /\ back[m] = Append(back[p], e) /\ Len(back[m]) = Len(back[p]) + 1
      BY <1>0, <1>5, <2>5 DEF Linked
    <3>2. Len(back[p]) = k - 1 /\ k # 0 /\ k - 1 \in 0..Furthest /\ ~(k <= k - 1)
      BY <1>4, <2>1, <2>2, <3>1
    <3>3. Way(p) \in of[k - 1]
      <4>1. k - 1 \notin Lost
        <5> HIDE DEF Lost
        <5> QED
          BY <2>1, <3>2
      <4> QED
        BY <3>1, <3>2, <4>1
    <3>4. Way(m) = [to |-> Across(e, Way(p).to), edges |-> Append(Way(p).edges, e),
                    cost |-> Candidate(Way(p).cost, e)]
      BY <3>1 DEF Candidate
    <3>5. e \in {f \in From(Way(p).to) : Passable(f)}
      BY <3>1
    <3>6. Way(m) \in Longer(of[k - 1])
      <4>1. PICK w : w = Way(p)
        OBVIOUS
      <4>2. PICK v : v = Way(m)
        OBVIOUS
      <4>3. w \in of[k - 1] /\ e \in {f \in From(w.to) : Passable(f)}
        BY <3>3, <3>5, <4>1
      <4>4. v = [to |-> Across(e, w.to), edges |-> Append(w.edges, e), cost |-> Candidate(w.cost, e)]
        BY <3>4, <4>1, <4>2
      <4> HIDE DEF Way, p, e
      <4>5. v \in {[to |-> Across(f, w.to), edges |-> Append(w.edges, f), cost |-> Candidate(w.cost, f)] :
                      f \in {f \in From(w.to) : Passable(f)}}
        BY <4>3, <4>4
      <4>6. v \in Longer(of[k - 1])
        BY <4>3, <4>5 DEF Longer
      <4> QED
        BY <4>2, <4>6
    <3> QED
      BY <2>2, <2>3, <3>2, <3>6
  <2> QED
    BY <2>4, <2>5
<1>7. \A m \in DOMAIN best : Way(m) \in Ways
  BY <1>2, <1>4, <1>6
<1>8. ASSUME NEW b, IsBack(b) PROVE b[n] = back[n]
  <2> DEFINE Other == {k \in 0..Furthest : \E m \in DOMAIN best : Len(back[m]) = k /\ b[m] # back[m]}
  <2> SUFFICES ASSUME Other # {} PROVE FALSE
    BY <1>4
  <2>1. PICK k \in Other : \A y \in Other : k <= y
    <3>1. Other \in SUBSET Nat
      BY <1>3
    <3> HIDE DEF Other
    <3> QED
      BY <3>1, LeastNumber
  <2>2. PICK m \in DOMAIN best : Len(back[m]) = k /\ b[m] # back[m]
    BY <2>1
  <2>3. m # query.start
    BY <1>1, <1>8, <2>2 DEF IsBack
  <2>4. b[m] = Append(b[previous[m].node], previous[m].edge)
    BY <1>8, <2>3 DEF IsBack
  <2>5. b[previous[m].node] # back[previous[m].node]
    BY <1>5, <2>2, <2>3, <2>4
  <2>6. Len(back[previous[m].node]) = k - 1 /\ k - 1 \in 0..Furthest /\ ~(k <= k - 1)
    BY <1>4, <1>5, <2>1, <2>2, <2>3
  <2>7. k - 1 \in Other
    BY <1>5, <2>3, <2>5, <2>6
  <2> HIDE DEF Other
  <2> QED
    BY <2>1, <2>6, <2>7
<1>9. Route(n).edges = back[n] /\ Route(n).cost = best[n]
  <2> DEFINE b == CHOOSE b : b = [m \in DOMAIN best |->
                    IF m = query.start THEN <<>>
                    ELSE Append(b[previous[m].node], previous[m].edge)]
  <2>1. IsBack(b)
    BY <1>1 DEF IsBack
  <2>2. Route(n) = [edges |-> b[n], cost |-> best[n]]
    BY DEF Route
  <2> HIDE DEF b
  <2> QED
    BY <1>8, <2>1, <2>2
<1> QED
  BY <1>7, <1>9

-----------------------------------------------------------------------------
(* The answer.                                                             *)

(* A search ends with what no way is cheaper than.                         *)
LEMMA EndIsCheapest ==
    ASSUME Searching, NEW n \in DOMAIN best,
           queue = {} \/ (queue # {} /\ Top[3] = n /\ ~Outdated),
           NEW w \in Ways, w.to = n
    PROVE  best[n] <= w.cost
<1>1. SearchTypes /\ Queued
  BY DEF Searching
<1>2. PICK of : Levels(of, Furthest) /\ Ways = UNION {of[k] : k \in 0..Furthest}
  BY <1>1, WaysAre
<1>3. PICK k \in 0..Furthest : w \in of[k]
  BY <1>2
<1>4. w.cost \in Nat /\ Known(w)
  BY <1>1, <1>2, <1>3, WaysAre, WaysAreKnown
<1>5. CASE ~(best[n] <= w.cost)
  <2>1. PICK q \in queue : q[2] + Heuristic(q[3]) <= w.cost + Heuristic(n)
    BY <1>4, <1>5 DEF Known
  <2>2. Top \in queue /\ Top[3] = n /\ Top[1] <= q[1]
    BY <1>1, <2>1, TopIs
  <2>3. /\ Top[1] \in Nat /\ Top[2] \in Nat /\ best[n] \in Nat /\ Heuristic(n) \in Nat
        /\ q[1] \in Nat /\ q[2] \in Nat
    BY <1>1, <2>1, <2>2, GraphFacts DEF SearchTypes
  <2>4. best[n] = Top[2]
    BY <1>1, <2>1, <2>2, <2>3 DEF Queued, Outdated
  <2>5. CASE queue = {<<0, 0, query.start>>}
    <3>1. Top[2] = 0
      BY <2>2, <2>5
    <3> QED
      BY <1>4, <1>5, <2>4, <3>1
  <2>6. CASE queue # {<<0, 0, query.start>>}
    <3>1. q[1] = q[2] + Heuristic(q[3]) /\ Top[1] = Top[2] + Heuristic(n)
      BY <1>1, <2>1, <2>2, <2>6 DEF Queued
    <3> QED
      BY <1>4, <1>5, <2>1, <2>2, <2>3, <2>4, <3>1
  <2> QED
    BY <2>5, <2>6
<1> QED
  BY <1>5

(* When nothing is open, all that can be reached was found.                *)
LEMMA EndIsComplete ==
    ASSUME Searching, queue = {}, NEW w \in Ways
    PROVE  w.to \in DOMAIN best
<1>1. SearchTypes
  BY DEF Searching
<1>2. PICK of : Levels(of, Furthest) /\ Ways = UNION {of[k] : k \in 0..Furthest}
  BY <1>1, WaysAre
<1>3. PICK k \in 0..Furthest : w \in of[k]
  BY <1>2
<1> QED
  BY <1>1, <1>2, <1>3, WaysAre, WaysAreKnown DEF Known

LEMMA SameWays ==
    ASSUME query' = query, graph' = graph
    PROVE  Ways' = Ways /\ \A e : Passable(e)' = Passable(e) /\ Undervalued(e)' = Undervalued(e)
<1>1. \A e : /\ Passable(e)' = Passable(e) /\ Undervalued(e)' = Undervalued(e)
             /\ EdgeCost(e)' = EdgeCost(e)
  BY DEF Passable, Undervalued, EdgeCost, Metric
<1>2. \A c, e : Candidate(c, e)' = Candidate(c, e)
  BY <1>1 DEF Candidate
<1>3. \A ways : Longer(ways)' = Longer(ways)
  BY <1>1, <1>2 DEF Longer
<1> QED
  BY <1>1, <1>3 DEF Ways

LEMMA FinishIsRight ==
    ASSUME Searching, Finish
    PROVE  RouteIsCheapest'
<1>1. /\ query' = query /\ graph' = graph /\ queue' = queue /\ best' = best /\ previous' = previous
      /\ answer' = IF query.kind = "TREE" THEN Tree ELSE FoundRoute
  BY DEF Finish
<1>2. Ways' = Ways
  BY <1>1, SameWays
<1>3. queue = {} \/ (queue # {} /\ ~Outdated /\ query.kind # "TREE" /\ Top[3] = query.goal)
  BY DEF Finish, Arrived
<1>4. SearchTypes /\ Queued
  BY DEF Searching
<1>5. CASE query.kind = "TREE"
  <2>1. queue = {} /\ answer' = [kind |-> "ROUTES", to |-> [n \in DOMAIN best |-> Route(n)]]
    BY <1>1, <1>3, <1>5 DEF Tree
  <2>2. answer' # Raised /\ DOMAIN answer'.to = DOMAIN best
    BY <2>1 DEF Raised
  <2>3. ASSUME NEW n \in DOMAIN best
        PROVE  /\ [to |-> n, edges |-> answer'.to[n].edges, cost |-> answer'.to[n].cost] \in Ways
               /\ \A w \in Ways : w.to = n => answer'.to[n].cost <= w.cost
    <3>1. answer'.to[n] = Route(n)
      BY <2>1
    <3>2. \A w \in Ways : w.to = n => best[n] <= w.cost
      BY <2>1, EndIsCheapest
    <3> QED
      BY <3>1, <3>2, RoutesAreWays
  <2>4. \A w \in Ways : w.to \in DOMAIN best
    BY <2>1, EndIsComplete
  <2> QED
    BY <1>1, <1>2, <2>2, <2>3, <2>4 DEF RouteIsCheapest
<1>6. CASE query.kind # "TREE"
  <2> DEFINE g == query.goal
  <2>1. CASE g \notin DOMAIN best
    <3>1. queue = {}
      BY <1>3, <1>4, <2>1, TopIs DEF Queued
    <3>2. \A w \in Ways : w.to # g
      BY <2>1, <3>1, EndIsComplete
    <3>3. answer' = Raised
      BY <1>1, <1>6, <2>1 DEF FoundRoute
    <3>4. answer'.kind # "ROUTES"
      BY <3>3 DEF Raised
    <3> QED
      BY <1>1, <1>2, <1>6, <3>2, <3>4 DEF RouteIsCheapest
  <2>2. CASE g = query.start
    <3>1. answer' = Raised
      BY <1>1, <1>6, <2>2 DEF FoundRoute
    <3>2. answer'.kind # "ROUTES"
      BY <3>1 DEF Raised
    <3> QED
      BY <1>1, <1>6, <2>2, <3>2 DEF RouteIsCheapest
  <2>3. CASE g \in DOMAIN best /\ g # query.start
    <3>1. answer' = [kind |-> "ROUTES", to |-> [n \in {g} |-> Route(n)]]
      BY <1>1, <1>6, <2>3 DEF FoundRoute
    <3>2. answer' # Raised /\ DOMAIN answer'.to = {g} /\ answer'.to[g] = Route(g)
      BY <3>1 DEF Raised
    <3>3. \A w \in Ways : w.to = g => best[g] <= w.cost
      BY <1>3, <2>3, EndIsCheapest
    <3>4. /\ [to |-> g, edges |-> answer'.to[g].edges, cost |-> answer'.to[g].cost] \in Ways
          /\ \A w \in Ways : w.to = g => answer'.to[g].cost <= w.cost
      BY <2>3, <3>2, <3>3, RoutesAreWays
    <3> QED
      BY <1>1, <1>2, <1>6, <3>2, <3>4 DEF RouteIsCheapest
  <2> QED
    BY <2>1, <2>2, <2>3
<1> QED
  BY <1>5, <1>6

(* The inductive invariant.                                                *)
RouteInv ==
    /\ query = Idle => answer = Idle
    /\ query # Idle => Searching
    /\ RouteIsCheapest

LEMMA RouteInitInv == RouteInit => RouteInv
<1> SUFFICES ASSUME RouteInit PROVE RouteInv
  OBVIOUS
<1>1. query = Idle /\ answer = Idle
  BY DEF RouteInit
<1> QED
  BY <1>1 DEF RouteInv, RouteIsCheapest, Idle, Raised

LEMMA RouteStep == RouteInv /\ [RouteNext]_routeVars => RouteInv'
<1> SUFFICES ASSUME RouteInv, [RouteNext]_routeVars PROVE RouteInv'
  OBVIOUS
<1>1. CASE Ask
  <2>1. Searching' /\ query' \in QueryType /\ answer' = Pending
    BY <1>1, AskInv, RouteAssumption DEF Ask
  <2>2. query' # Idle
    BY <2>1 DEF QueryType, Idle
  <2>3. RouteIsCheapest'
    BY <2>1 DEF RouteIsCheapest, Pending, Raised
  <2> QED
    BY <2>1, <2>2, <2>3 DEF RouteInv
<1>2. CASE DropStale
  <2>1. answer = Pending /\ answer' = Pending /\ query' = query
    BY <1>2 DEF DropStale
  <2>2. query # Idle
    BY <2>1 DEF RouteInv, Idle, Pending
  <2>3. RouteIsCheapest'
    BY <2>1 DEF RouteIsCheapest, Pending, Raised
  <2> QED
    BY <1>2, <2>1, <2>2, <2>3, DropInv DEF RouteInv
<1>3. CASE Expand
  <2>1. answer = Pending /\ query' = query /\ graph' = graph
    BY <1>3 DEF Expand
  <2>2. query # Idle
    BY <2>1 DEF RouteInv, Idle, Pending
  <2>3. Searching'
    BY <1>3, <2>2, ExpandInv DEF RouteInv
  <2>4. RouteIsCheapest'
    <3>1. CASE \E e \in From(Top[3]) : Passable(e) /\ Undervalued(e)
      <4>1. answer' = Raised /\ answer'.kind # "ROUTES"
        BY <1>3, <3>1 DEF Expand, Raised
      <4>2. \E e \in EdgeIds : Passable(e)' /\ Undervalued(e)'
        BY <2>1, <3>1, SameWays DEF From
      <4> QED
        BY <4>1, <4>2 DEF RouteIsCheapest
    <3>2. CASE ~\E e \in From(Top[3]) : Passable(e) /\ Undervalued(e)
      <4>1. answer' = Pending
        BY <1>3, <2>1, <3>2 DEF Expand
      <4> QED
        BY <4>1 DEF RouteIsCheapest, Pending, Raised
    <3> QED
      BY <3>1, <3>2
  <2> QED
    BY <2>1, <2>2, <2>3, <2>4 DEF RouteInv
<1>4. CASE Finish
  <2>1. /\ answer = Pending /\ query' = query /\ graph' = graph /\ queue' = queue
        /\ best' = best /\ previous' = previous
    BY <1>4 DEF Finish
  <2>2. query # Idle /\ Searching
    BY <2>1 DEF RouteInv, Idle, Pending
  <2>3. Searching'
    BY <2>1, <2>2, SearchStays
  <2> QED
    BY <1>4, <2>1, <2>2, <2>3, FinishIsRight DEF RouteInv
<1>5. CASE UNCHANGED routeVars
  <2>1. /\ query' = query /\ graph' = graph /\ queue' = queue /\ best' = best
        /\ previous' = previous /\ answer' = answer
    BY <1>5 DEF routeVars
  <2>2. query # Idle => Searching'
    BY <2>1, SearchStays DEF RouteInv
  <2>3. RouteIsCheapest'
    BY <2>1, SameWays DEF RouteInv, RouteIsCheapest
  <2> QED
    BY <2>1, <2>2, <2>3 DEF RouteInv
<1> QED
  BY <1>1, <1>2, <1>3, <1>4, <1>5 DEF RouteNext

(* Every route returned, by A*, by Dijkstra or in a tree, is a way over    *)
(* passable edges and none is cheaper; a tree leaves out no node that can  *)
(* be reached; and a search raises only where there is nothing to return   *)
(* or an edge cheaper than its length.                                     *)
THEOREM RoutesCheapest == RouteSpec => []RouteIsCheapest
<1>1. RouteInv => RouteIsCheapest
  BY DEF RouteInv
<1> QED
  BY RouteInitInv, RouteStep, <1>1, PTL DEF RouteSpec

-----------------------------------------------------------------------------
(* Cells and their neighbours.                                             *)

LEMMA SquareIs ==
    ASSUME NEW n \in Int
    PROVE  /\ Square(n) \in Nat /\ Square(-n) = Square(n)
           /\ n \in {-1, 0, 1} => Square(n) = IF n = 0 THEN 0 ELSE 1
           /\ n \notin {-1, 0, 1} => Square(n) >= 4
<1>1. n * n \in Nat /\ (-n) * (-n) = n * n
  OBVIOUS
<1>2. n >= 2 => n * n >= 4
  OBVIOUS
<1>3. n <= -2 => n * n >= 4
  OBVIOUS
<1> QED
  BY <1>1, <1>2, <1>3 DEF Square

LEMMA ApartIs ==
    ASSUME NEW c \in GridCells, NEW d \in GridCells
    PROVE  /\ c[1] \in Nat /\ c[2] \in Nat /\ c = <<c[1], c[2]>>
           /\ d[1] \in Nat /\ d[2] \in Nat /\ d = <<d[1], d[2]>>
           /\ Apart(c, d) \in Nat /\ Apart(d, c) = Apart(c, d)
           /\ Apart(c, d) = 0 <=> c = d
           /\ Apart(c, d) = 1 <=> \/ c[2] = d[2] /\ c[1] - d[1] \in {1, -1}
                                  \/ c[1] = d[1] /\ c[2] - d[2] \in {1, -1}
           /\ Apart(c, d) = 2 <=> c[1] - d[1] \in {1, -1} /\ c[2] - d[2] \in {1, -1}
<1>1. /\ c[1] \in Nat /\ c[2] \in Nat /\ c = <<c[1], c[2]>>
      /\ d[1] \in Nat /\ d[2] \in Nat /\ d = <<d[1], d[2]>>
  BY ExtractionAssumption DEF GridCells
<1>2. PICK u, v : u = c[1] - d[1] /\ v = c[2] - d[2]
  OBVIOUS
<1>3. u \in Int /\ v \in Int /\ d[1] - c[1] = -u /\ d[2] - c[2] = -v
  BY <1>1, <1>2
<1>4. Apart(c, d) = Square(u) + Square(v) /\ Apart(d, c) = Square(-u) + Square(-v)
  BY <1>2, <1>3 DEF Apart
<1>5. PICK x, y : x = Square(u) /\ y = Square(v)
  OBVIOUS
<1>6. /\ x \in Nat /\ y \in Nat /\ Square(-u) = x /\ Square(-v) = y
      /\ u \in {-1, 0, 1} => x = IF u = 0 THEN 0 ELSE 1
      /\ u \notin {-1, 0, 1} => x >= 4
      /\ v \in {-1, 0, 1} => y = IF v = 0 THEN 0 ELSE 1
      /\ v \notin {-1, 0, 1} => y >= 4
  BY <1>3, <1>5, SquareIs
<1>7. Apart(c, d) = x + y /\ Apart(d, c) = x + y
  BY <1>4, <1>5, <1>6
<1>8. /\ x + y = 0 <=> u = 0 /\ v = 0
      /\ x + y = 1 <=> (v = 0 /\ u \in {1, -1}) \/ (u = 0 /\ v \in {1, -1})
      /\ x + y = 2 <=> u \in {1, -1} /\ v \in {1, -1}
  BY <1>3, <1>6
<1>9. (u = 0 <=> c[1] = d[1]) /\ (v = 0 <=> c[2] = d[2])
  BY <1>1, <1>2
<1>10. c[1] = d[1] /\ c[2] = d[2] <=> c = d
  BY <1>1
<1>11. Apart(c, d) = 0 <=> c = d
  BY <1>7, <1>8, <1>9, <1>10
<1>12. Apart(c, d) = 1 <=>
          (c[2] = d[2] /\ u \in {1, -1}) \/ (c[1] = d[1] /\ v \in {1, -1})
  BY <1>3, <1>6, <1>7, <1>8, <1>9
<1>13. Apart(c, d) = 2 <=> u \in {1, -1} /\ v \in {1, -1}
  BY <1>7, <1>8
<1>14. Apart(c, d) \in Nat /\ Apart(d, c) = Apart(c, d)
  BY <1>6, <1>7
<1>15. Apart(c, d) = 1 <=>
          (c[2] = d[2] /\ c[1] - d[1] \in {1, -1}) \/ (c[1] = d[1] /\ c[2] - d[2] \in {1, -1})
  BY <1>2, <1>12
<1>16. Apart(c, d) = 2 <=> c[1] - d[1] \in {1, -1} /\ c[2] - d[2] \in {1, -1}
  BY <1>2, <1>13
<1> QED
  BY <1>1, <1>11, <1>14, <1>15, <1>16

LEMMA NeighborsAre ==
    ASSUME NEW F \in SUBSET GridCells, NEW c \in F
    PROVE  /\ \A d \in ValidNeighbors(F, c) :
                 d \in F /\ d # c /\ c \in ValidNeighbors(F, d) /\ Apart(c, d) \in {1, 2}
           /\ OrthogonalNeighbors(F, c) = {d \in ValidNeighbors(F, c) : Apart(c, d) = 1}
           /\ \A d \in OrthogonalNeighbors(F, c) : c \in OrthogonalNeighbors(F, d)
<1>1. ASSUME NEW d \in ValidNeighbors(F, c)
      PROVE  d \in F /\ d # c /\ c \in ValidNeighbors(F, d) /\ Apart(c, d) \in {1, 2}
  <2>1. d \in F /\ Apart(c, d) \in {1, 2} /\ <<c[1], d[2]>> \in F /\ <<d[1], c[2]>> \in F
    BY DEF ValidNeighbors
  <2>2. Apart(d, c) = Apart(c, d) /\ (Apart(c, d) = 0 <=> c = d)
    BY <2>1, ApartIs
  <2> QED
    BY <2>1, <2>2 DEF ValidNeighbors
<1>2. ASSUME NEW d \in F, Apart(c, d) = 1
      PROVE  d \in ValidNeighbors(F, c) /\ Apart(d, c) = 1
  <2>1. /\ c = <<c[1], c[2]>> /\ d = <<d[1], d[2]>> /\ Apart(d, c) = 1
        /\ c[2] = d[2] \/ c[1] = d[1]
    BY <1>2, ApartIs
  <2> QED
    BY <1>2, <2>1 DEF ValidNeighbors
<1> QED
  BY <1>1, <1>2 DEF OrthogonalNeighbors

LEMMA NeighborIs ==
    ASSUME NEW F \in SUBSET GridCells, NEW c \in F, NEW d \in ValidNeighbors(F, c)
    PROVE  d \in F /\ d # c /\ c \in ValidNeighbors(F, d) /\ Apart(c, d) \in {1, 2}
BY NeighborsAre

(* Four cells around a point, by two that are opposite.                    *)
Around(c, d) == {c, d, <<c[1], d[2]>>, <<d[1], c[2]>>}

HasDiagonal(F, a, around) ==
    \E b \in ValidNeighbors(F, a) : Apart(a, b) = 2 /\ Around(a, b) = around

LEMMA AroundIs ==
    ASSUME NEW F \in SUBSET GridCells, NEW c \in F, NEW d \in ValidNeighbors(F, c), Apart(c, d) = 2
    PROVE  /\ Around(c, d) \in SUBSET F
           /\ <<c[1], d[2]>> # <<d[1], c[2]>>
           /\ <<c[1], d[2]>> \in OrthogonalNeighbors(F, c)
           /\ <<d[1], c[2]>> \in OrthogonalNeighbors(F, c)
           /\ \A a, b \in Around(c, d) : a # b => b \in ValidNeighbors(F, a)
           /\ \A a \in Around(c, d) : HasDiagonal(F, a, Around(c, d))
<1>1. d \in F /\ <<c[1], d[2]>> \in F /\ <<d[1], c[2]>> \in F
  BY DEF ValidNeighbors
<1>2. PICK h, v : h = <<c[1], d[2]>> /\ v = <<d[1], c[2]>>
  OBVIOUS
<1>3. c \in GridCells /\ d \in GridCells /\ h \in GridCells /\ v \in GridCells /\ h \in F /\ v \in F
  BY <1>1, <1>2
<1>4. /\ c[1] \in Nat /\ c[2] \in Nat /\ d[1] \in Nat /\ d[2] \in Nat
      /\ c = <<c[1], c[2]>> /\ d = <<d[1], d[2]>>
      /\ c[1] - d[1] \in {1, -1} /\ c[2] - d[2] \in {1, -1}
  BY <1>3, ApartIs
<1>5. h[1] = c[1] /\ h[2] = d[2] /\ v[1] = d[1] /\ v[2] = c[2]
  BY <1>2
<1>6. d[1] - c[1] \in {1, -1} /\ d[2] - c[2] \in {1, -1}
  BY <1>4
<1>7. /\ Apart(c, h) = 1 /\ Apart(c, v) = 1 /\ Apart(d, h) = 1 /\ Apart(d, v) = 1
      /\ Apart(h, v) = 2 /\ Apart(h, c) = 1 /\ Apart(v, c) = 1 /\ Apart(h, d) = 1 /\ Apart(v, d) = 1
      /\ Apart(v, h) = 2 /\ Apart(d, c) = 2
  BY <1>3, <1>4, <1>5, <1>6, ApartIs
<1>8. h # v
  BY <1>4, <1>5
<1>9. /\ <<c[1], h[2]>> = h /\ <<h[1], c[2]>> = c /\ <<c[1], v[2]>> = c /\ <<v[1], c[2]>> = v
      /\ <<d[1], h[2]>> = d /\ <<h[1], d[2]>> = h /\ <<d[1], v[2]>> = v /\ <<v[1], d[2]>> = d
      /\ <<h[1], v[2]>> = c /\ <<v[1], h[2]>> = d /\ <<d[1], c[2]>> = v /\ <<c[1], d[2]>> = h
      /\ <<h[1], c[2]>> = c /\ <<h[1], d[2]>> = h
  BY <1>2, <1>4, <1>5
<1>10. Around(c, d) = {c, d, h, v} /\ Around(d, c) = {c, d, h, v}
       /\ Around(h, v) = {c, d, h, v} /\ Around(v, h) = {c, d, h, v}
  BY <1>9 DEF Around
<1>11. /\ h \in ValidNeighbors(F, c) /\ v \in ValidNeighbors(F, c) /\ d \in ValidNeighbors(F, c)
       /\ h \in ValidNeighbors(F, d) /\ v \in ValidNeighbors(F, d) /\ c \in ValidNeighbors(F, d)
       /\ c \in ValidNeighbors(F, h) /\ d \in ValidNeighbors(F, h) /\ v \in ValidNeighbors(F, h)
       /\ c \in ValidNeighbors(F, v) /\ d \in ValidNeighbors(F, v) /\ h \in ValidNeighbors(F, v)
  BY <1>1, <1>3, <1>7, <1>9 DEF ValidNeighbors
<1>12. \A a, b \in Around(c, d) : a # b => b \in ValidNeighbors(F, a)
  BY <1>10, <1>11
<1>13. \A a \in Around(c, d) : HasDiagonal(F, a, Around(c, d))
  <2>1. \A a \in Around(c, d) : \E b \in ValidNeighbors(F, a) :
           Apart(a, b) = 2 /\ Around(a, b) = Around(c, d)
    BY <1>7, <1>10, <1>11
  <2> QED
    BY <2>1 DEF HasDiagonal
<1>14. h \in OrthogonalNeighbors(F, c) /\ v \in OrthogonalNeighbors(F, c)
  BY <1>3, <1>7 DEF OrthogonalNeighbors
<1> QED
  BY <1>1, <1>2, <1>8, <1>10, <1>12, <1>13, <1>14, <1>3

LEMMA CellsAreFinite == IsFiniteSet(GridCells)
<1>1. IsFiniteSet(0..(Width - 1)) /\ IsFiniteSet(0..(Height - 1))
  BY ExtractionAssumption, FS_Interval
<1> QED
  BY <1>1, FS_Product DEF GridCells

(* What is no node has no neighbours beside it, or two.                    *)
HasTwo(S) == \E p, q : p # q /\ S = {p, q}

LEMMA NoNodeIs ==
    ASSUME NEW g, NEW F \in SUBSET GridCells, NEW x \in F \ NodeCells(g, F)
    PROVE  /\ \A p, q \in OrthogonalNeighbors(F, x) : p # q => OrthogonalNeighbors(F, x) = {p, q}
           /\ OrthogonalNeighbors(F, x) # {} => HasTwo(OrthogonalNeighbors(F, x))
<1>1. PICK O : O = OrthogonalNeighbors(F, x)
  OBVIOUS
<1>2. O \in SUBSET F
  BY <1>1 DEF OrthogonalNeighbors
<1>3. IsFiniteSet(O)
  BY <1>2, CellsAreFinite, FS_Subset
<1>4. Kind(g, F, x) = "NONE"
  BY DEF NodeCells
<1>5. PICK n : n = Cardinality(O)
  OBVIOUS
<1>6. n \in Nat
  BY <1>3, <1>5, FS_CardinalityType
<1>7. n = 0 \/ n = 2
  <2>1. IsFrontier(g, x) => Kind(g, F, x) = "FRONTIER"
    BY DEF Kind
  <2>2. ~IsFrontier(g, x) /\ n = 1 => Kind(g, F, x) = "DEAD_END"
    BY <1>1, <1>5 DEF Kind
  <2>3. ~IsFrontier(g, x) /\ n >= 3 => Kind(g, F, x) = "JUNCTION"
    <3>1. n >= 3 => n # 1
      BY <1>6
    <3> QED
      BY <1>1, <1>5, <3>1 DEF Kind
  <2>4. ~IsFrontier(g, x) /\ n # 1 /\ ~(n >= 3)
    BY <1>4, <2>1, <2>2, <2>3
  <2> QED
    BY <1>6, <2>4
<1>8. ASSUME NEW p \in O, NEW q \in O, p # q PROVE O = {p, q}
  <2>1. IsFiniteSet({p}) /\ Cardinality({p}) = 1
    BY FS_Singleton
  <2>2. IsFiniteSet({p, q}) /\ Cardinality({p, q}) = 2
    <3>1. {p, q} = {p} \cup {q} /\ q \notin {p}
      BY <1>8
    <3>2. IsFiniteSet({p} \cup {q}) /\ Cardinality({p} \cup {q}) = Cardinality({p}) + 1
      BY <2>1, <3>1, FS_AddElement
    <3> QED
      BY <2>1, <3>1, <3>2
  <2>3. n # 0
    BY <1>3, <1>5, FS_EmptySet
  <2>4. {p, q} \in SUBSET O /\ Cardinality(O) = Cardinality({p, q})
    BY <1>5, <1>7, <2>2, <2>3
  <2> QED
    BY <1>3, <2>4, FS_Subset
<1>9. ASSUME O # {} PROVE HasTwo(O)
  <2>1. PICK p : p \in O
    BY <1>9
  <2>2. O # {p}
    <3>1. Cardinality({p}) = 1
      BY FS_Singleton
    <3> QED
      BY <1>5, <1>7, <3>1
  <2>3. PICK q \in O : q # p
    BY <2>1, <2>2
  <2> QED
    BY <1>8, <2>1, <2>3 DEF HasTwo
<1> QED
  BY <1>1, <1>8, <1>9

-----------------------------------------------------------------------------
(* What is joined with an element: it is closed under the links, and the   *)
(* least such set.                                                         *)
ClosedUnder(S, links) == \A l \in links : l \cap S # {} => l \in SUBSET S

ReachRule(g, links, element, k) == IF k = 0 THEN {element} ELSE Widened(g[k - 1], links)

LEMMA ReachExists ==
    ASSUME NEW links, NEW element, NEW n \in Nat
    PROVE  \E g : g = [k \in 0..n |-> ReachRule(g, links, element, k)]
<1> DEFINE Good(m) == \E g : g = [k \in 0..m |-> ReachRule(g, links, element, k)]
           Bad == {m \in Nat : ~Good(m)}
<1>1. SUFFICES ASSUME Bad # {} PROVE FALSE
  BY <1>1
<1>2. PICK m \in Bad : \A y \in Bad : m <= y
  BY <1>1, LeastNumber
<1>3. m # 0
  <2> DEFINE p == [k \in 0..0 |-> {element}]
  <2>1. \A k \in 0..0 : ReachRule(p, links, element, k) = {element}
    BY DEF ReachRule
  <2>2. p = [k \in 0..0 |-> ReachRule(p, links, element, k)]
    BY <2>1
  <2> HIDE DEF p
  <2>3. Good(0)
    BY <2>2
  <2> QED
    BY <1>2, <2>3
<1>4. m - 1 \in Nat /\ Good(m - 1)
  <2>1. m \in Nat /\ m - 1 \in Nat /\ ~(m <= m - 1)
    BY <1>2, <1>3
  <2>2. m - 1 \notin Bad
    <3> HIDE DEF Bad
    <3> QED
      BY <1>2, <2>1
  <2> QED
    BY <2>1, <2>2
<1>5. PICK p : p = [k \in 0..(m - 1) |-> ReachRule(p, links, element, k)]
  BY <1>4
<1> DEFINE q == [k \in 0..m |-> IF k = m THEN ReachRule(p, links, element, m) ELSE p[k]]
<1>6. \A k \in 0..m : k # 0 => k - 1 \in 0..m /\ k - 1 # m
  BY <1>4
<1>7. \A k \in 0..m : k # 0 => q[k - 1] = p[k - 1]
  <2>1. \A k \in 0..m : q[k] = IF k = m THEN ReachRule(p, links, element, m) ELSE p[k]
    OBVIOUS
  <2> HIDE DEF q
  <2> QED
    BY <1>6, <2>1
<1>8. \A k \in 0..m : ReachRule(q, links, element, k) = ReachRule(p, links, element, k)
  <2> HIDE DEF q
  <2> QED
    BY <1>7 DEF ReachRule
<1>9. \A k \in 0..m : k # m => p[k] = ReachRule(p, links, element, k)
  <2>1. \A k \in 0..m : k # m => k \in 0..(m - 1)
    BY <1>4
  <2>2. \A k \in 0..(m - 1) : p[k] = ReachRule(p, links, element, k)
    BY <1>5
  <2> QED
    BY <2>1, <2>2
<1>10. PICK r : r = q
  OBVIOUS
<1>11. \A k \in 0..m : (IF k = m THEN ReachRule(p, links, element, m) ELSE p[k]) = ReachRule(r, links, element, k)
  <2> HIDE DEF q
  <2> QED
    BY <1>8, <1>9, <1>10
<1>12. r = [k \in 0..m |-> ReachRule(r, links, element, k)]
  BY <1>10, <1>11
<1>13. Good(m)
  BY <1>12
<1> QED
  BY <1>2, <1>13

Reaches(S, elements, links, element, k) ==
    /\ element \in S /\ S \in SUBSET elements
    /\ ClosedUnder(S, links) \/ Cardinality(S) >= k + 1
    /\ \A R \in SUBSET elements : element \in R /\ ClosedUnder(R, links) => S \in SUBSET R

LEMMA WidenedReaches ==
    ASSUME NEW elements, IsFiniteSet(elements), NEW links \in SUBSET SUBSET elements,
           NEW element \in elements, NEW k \in Nat, NEW S, Reaches(S, elements, links, element, k)
    PROVE  Reaches(Widened(S, links), elements, links, element, k + 1)
<1>1. PICK more : more = Widened(S, links)
  OBVIOUS
<1>2. more = S \cup UNION {l \in links : l \cap S # {}}
  BY <1>1 DEF Widened
<1>3. S \in SUBSET elements /\ element \in S
  BY DEF Reaches
<1>4. S \in SUBSET more /\ more \in SUBSET elements
  BY <1>2, <1>3
<1>5. ASSUME NEW R \in SUBSET elements, element \in R, ClosedUnder(R, links) PROVE more \in SUBSET R
  <2>1. S \in SUBSET R
    BY <1>5 DEF Reaches
  <2>2. \A l \in links : l \cap S # {} => l \in SUBSET R
    BY <1>5, <2>1 DEF ClosedUnder
  <2> QED
    BY <1>2, <2>1, <2>2
<1>6. ClosedUnder(more, links) \/ Cardinality(more) >= k + 1 + 1
  <2>1. CASE more = S
    <3>1. \A l \in links : l \cap S # {} => l \in SUBSET more
      BY <1>2
    <3> QED
      BY <2>1, <3>1 DEF ClosedUnder
  <2>2. CASE more # S
    <3>1. ~ClosedUnder(S, links)
      <4>1. ASSUME ClosedUnder(S, links) PROVE more \in SUBSET S
        BY <1>2, <4>1 DEF ClosedUnder
      <4> QED
        BY <1>4, <2>2, <4>1
    <3>2. Cardinality(S) >= k + 1
      BY <3>1 DEF Reaches
    <3>3. IsFiniteSet(more) /\ IsFiniteSet(S)
      BY <1>3, <1>4, FS_Subset
    <3>4. Cardinality(S) <= Cardinality(more) /\ Cardinality(S) # Cardinality(more)
      BY <1>4, <2>2, <3>3, FS_Subset
    <3>5. Cardinality(S) \in Nat /\ Cardinality(more) \in Nat
      BY <3>3, FS_CardinalityType
    <3> QED
      BY <3>2, <3>4, <3>5
  <2> QED
    BY <2>1, <2>2
<1> QED
  BY <1>1, <1>3, <1>4, <1>5, <1>6 DEF Reaches

LEMMA JoinedIs ==
    ASSUME NEW elements, IsFiniteSet(elements), NEW links \in SUBSET SUBSET elements,
           NEW element \in elements
    PROVE  /\ element \in JoinedWith(elements, links, element)
           /\ JoinedWith(elements, links, element) \in SUBSET elements
           /\ ClosedUnder(JoinedWith(elements, links, element), links)
           /\ \A R \in SUBSET elements : element \in R /\ ClosedUnder(R, links) =>
                 JoinedWith(elements, links, element) \in SUBSET R
<1>1. PICK n : n = Cardinality(elements)
  OBVIOUS
<1>2. n \in Nat /\ n \in 0..n
  BY <1>1, FS_CardinalityType
<1> DEFINE reach == CHOOSE reach : reach = [k \in 0..n |-> ReachRule(reach, links, element, k)]
<1>3. reach = [k \in 0..n |-> ReachRule(reach, links, element, k)]
  BY <1>2, ReachExists
<1>4. JoinedWith(elements, links, element) = reach[n]
  BY <1>1 DEF JoinedWith, ReachRule
<1> HIDE DEF reach
<1>5. \A k \in 0..n : reach[k] = ReachRule(reach, links, element, k)
  BY <1>3
<1>6. PICK g : g = reach
  OBVIOUS
<1> DEFINE Bad == {k \in 0..n : ~Reaches(g[k], elements, links, element, k)}
<1>7. Bad = {}
  <2>1. SUFFICES ASSUME Bad # {} PROVE FALSE
    OBVIOUS
  <2>2. PICK k \in Bad : \A y \in Bad : k <= y
    <3>1. Bad \in SUBSET Nat
      OBVIOUS
    <3> QED
      BY <2>1, <3>1, LeastNumber
  <2>3. k \in 0..n /\ ~Reaches(g[k], elements, links, element, k)
    BY <2>2
  <2>4. k # 0
    <3>1. Reaches({element}, elements, links, element, 0)
      <4>1. Cardinality({element}) = 1
        BY FS_Singleton
      <4> QED
        BY <4>1 DEF Reaches
    <3>2. k = 0 => g[k] = {element}
      BY <1>5, <1>6, <2>3 DEF ReachRule
    <3> QED
      BY <2>3, <3>1, <3>2
  <2>5. k - 1 \in 0..n /\ k - 1 \in Nat /\ ~(k <= k - 1) /\ (k - 1) + 1 = k
    BY <1>2, <2>3, <2>4
  <2>6. Reaches(g[k - 1], elements, links, element, k - 1)
    <3>1. k - 1 \notin Bad
      <4> HIDE DEF Bad
      <4> QED
        BY <2>2, <2>5
    <3> QED
      BY <2>5, <3>1
  <2>7. g[k] = Widened(g[k - 1], links)
    BY <1>5, <1>6, <2>3, <2>4 DEF ReachRule
  <2>8. PICK j, S : j = k - 1 /\ S = g[k - 1]
    OBVIOUS
  <2>9. Reaches(Widened(S, links), elements, links, element, j + 1)
    BY <2>5, <2>6, <2>8, WidenedReaches
  <2> QED
    BY <2>3, <2>5, <2>7, <2>8, <2>9
<1>8. Reaches(g[n], elements, links, element, n)
  BY <1>2, <1>7
<1>9. ClosedUnder(g[n], links)
  <2>1. Cardinality(g[n]) <= n /\ Cardinality(g[n]) \in Nat
    <3>1. g[n] \in SUBSET elements
      BY <1>8 DEF Reaches
    <3> QED
      BY <1>1, <3>1, FS_Subset, FS_CardinalityType
  <2> QED
    BY <1>2, <1>8, <2>1 DEF Reaches
<1> QED
  BY <1>4, <1>6, <1>8, <1>9 DEF Reaches

-----------------------------------------------------------------------------
(* Walks: from a node over neighbours, not back, and past no other node.   *)
Walk(t, F, N) ==
    /\ t \in Seq(F) /\ Len(t) >= 2
    /\ \A i \in 1..(Len(t) - 1) : t[i + 1] \in ValidNeighbors(F, t[i])
    /\ t[1] \in N
    /\ \A i \in 2..(Len(t) - 1) : t[i] \notin N /\ t[i - 1] # t[i + 1]

LEMMA WalkIs ==
    ASSUME NEW F, NEW N, NEW t, Walk(t, F, N)
    PROVE  /\ t \in Seq(F) /\ Len(t) \in Nat /\ Len(t) >= 2 /\ t # <<>> /\ DOMAIN t = 1..Len(t)
           /\ \A i \in 1..Len(t) : t[i] \in F
           /\ \A i \in 1..(Len(t) - 1) : i \in 1..Len(t) /\ i + 1 \in 1..Len(t)
           /\ \A i \in 2..Len(t) : i - 1 \in 1..(Len(t) - 1) /\ (i - 1) + 1 = i
           /\ Head(t) = t[1] /\ Last(t) = t[Len(t)] /\ Head(t) \in F /\ Last(t) \in F
           /\ t[Len(t) - 1] \in F /\ Last(t) \in ValidNeighbors(F, t[Len(t) - 1])
           /\ {t[Len(t) - 1], Last(t)} \in Steps(t)
<1>1. t \in Seq(F) /\ Len(t) >= 2
  BY DEF Walk
<1>2. Len(t) \in Nat /\ t # <<>> /\ DOMAIN t = 1..Len(t) /\ \A i \in 1..Len(t) : t[i] \in F
  BY <1>1
<1>3. /\ \A i \in 1..(Len(t) - 1) : i \in 1..Len(t) /\ i + 1 \in 1..Len(t)
      /\ \A i \in 2..Len(t) : i - 1 \in 1..(Len(t) - 1) /\ (i - 1) + 1 = i
  BY <1>2
<1>4. 1 \in 1..Len(t) /\ Len(t) \in 1..Len(t) /\ Len(t) \in 2..Len(t)
  BY <1>1, <1>2
<1>5. Head(t) = t[1] /\ Last(t) = t[Len(t)]
  BY <1>1, <1>2 DEF Last
<1>6. PICK k : k = Len(t) - 1
  OBVIOUS
<1>7. k \in 1..(Len(t) - 1) /\ k + 1 = Len(t) /\ k \in 1..Len(t)
  BY <1>2, <1>3, <1>4, <1>6
<1>8. t[k + 1] \in ValidNeighbors(F, t[k])
  BY <1>7 DEF Walk
<1>9. {t[k], t[k + 1]} \in Steps(t)
  BY <1>7 DEF Steps
<1> QED
  BY <1>1, <1>2, <1>3, <1>4, <1>5, <1>6, <1>7, <1>8, <1>9

StartsWith(t, c, d, F, N) ==
    /\ Walk(t, F, N) /\ Steps(t) = {{c, d}}
    /\ Last(t) = d /\ t[Len(t) - 1] = c /\ t # <<>>

LEMMA WalkStarts ==
    ASSUME NEW F \in SUBSET GridCells, NEW N \in SUBSET F, NEW c \in N, NEW d \in ValidNeighbors(F, c),
           NEW t, t = <<c, d>>
    PROVE  StartsWith(t, c, d, F, N)
<1>1. d \in F /\ c \in F
  BY NeighborsAre
<1>2. t \in Seq(F) /\ Len(t) = 2 /\ t[1] = c /\ t[2] = d
  BY <1>1
<1>3. 1..(Len(t) - 1) = {1} /\ 2..(Len(t) - 1) = {}
  BY <1>2
<1>4. Walk(t, F, N)
  BY <1>2, <1>3 DEF Walk
<1>5. Steps(t) = {{c, d}}
  BY <1>2, <1>3 DEF Steps
<1>6. Last(t) = d /\ t[Len(t) - 1] = c /\ t # <<>>
  BY <1>2 DEF Last
<1> QED
  BY <1>4, <1>5, <1>6 DEF StartsWith

LongerBy(longer, t, d, F, N) ==
    /\ Walk(longer, F, N) /\ Steps(longer) = Steps(t) \cup {{Last(t), d}}
    /\ Last(longer) = d /\ longer[Len(longer) - 1] = Last(t) /\ longer # <<>>

LEMMA WalkGoesOn ==
    ASSUME NEW F \in SUBSET GridCells, NEW N \in SUBSET F, NEW t, Walk(t, F, N),
           NEW d \in ValidNeighbors(F, Last(t)), Last(t) \notin N, d # t[Len(t) - 1],
           NEW longer, longer = Append(t, d)
    PROVE  LongerBy(longer, t, d, F, N)
<1>1. /\ t \in Seq(F) /\ Len(t) \in Nat /\ Len(t) >= 2 /\ Last(t) = t[Len(t)] /\ Last(t) \in F
  BY WalkIs
<1>2. d \in F
  BY <1>1, NeighborsAre
<1>3. PICK n : n = Len(t)
  OBVIOUS
<1>4. /\ longer \in Seq(F) /\ Len(longer) = n + 1 /\ longer[n + 1] = d
      /\ \A i \in 1..n : longer[i] = t[i]
  BY <1>1, <1>2, <1>3
<1>5. n \in Nat /\ n >= 2 /\ Last(t) = t[n] /\ n \in 1..n
  BY <1>1, <1>3
<1>6. ASSUME NEW i \in 1..n
      PROVE  /\ longer[i + 1] \in ValidNeighbors(F, longer[i])
             /\ {longer[i], longer[i + 1]} \in Steps(t) \cup {{t[n], d}}
  <2>1. CASE i = n
    BY <1>4, <1>5, <2>1
  <2>2. CASE i # n
    <3>1. i \in 1..(n - 1) /\ i + 1 \in 1..n
      BY <1>5, <2>2
    <3>2. longer[i] = t[i] /\ longer[i + 1] = t[i + 1]
      BY <1>4, <3>1
    <3>3. t[i + 1] \in ValidNeighbors(F, t[i]) /\ {t[i], t[i + 1]} \in Steps(t)
      BY <1>3, <3>1 DEF Walk, Steps
    <3> QED
      BY <3>2, <3>3
  <2> QED
    BY <2>1, <2>2
<1>7. ASSUME NEW i \in 2..n PROVE longer[i] \notin N /\ longer[i - 1] # longer[i + 1]
  <2>1. CASE i = n
    <3>1. n - 1 \in 1..n
      BY <1>5
    <3>2. longer[n] = t[n] /\ longer[n - 1] = t[n - 1] /\ longer[n + 1] = d
      BY <1>4, <1>5, <3>1
    <3> QED
      BY <1>3, <1>5, <2>1, <3>2
  <2>2. CASE i # n
    <3>1. i \in 2..(n - 1) /\ i \in 1..n /\ i - 1 \in 1..n /\ i + 1 \in 1..n
      BY <1>5, <2>2
    <3>2. longer[i] = t[i] /\ longer[i + 1] = t[i + 1] /\ longer[i - 1] = t[i - 1]
      BY <1>4, <3>1
    <3> QED
      BY <1>3, <3>1, <3>2 DEF Walk
  <2> QED
    BY <2>1, <2>2
<1>8. longer[1] \in N
  <2>1. 1 \in 1..n
    BY <1>5
  <2> QED
    BY <1>4, <2>1 DEF Walk
<1>9. (n + 1) - 1 = n
  BY <1>5
<1>10. Walk(longer, F, N)
  <2>1. Len(longer) >= 2 /\ Len(longer) - 1 = n
    BY <1>4, <1>5
  <2> QED
    BY <1>4, <1>6, <1>7, <1>8, <2>1 DEF Walk
<1>11. Steps(longer) = Steps(t) \cup {{t[n], d}}
  <2>1. \A s \in Steps(longer) : s \in Steps(t) \cup {{t[n], d}}
    BY <1>4, <1>6, <1>9 DEF Steps
  <2>2. {t[n], d} \in Steps(longer)
    <3>1. {longer[n], longer[n + 1]} \in Steps(longer)
      BY <1>4, <1>5, <1>9 DEF Steps
    <3> QED
      BY <1>4, <1>5, <3>1
  <2>3. ASSUME NEW i \in 1..(n - 1) PROVE {t[i], t[i + 1]} \in Steps(longer)
    <3>1. i \in 1..n /\ i + 1 \in 1..n
      BY <1>5
    <3>2. {longer[i], longer[i + 1]} \in Steps(longer)
      BY <1>4, <1>9, <3>1 DEF Steps
    <3> QED
      BY <1>4, <3>1, <3>2
  <2>4. \A s \in Steps(t) : s \in Steps(longer)
    BY <1>3, <2>3 DEF Steps
  <2> QED
    BY <2>1, <2>2, <2>4
<1>12. Last(longer) = d /\ longer[Len(longer) - 1] = t[n] /\ longer # <<>>
  BY <1>4, <1>5, <1>9 DEF Last
<1> QED
  BY <1>3, <1>5, <1>10, <1>11, <1>12 DEF LongerBy

(* Which way round a walk between nodes is written does not matter.        *)
LEMMA WalkTurns ==
    ASSUME NEW F \in SUBSET GridCells, NEW N \in SUBSET F, NEW t, Walk(t, F, N), Last(t) \in N
    PROVE  /\ Walk(Canonical(t), F, N) /\ Last(Canonical(t)) \in N
           /\ Steps(Canonical(t)) = Steps(t)
<1>1. /\ t \in Seq(F) /\ Len(t) \in Nat /\ Len(t) >= 2 /\ Last(t) = t[Len(t)]
      /\ \A i \in 1..Len(t) : t[i] \in F
  BY WalkIs
<1>2. PICK n, back : n = Len(t) /\ back = Reverse(t)
  OBVIOUS
<1>3. /\ n \in Nat /\ n >= 2 /\ back = [i \in 1..n |-> t[(n - i) + 1]]
  BY <1>1, <1>2 DEF Reverse
<1>4. \A i \in 1..n : (n - i) + 1 \in 1..n
  BY <1>3
<1>5. back \in Seq(F) /\ Len(back) = n /\ \A i \in 1..n : back[i] = t[(n - i) + 1]
  <2>1. back \in [1..n -> F]
    BY <1>1, <1>2, <1>3, <1>4
  <2> QED
    BY <1>3, <2>1
<1>6. ASSUME NEW i \in 1..(n - 1)
      PROVE  /\ n - i \in 1..(n - 1) /\ back[i] = t[(n - i) + 1] /\ back[i + 1] = t[n - i]
             /\ back[i + 1] \in ValidNeighbors(F, back[i])
             /\ {back[i], back[i + 1]} \in Steps(t)
             /\ {t[i], t[i + 1]} \in Steps(back)
  <2>1. n - i \in 1..(n - 1) /\ i \in 1..n /\ i + 1 \in 1..n /\ (n - (i + 1)) + 1 = n - i
    BY <1>3
  <2>2. back[i] = t[(n - i) + 1] /\ back[i + 1] = t[n - i]
    BY <1>5, <2>1
  <2>3. PICK j : j = n - i
    OBVIOUS
  <2>4. j \in 1..(n - 1) /\ j \in 1..n /\ j + 1 \in 1..n /\ (n - j) = i /\ (n - (j + 1)) + 1 = i
    BY <1>3, <2>1, <2>3
  <2>5. t[j + 1] \in ValidNeighbors(F, t[j]) /\ {t[j], t[j + 1]} \in Steps(t)
    BY <1>2, <2>4 DEF Walk, Steps
  <2>6. t[j] \in ValidNeighbors(F, t[j + 1])
    BY <1>1, <1>2, <2>4, <2>5, NeighborsAre
  <2>7. back[j] = t[i + 1] /\ back[j + 1] = t[i]
    BY <1>5, <2>4
  <2>8. {back[j], back[j + 1]} \in Steps(back)
    BY <1>5, <2>4 DEF Steps
  <2>9. {t[i], t[i + 1]} = {back[j], back[j + 1]} /\ {back[i], back[i + 1]} = {t[j], t[j + 1]}
    BY <2>2, <2>3, <2>7
  <2> QED
    BY <2>1, <2>2, <2>3, <2>5, <2>6, <2>8, <2>9
<1>7. ASSUME NEW i \in 2..(n - 1) PROVE back[i] \notin N /\ back[i - 1] # back[i + 1]
  <2>1. PICK j : j = (n - i) + 1
    OBVIOUS
  <2>2. /\ j \in 2..(n - 1) /\ i \in 1..n /\ i - 1 \in 1..n /\ i + 1 \in 1..n
        /\ (n - (i - 1)) + 1 = j + 1 /\ (n - (i + 1)) + 1 = j - 1
    BY <1>3, <2>1
  <2>3. back[i] = t[j] /\ back[i - 1] = t[j + 1] /\ back[i + 1] = t[j - 1]
    BY <1>5, <2>1, <2>2
  <2>4. t[j] \notin N /\ t[j - 1] # t[j + 1]
    BY <1>2, <2>2 DEF Walk
  <2> QED
    BY <2>3, <2>4
<1>8. back[1] = t[n] /\ back[n] = t[1]
  <2>1. 1 \in 1..n /\ n \in 1..n /\ (n - 1) + 1 = n /\ (n - n) + 1 = 1
    BY <1>3
  <2> QED
    BY <1>5, <2>1
<1>9. Walk(back, F, N)
  BY <1>1, <1>2, <1>3, <1>5, <1>6, <1>7, <1>8 DEF Walk
<1>10. Last(back) = t[1] /\ t[1] \in N
  BY <1>5, <1>8 DEF Last, Walk
<1>11. Steps(back) = Steps(t)
  <2>1. ASSUME NEW s \in Steps(back) PROVE s \in Steps(t)
    <3>1. PICK i \in 1..(n - 1) : s = {back[i], back[i + 1]}
      BY <1>5 DEF Steps
    <3> QED
      BY <1>6, <3>1
  <2>2. ASSUME NEW s \in Steps(t) PROVE s \in Steps(back)
    <3>1. PICK i \in 1..(n - 1) : s = {t[i], t[i + 1]}
      BY <1>2 DEF Steps
    <3> QED
      BY <1>6, <3>1
  <2> QED
    BY <2>1, <2>2
<1> QED
  <2>1. Canonical(t) = back \/ Canonical(t) = t
    BY <1>2 DEF Canonical
  <2> QED
    BY <1>9, <1>10, <1>11, <2>1

(* The cells that are sorted have a first one.                             *)
LEMMA FirstIs ==
    ASSUME NEW S \in SUBSET GridCells, S # {}
    PROVE  First(S) \in S /\ \A d \in S : d # First(S) => CellBefore(First(S), d)
<1>1. \A c \in S : c[1] \in Nat /\ c[2] \in Nat /\ c = <<c[1], c[2]>>
  BY ApartIs
<1> DEFINE Rows == {c[2] : c \in S}
<1>2. PICK r \in Rows : \A y \in Rows : r <= y
  <2>1. Rows \in SUBSET Nat /\ Rows # {}
    BY <1>1
  <2> QED
    BY <2>1, LeastNumber
<1> DEFINE Columns == {c[1] : c \in {d \in S : d[2] = r}}
<1>3. Columns \in SUBSET Nat /\ Columns # {}
  <2>1. PICK d \in S : d[2] = r
    BY <1>2
  <2>2. d[1] \in Columns
    BY <2>1
  <2>3. \A c \in S : c[1] \in Nat
    BY <1>1
  <2> QED
    BY <2>2, <2>3
<1>4. PICK x \in Columns : \A y \in Columns : x <= y
  BY <1>3, LeastNumber
<1>5. PICK c \in S : c[2] = r /\ c[1] = x
  BY <1>4
<1>6. ASSUME NEW d \in S \ {c} PROVE CellBefore(c, d)
  <2>1. r <= d[2] /\ (d[2] = r => x <= d[1])
    BY <1>2, <1>4
  <2>2. c[1] # d[1] \/ c[2] # d[2]
    BY <1>1, <1>6
  <2> QED
    BY <1>1, <1>5, <2>1, <2>2 DEF CellBefore
<1> QED
  BY <1>6 DEF First

(* The pair that is traced next is one of those that are left.             *)
LEMMA FirstPairIs ==
    ASSUME todo \in SUBSET (GridCells \X GridCells), todo # {}
    PROVE  FirstPair \in todo
<1>1. \A p \in todo : p = <<p[1], p[2]>> /\ p[1] \in GridCells /\ p[2] \in GridCells
  OBVIOUS
<1> DEFINE Starts == {p[1] : p \in todo}
<1>2. Starts \in SUBSET GridCells /\ Starts # {}
  BY <1>1
<1>3. PICK c : c = First(Starts)
  OBVIOUS
<1>5. c \in Starts /\ \A d \in Starts : d # c => CellBefore(c, d)
  <2> HIDE DEF Starts
  <2> QED
    BY <1>2, <1>3, FirstIs
<1> DEFINE Seconds == {p[2] : p \in {q \in todo : q[1] = c}}
<1>6. Seconds \in SUBSET GridCells /\ Seconds # {}
  BY <1>1, <1>5
<1>7. PICK d : d = First(Seconds)
  OBVIOUS
<1>8. d \in Seconds /\ \A b \in Seconds : b # d => CellBefore(d, b)
  <2> HIDE DEF Seconds
  <2> QED
    BY <1>6, <1>7, FirstIs
<1>9. PICK p \in todo : p[1] = c /\ p[2] = d
  BY <1>8
<1>10. ASSUME NEW q \in todo \ {p}
       PROVE  CellBefore(p[1], q[1]) \/ (p[1] = q[1] /\ CellBefore(p[2], q[2]))
  <2>1. CASE q[1] # c
    BY <1>5, <1>9, <2>1
  <2>2. CASE q[1] = c
    <3>1. q[2] \in Seconds /\ q[2] # d
      BY <1>1, <1>9, <1>10, <2>2
    <3> QED
      BY <1>8, <1>9, <2>2, <3>1
  <2> QED
    BY <2>1, <2>2
<1> QED
  BY <1>10 DEF FirstPair

-----------------------------------------------------------------------------
(* Passages: cells that are no nodes, and with no diagonal step.           *)
Passages(F, N) ==
    {x \in F \ N : /\ OrthogonalNeighbors(F, x) # {}
                   /\ \A d \in ValidNeighbors(F, x) : Apart(x, d) = 1}

(* A trace that comes in on a passage has one way on, the other one.       *)
LEMMA PassageIs ==
    ASSUME NEW g, NEW F \in SUBSET GridCells, NEW x \in Passages(F, NodeCells(g, F))
    PROVE  /\ x \in F /\ x \notin NodeCells(g, F)
           /\ ValidNeighbors(F, x) = OrthogonalNeighbors(F, x)
           /\ HasTwo(ValidNeighbors(F, x))
           /\ \A p, q \in ValidNeighbors(F, x) : p # q => ValidNeighbors(F, x) = {p, q}
<1>1. /\ x \in F \ NodeCells(g, F) /\ OrthogonalNeighbors(F, x) # {}
      /\ \A d \in ValidNeighbors(F, x) : Apart(x, d) = 1
  BY DEF Passages
<1>2. ValidNeighbors(F, x) = OrthogonalNeighbors(F, x)
  BY <1>1, NeighborsAre
<1>3. /\ \A p, q \in OrthogonalNeighbors(F, x) : p # q => OrthogonalNeighbors(F, x) = {p, q}
      /\ HasTwo(OrthogonalNeighbors(F, x))
  BY <1>1, NoNodeIs
<1> QED
  BY <1>1, <1>2, <1>3

(* What is no node has a diagonal step at most where the four cells around *)
(* a point are free, and these are all its neighbours.                     *)
LEMMA CornerIs ==
    ASSUME NEW g, NEW F \in SUBSET GridCells, NEW x \in F \ NodeCells(g, F),
           NEW d \in ValidNeighbors(F, x), Apart(x, d) = 2
    PROVE  OrthogonalNeighbors(F, x) \in SUBSET Around(x, d)
<1>1. PICK h, v : h = <<x[1], d[2]>> /\ v = <<d[1], x[2]>>
  OBVIOUS
<1>2. h \in OrthogonalNeighbors(F, x) /\ v \in OrthogonalNeighbors(F, x) /\ h # v
  BY <1>1, AroundIs
<1>3. OrthogonalNeighbors(F, x) = {h, v}
  BY <1>2, NoNodeIs
<1> QED
  BY <1>1, <1>3 DEF Around

LEMMA PassageNext ==
    ASSUME NEW g, NEW F \in SUBSET GridCells, NEW x \in Passages(F, NodeCells(g, F)),
           NEW y \in ValidNeighbors(F, x)
    PROVE  y \in Passages(F, NodeCells(g, F)) \/ y \in NodeCells(g, F)
<1>1. x \in F /\ y \in OrthogonalNeighbors(F, x) /\ \A d \in ValidNeighbors(F, x) : Apart(x, d) = 1
  BY PassageIs DEF Passages
<1>2. y \in F /\ x \in OrthogonalNeighbors(F, y)
  BY <1>1, NeighborsAre
<1>3. SUFFICES ASSUME y \notin NodeCells(g, F), NEW d \in ValidNeighbors(F, y), Apart(y, d) # 1
               PROVE  FALSE
  BY <1>2 DEF Passages
<1>4. Apart(y, d) = 2
  BY <1>2, <1>3, NeighborsAre
<1>5. x \in Around(y, d)
  BY <1>2, <1>3, <1>4, CornerIs
<1>6. \E b \in ValidNeighbors(F, x) : Apart(x, b) = 2
  <2>1. HasDiagonal(F, x, Around(y, d))
    BY <1>2, <1>3, <1>4, <1>5, AroundIs
  <2> QED
    BY <2>1 DEF HasDiagonal
<1> QED
  BY <1>1, <1>6

LEMMA NodesAreCells ==
    ASSUME NEW g, NEW F \in SUBSET GridCells
    PROVE  NodeCells(g, F) \in SUBSET F
<1>1. F # {} => First(F) \in F
  BY FirstIs
<1> QED
  BY <1>1 DEF NodeCells

-----------------------------------------------------------------------------
(* The state of the tracing: t is the trace in progress, V the segments    *)
(* walked and E the edges.                                                 *)
Walks(F, N, t, V, E) ==
    /\ t = <<>> \/ (Walk(t, F, N) /\ Steps(t) \in SUBSET V)
    /\ \A e \in E : Walk(e, F, N) /\ Last(e) \in N /\ Steps(e) \in SUBSET V

StepsOnce(t, E) ==
    /\ \A e, f \in E : e # f => Steps(e) \cap Steps(f) = {}
    /\ t # <<>> => \A e \in E : Steps(t) \cap Steps(e) = {}

(* A passage is walked from one side to the other, or not at all, but for  *)
(* the one the trace has come to.                                          *)
Entered(F, x, t, V) == \A y \in ValidNeighbors(F, x) : {x, y} \in V => y = t[Len(t) - 1]
AllOrNone(F, x, V) == \A p, q \in ValidNeighbors(F, x) : {x, p} \in V => {x, q} \in V

Passed(F, N, t, V) ==
    \A x \in Passages(F, N) :
        IF t # <<>> /\ Last(t) = x THEN Entered(F, x, t, V) ELSE AllOrNone(F, x, V)

(* What is walked in a passage, or from node to node, is not lost.         *)
NotLost(F, N, t, V, E) ==
    \A s \in V :
        s \cap Passages(F, N) # {} \/ s \in SUBSET N =>
            (t # <<>> /\ s \in Steps(t)) \/ \E e \in E : s \in Steps(e)

Tracing(F, N, t, V, E) ==
    Walks(F, N, t, V, E) /\ StepsOnce(t, E) /\ Passed(F, N, t, V) /\ NotLost(F, N, t, V, E)

(* A step from a to d that nobody has walked is walked by the trace.       *)
LEMMA PassedGoesOn ==
    ASSUME NEW g, NEW F \in SUBSET GridCells, NEW N, N = NodeCells(g, F), NEW t, NEW V,
           Passed(F, N, t, V), NEW a \in F, NEW d \in ValidNeighbors(F, a), {a, d} \notin V,
           IF t = <<>> THEN a \in N
           ELSE /\ Last(t) = a /\ t[Len(t) - 1] \in ValidNeighbors(F, a)
                /\ t[Len(t) - 1] # d /\ {a, t[Len(t) - 1]} \in V,
           NEW u, u # <<>>, Last(u) = d, u[Len(u) - 1] = a
    PROVE  Passed(F, N, u, V \cup {{a, d}})
<1>1. PICK W : W = V \cup {{a, d}}
  OBVIOUS
<1>2. d \in F /\ d # a /\ a \in ValidNeighbors(F, d)
  BY NeighborIs
<1>3. ASSUME NEW x \in Passages(F, N)
      PROVE  IF x = d THEN Entered(F, x, u, W) ELSE AllOrNone(F, x, W)
  <2>1. /\ x \in F /\ x \notin N
        /\ \A p, q \in ValidNeighbors(F, x) : p # q => ValidNeighbors(F, x) = {p, q}
        /\ \A y \in ValidNeighbors(F, x) : y # x
    <3>1. x \in F /\ x \notin N
      BY DEF Passages
    <3>2. \A p, q \in ValidNeighbors(F, x) : p # q => ValidNeighbors(F, x) = {p, q}
      BY PassageIs
    <3>3. \A y \in ValidNeighbors(F, x) : y # x
      BY <3>1, NeighborsAre
    <3> QED
      BY <3>1, <3>2, <3>3
  <2>2. CASE x = d
    <3>1. ~(t # <<>> /\ Last(t) = x)
      BY <1>2, <2>2
    <3>2. AllOrNone(F, x, V)
      BY <3>1 DEF Passed
    <3>3. \A y \in ValidNeighbors(F, x) : {x, y} \notin V
      <4>1. {x, a} \notin V /\ a \in ValidNeighbors(F, x)
        <5>1. {x, a} = {a, d}
          BY <2>2
        <5> QED
          BY <1>2, <2>2, <5>1
      <4> QED
        BY <3>2, <4>1 DEF AllOrNone
    <3>4. \A y \in ValidNeighbors(F, x) : {x, y} \in W => y = a
      <4>1. ASSUME NEW y, {x, y} = {a, d} PROVE y = a
        BY <1>2, <2>2, <4>1
      <4> QED
        BY <1>1, <3>3, <4>1
    <3> QED
      BY <2>2, <3>4 DEF Entered
  <2>3. CASE x # d /\ x = a
    <3>1. t # <<>> /\ Last(t) = x
      BY <2>1, <2>3
    <3>2. PICK b : b = t[Len(t) - 1]
      OBVIOUS
    <3>3. b \in ValidNeighbors(F, x) /\ b # d /\ {x, b} \in V /\ d \in ValidNeighbors(F, x)
      BY <2>3, <3>1, <3>2
    <3>4. ASSUME NEW p \in ValidNeighbors(F, x), NEW q \in ValidNeighbors(F, x), {x, p} \in W
          PROVE  {x, q} \in W
      <4>1. ValidNeighbors(F, x) = {d, b}
        BY <2>1, <3>3
      <4>2. {x, d} \in W
        BY <1>1, <2>3
      <4> QED
        BY <1>1, <3>3, <3>4, <4>1, <4>2
    <3> QED
      BY <2>3, <3>4 DEF AllOrNone
  <2>4. CASE x # d /\ x # a
    <3>1. AllOrNone(F, x, V)
      <4>1. ~(t # <<>> /\ Last(t) = x)
        BY <2>4
      <4> QED
        BY <4>1 DEF Passed
    <3>2. \A y : {x, y} \in W <=> {x, y} \in V
      <4>1. \A y : {x, y} # {a, d}
        BY <2>4
      <4> QED
        BY <1>1, <4>1
    <3> QED
      BY <2>4, <3>1, <3>2 DEF AllOrNone
  <2> QED
    BY <2>2, <2>3, <2>4
<1> QED
  BY <1>1, <1>3 DEF Passed

LEMMA TracingStarts ==
    ASSUME NEW g, NEW F \in SUBSET GridCells, NEW N, N = NodeCells(g, F), NEW V, NEW E,
           Tracing(F, N, <<>>, V, E), NEW c \in N, NEW d \in ValidNeighbors(F, c), {c, d} \notin V
    PROVE  Tracing(F, N, <<c, d>>, V \cup {{c, d}}, E)
<1>1. N \in SUBSET F /\ c \in F
  BY NodesAreCells
<1>2. PICK t, W : t = <<c, d>> /\ W = V \cup {{c, d}}
  OBVIOUS
<1>3. /\ Walk(t, F, N) /\ Steps(t) = {{c, d}} /\ Last(t) = d /\ t[Len(t) - 1] = c
      /\ t # <<>>
  <2>1. StartsWith(t, c, d, F, N)
    BY <1>1, <1>2, WalkStarts
  <2> QED
    BY <2>1 DEF StartsWith
<1>4. /\ \A e \in E : Walk(e, F, N) /\ Last(e) \in N /\ Steps(e) \in SUBSET V
      /\ \A e, f \in E : e # f => Steps(e) \cap Steps(f) = {}
  BY DEF Tracing, Walks, StepsOnce
<1>5. Walks(F, N, t, W, E)
  <2>1. \A e \in E : Steps(e) \in SUBSET W
    BY <1>2, <1>4
  <2>2. Steps(t) \in SUBSET W
    BY <1>2, <1>3
  <2> QED
    BY <1>3, <1>4, <2>1, <2>2 DEF Walks
<1>6. StepsOnce(t, E)
  <2>1. \A e \in E : Steps(t) \cap Steps(e) = {}
    BY <1>3, <1>4
  <2> QED
    BY <1>4, <2>1 DEF StepsOnce
<1>7. Passed(F, N, t, W)
  <2>1. PICK u : u = <<>>
    OBVIOUS
  <2>2. Passed(F, N, u, V)
    BY <2>1 DEF Tracing
  <2> QED
    BY <1>1, <1>2, <1>3, <2>1, <2>2, PassedGoesOn
<1>8. NotLost(F, N, t, W, E)
  <2>1. ASSUME NEW s \in V, s \cap Passages(F, N) # {} \/ s \in SUBSET N
        PROVE  \E e \in E : s \in Steps(e)
    BY <2>1 DEF Tracing, NotLost
  <2> QED
    BY <1>2, <1>3, <2>1 DEF NotLost
<1> QED
  BY <1>2, <1>5, <1>6, <1>7, <1>8 DEF Tracing

LEMMA TracingGoesOn ==
    ASSUME NEW g, NEW F \in SUBSET GridCells, NEW N, N = NodeCells(g, F), NEW t, NEW V, NEW E,
           Tracing(F, N, t, V, E), t # <<>>, Last(t) \notin N,
           NEW d \in ValidNeighbors(F, Last(t)), d # t[Len(t) - 1], {Last(t), d} \notin V
    PROVE  Tracing(F, N, Append(t, d), V \cup {{Last(t), d}}, E)
<1>1. N \in SUBSET F
  BY NodesAreCells
<1>2. Walk(t, F, N) /\ Steps(t) \in SUBSET V
  BY DEF Tracing, Walks
<1>3. PICK a, b, u, W : a = Last(t) /\ b = t[Len(t) - 1] /\ u = Append(t, d) /\ W = V \cup {{a, d}}
  OBVIOUS
<1>4. a \in F /\ b \in F /\ a \in ValidNeighbors(F, b) /\ {b, a} \in Steps(t)
  BY <1>2, <1>3, WalkIs
<1>5. b \in ValidNeighbors(F, a) /\ {a, b} \in V
  <2>1. {a, b} = {b, a}
    OBVIOUS
  <2> QED
    BY <1>2, <1>4, <2>1, NeighborIs
<1>6. /\ Walk(u, F, N) /\ Steps(u) = Steps(t) \cup {{a, d}} /\ Last(u) = d
      /\ u[Len(u) - 1] = a /\ u # <<>>
  <2>1. u = Append(t, d) /\ d \in ValidNeighbors(F, Last(t)) /\ Last(t) \notin N /\ d # t[Len(t) - 1]
    BY <1>3
  <2>2. LongerBy(u, t, d, F, N)
    BY <1>1, <1>2, <2>1, WalkGoesOn
  <2> QED
    BY <1>3, <2>2 DEF LongerBy
<1>7. /\ \A e \in E : Walk(e, F, N) /\ Last(e) \in N /\ Steps(e) \in SUBSET V
      /\ \A e, f \in E : e # f => Steps(e) \cap Steps(f) = {}
      /\ \A e \in E : Steps(t) \cap Steps(e) = {}
  BY DEF Tracing, Walks, StepsOnce
<1>8. Walks(F, N, u, W, E)
  <2>1. \A e \in E : Steps(e) \in SUBSET W
    BY <1>3, <1>7
  <2>2. Steps(u) \in SUBSET W
    BY <1>2, <1>3, <1>6
  <2> QED
    BY <1>6, <1>7, <2>1, <2>2 DEF Walks
<1>9. StepsOnce(u, E)
  <2>1. \A e \in E : Steps(u) \cap Steps(e) = {}
    BY <1>3, <1>6, <1>7
  <2> QED
    BY <1>7, <2>1 DEF StepsOnce
<1>10. Passed(F, N, u, W)
  <2>1. Passed(F, N, t, V)
    BY DEF Tracing
  <2>2. d \in ValidNeighbors(F, a) /\ {a, d} \notin V /\ b # d
    BY <1>3
  <2>3. /\ Last(t) = a /\ t[Len(t) - 1] \in ValidNeighbors(F, a)
        /\ t[Len(t) - 1] # d /\ {a, t[Len(t) - 1]} \in V
    BY <1>3, <1>5
  <2>4. Passed(F, N, u, V \cup {{a, d}})
    BY <1>4, <1>6, <2>1, <2>2, <2>3, PassedGoesOn
  <2> QED
    BY <1>3, <2>4
<1>11. NotLost(F, N, u, W, E)
  <2>1. ASSUME NEW s \in V, s \cap Passages(F, N) # {} \/ s \in SUBSET N
        PROVE  s \in Steps(t) \/ \E e \in E : s \in Steps(e)
    BY <2>1 DEF Tracing, NotLost
  <2> QED
    BY <1>3, <1>6, <2>1 DEF NotLost
<1> QED
  BY <1>3, <1>8, <1>9, <1>10, <1>11 DEF Tracing

(* A trace that has come to a passage can go on.                           *)
LEMMA NotInAPassage ==
    ASSUME NEW g, NEW F \in SUBSET GridCells, NEW N, N = NodeCells(g, F), NEW t, NEW V, NEW E,
           Tracing(F, N, t, V, E), t # <<>>, Last(t) \in Passages(F, N)
    PROVE  LET ways == ValidNeighbors(F, Last(t)) \ {t[Len(t) - 1]}
           IN  ways # {} /\ {Last(t), First(ways)} \notin V
<1>1. Walk(t, F, N)
  BY DEF Tracing, Walks
<1>2. PICK a, b : a = Last(t) /\ b = t[Len(t) - 1]
  OBVIOUS
<1>3. a \in F /\ b \in F /\ a \in ValidNeighbors(F, b)
  BY <1>1, <1>2, WalkIs
<1>4. b \in ValidNeighbors(F, a)
  BY <1>3, NeighborIs
<1>5. PICK ways : ways = ValidNeighbors(F, a) \ {b}
  OBVIOUS
<1>6. PICK q : q # b /\ ways = {q}
  <2>1. a \in Passages(F, NodeCells(g, F))
    BY <1>2
  <2>2. HasTwo(ValidNeighbors(F, a))
    BY <2>1, PassageIs
  <2>3. PICK p, q : p # q /\ ValidNeighbors(F, a) = {p, q}
    BY <2>2 DEF HasTwo
  <2>4. {p, q} \ {p} = {q} /\ {p, q} \ {q} = {p}
    BY <2>3
  <2> QED
    BY <1>4, <1>5, <2>3, <2>4
<1>7. ways \in SUBSET GridCells
  BY <1>5 DEF ValidNeighbors
<1>8. First(ways) = q
  BY <1>6, <1>7, FirstIs
<1>9. {a, q} \notin V
  <2>1. Entered(F, a, t, V)
    BY <1>2 DEF Tracing, Passed
  <2>2. q \in ValidNeighbors(F, a)
    BY <1>5, <1>6
  <2> QED
    BY <1>2, <1>6, <2>1, <2>2 DEF Entered
<1> QED
  BY <1>2, <1>5, <1>6, <1>8, <1>9

LEMMA TracingArrives ==
    ASSUME NEW g, NEW F \in SUBSET GridCells, NEW N, N = NodeCells(g, F), NEW t, NEW V, NEW E,
           Tracing(F, N, t, V, E), t # <<>>, Last(t) \in N
    PROVE  Tracing(F, N, <<>>, V, E \cup {Canonical(t)})
<1>1. N \in SUBSET F
  BY NodesAreCells
<1>2. Walk(t, F, N) /\ Steps(t) \in SUBSET V
  BY DEF Tracing, Walks
<1>3. PICK h, D : h = Canonical(t) /\ D = E \cup {h}
  OBVIOUS
<1>4. Walk(h, F, N) /\ Last(h) \in N /\ Steps(h) = Steps(t)
  BY <1>1, <1>2, <1>3, WalkTurns
<1>5. /\ \A e \in E : Walk(e, F, N) /\ Last(e) \in N /\ Steps(e) \in SUBSET V
      /\ \A e, f \in E : e # f => Steps(e) \cap Steps(f) = {}
      /\ \A e \in E : Steps(t) \cap Steps(e) = {}
  BY DEF Tracing, Walks, StepsOnce
<1>6. Walks(F, N, <<>>, V, D)
  BY <1>2, <1>3, <1>4, <1>5 DEF Walks
<1>7. StepsOnce(<<>>, D)
  <2>1. ASSUME NEW e \in D, NEW f \in D, e # f PROVE Steps(e) \cap Steps(f) = {}
    BY <1>3, <1>4, <1>5, <2>1
  <2> QED
    BY <2>1 DEF StepsOnce
<1>8. Passed(F, N, <<>>, V)
  <2>1. \A x \in Passages(F, N) : Last(t) # x
    BY DEF Passages
  <2> QED
    BY <2>1 DEF Tracing, Passed
<1>9. NotLost(F, N, <<>>, V, D)
  <2>1. ASSUME NEW s \in V, s \cap Passages(F, N) # {} \/ s \in SUBSET N
        PROVE  \E e \in D : s \in Steps(e)
    <3>1. s \in Steps(t) \/ \E e \in E : s \in Steps(e)
      BY <2>1 DEF Tracing, NotLost
    <3> QED
      BY <1>3, <1>4, <3>1
  <2> QED
    BY <2>1 DEF NotLost
<1> QED
  BY <1>3, <1>6, <1>7, <1>8, <1>9 DEF Tracing

(* What a trace that ends at no node has walked is no passage, and does    *)
(* not go from node to node.                                               *)
LEMMA TracingIsLost ==
    ASSUME NEW g, NEW F \in SUBSET GridCells, NEW N, N = NodeCells(g, F), NEW t, NEW V, NEW E,
           Tracing(F, N, t, V, E), t # <<>>, Last(t) \notin N, Last(t) \notin Passages(F, N)
    PROVE  Tracing(F, N, <<>>, V, E)
<1>1. Walk(t, F, N) /\ Steps(t) \in SUBSET V
  BY DEF Tracing, Walks
<1>2. PICK n : n = Len(t)
  OBVIOUS
<1>3. /\ t \in Seq(F) /\ n \in Nat /\ n >= 2 /\ Last(t) = t[n]
      /\ \A i \in 1..n : t[i] \in F
  BY <1>1, <1>2, WalkIs
<1>4. /\ \A i \in 1..(n - 1) : t[i + 1] \in ValidNeighbors(F, t[i])
      /\ \A i \in 2..(n - 1) : t[i] \notin N
  BY <1>1, <1>2 DEF Walk
<1>5. \A i \in 2..n : t[i] \notin N
  <2>1. \A i \in 2..n : i = n \/ i \in 2..(n - 1)
    BY <1>3
  <2> QED
    BY <1>3, <1>4, <2>1
<1>6. \A i \in 1..n : t[i] \notin Passages(F, N)
  <2>1. SUFFICES ASSUME NEW j \in 1..n, t[j] \in Passages(F, N) PROVE FALSE
    OBVIOUS
  <2> DEFINE Out == {i \in j..n : t[i] \notin Passages(F, N)}
  <2>2. n \in Out /\ Out \in SUBSET Nat
    BY <1>3, <2>1
  <2>3. PICK k \in Out : \A i \in Out : k <= i
    BY <2>2, LeastNumber
  <2>4. k \in j..n /\ t[k] \notin Passages(F, N) /\ k # j
    BY <2>1, <2>3
  <2>5. PICK m : m = k - 1
    OBVIOUS
  <2>6. m \in j..n /\ m \in 1..(n - 1) /\ m + 1 = k /\ ~(k <= m) /\ k \in 2..n
    BY <1>3, <2>1, <2>4, <2>5
  <2>7. t[m] \in Passages(F, N)
    <3>1. m \notin Out
      <4> HIDE DEF Out
      <4> QED
        BY <2>3, <2>6
    <3> QED
      BY <2>6, <3>1
  <2>8. t[k] \in ValidNeighbors(F, t[m])
    BY <1>4, <2>6
  <2>9. t[k] \in Passages(F, N) \/ t[k] \in N
    BY <2>7, <2>8, PassageNext
  <2> QED
    BY <1>5, <2>4, <2>6, <2>9
<1>7. ASSUME NEW s \in Steps(t) PROVE s \cap Passages(F, N) = {} /\ s \notin SUBSET N
  <2>1. PICK i \in 1..(n - 1) : s = {t[i], t[i + 1]}
    BY <1>2 DEF Steps
  <2>2. i \in 1..n /\ i + 1 \in 1..n /\ i + 1 \in 2..n
    BY <1>3
  <2> QED
    BY <1>5, <1>6, <2>1, <2>2
<1>8. NotLost(F, N, <<>>, V, E)
  <2>1. ASSUME NEW s \in V, s \cap Passages(F, N) # {} \/ s \in SUBSET N
        PROVE  \E e \in E : s \in Steps(e)
    <3>1. s \in Steps(t) \/ \E e \in E : s \in Steps(e)
      BY <2>1 DEF Tracing, NotLost
    <3> QED
      BY <1>7, <2>1, <3>1
  <2> QED
    BY <2>1 DEF NotLost
<1>9. Passed(F, N, <<>>, V)
  <2>1. \A x \in Passages(F, N) : Last(t) # x
    OBVIOUS
  <2> QED
    BY <2>1 DEF Tracing, Passed
<1>10. Walks(F, N, <<>>, V, E) /\ StepsOnce(<<>>, E)
  BY DEF Tracing, Walks, StepsOnce
<1> QED
  BY <1>8, <1>9, <1>10 DEF Tracing

-----------------------------------------------------------------------------
(* The inductive invariant of the extraction.                              *)
Listed(F, N, T, V) ==
    \A n \in N : \A d \in ValidNeighbors(F, n) : <<n, d>> \in T \/ {n, d} \in V

Pairs(F, N, T) ==
    /\ T \in SUBSET (N \X F)
    /\ \A p \in T : p[2] \in ValidNeighbors(F, p[1])

TracingInv ==
    /\ grid \in [GridCells -> CoverageStates] /\ inflation \in Nat
    /\ free = ConfigurationFree(grid, inflation)
    /\ nodes = NodeCells(grid, free)
    /\ grid = Unseen => trace = <<>> /\ visited = {} /\ edges = {} /\ todo = {}
    /\ Pairs(free, nodes, todo)
    /\ Listed(free, nodes, todo, visited)
    /\ Tracing(free, nodes, trace, visited, edges)

LEMMA NothingTraced ==
    ASSUME NEW F, NEW N
    PROVE  Tracing(F, N, <<>>, {}, {})
BY DEF Tracing, Walks, StepsOnce, Passed, AllOrNone, NotLost

LEMMA NothingFree ==
    ASSUME NEW r \in Nat
    PROVE  /\ ConfigurationFree(Unseen, r) = {} /\ NodeCells(Unseen, {}) = {}
           /\ Unseen \in [GridCells -> CoverageStates]
<1>1. Unseen \in [GridCells -> CoverageStates] /\ Blocking(Unseen) = GridCells
  BY DEF Unseen, CoverageStates, Blocking
<1>2. \A c \in GridCells : Apart(c, c) = 0
  BY ApartIs
<1>3. \A c \in GridCells : ~(Apart(c, c) > r)
  BY <1>2
<1>4. ConfigurationFree(Unseen, r) = {}
  BY <1>1, <1>3 DEF ConfigurationFree
<1> QED
  BY <1>1, <1>4 DEF NodeCells

LEMMA TracingInit == ExtractionInit => TracingInv
<1> SUFFICES ASSUME ExtractionInit PROVE TracingInv
  OBVIOUS
<1>1. /\ grid = Unseen /\ inflation = 0 /\ inflation \in Nat
      /\ free = {} /\ nodes = {} /\ todo = {} /\ trace = <<>> /\ visited = {} /\ edges = {}
  BY DEF ExtractionInit
<1>2. ConfigurationFree(grid, inflation) = {} /\ NodeCells(grid, {}) = {} /\ grid \in [GridCells -> CoverageStates]
  BY <1>1, NothingFree
<1>3. Pairs({}, {}, {}) /\ Listed({}, {}, {}, {}) /\ Tracing({}, {}, <<>>, {}, {})
  BY NothingTraced DEF Pairs, Listed
<1> QED
  BY <1>1, <1>2, <1>3 DEF TracingInv

LEMMA TracingFacts ==
    ASSUME TracingInv
    PROVE  /\ free \in SUBSET GridCells /\ nodes \in SUBSET free
           /\ nodes = NodeCells(grid, free)
           /\ todo \in SUBSET (GridCells \X GridCells)
<1>1. free \in SUBSET GridCells /\ nodes = NodeCells(grid, free)
  BY DEF TracingInv, ConfigurationFree
<1>2. nodes \in SUBSET free
  BY <1>1, NodesAreCells
<1>3. todo \in SUBSET (nodes \X free)
  BY DEF TracingInv, Pairs
<1> QED
  BY <1>1, <1>2, <1>3

LEMMA ExtractKeeps ==
    ASSUME TracingInv, Extract
    PROVE  TracingInv'
<1>1. /\ grid = Unseen /\ grid' \in Grids /\ inflation' \in Inflations
      /\ free' = ConfigurationFree(grid', inflation')
      /\ nodes' = NodeCells(grid', free')
      /\ todo' = {pair \in nodes' \X free' : pair[2] \in ValidNeighbors(free', pair[1])}
      /\ trace' = trace /\ visited' = visited /\ edges' = edges
  BY DEF Extract
<1>2. trace' = <<>> /\ visited' = {} /\ edges' = {}
  BY <1>1 DEF TracingInv
<1>3. grid' \in [GridCells -> CoverageStates] /\ inflation' \in Nat
  BY <1>1, ExtractionAssumption
<1>4. Pairs(free', nodes', todo')
  BY <1>1 DEF Pairs
<1>5. Listed(free', nodes', todo', visited')
  <2>1. ASSUME NEW n \in nodes', NEW d \in ValidNeighbors(free', n) PROVE <<n, d>> \in todo'
    <3>1. d \in free'
      BY DEF ValidNeighbors
    <3>2. <<n, d>> \in nodes' \X free' /\ <<n, d>>[1] = n /\ <<n, d>>[2] = d
      BY <3>1
    <3> QED
      BY <1>1, <3>2
  <2> QED
    BY <2>1 DEF Listed
<1>6. Tracing(free', nodes', trace', visited', edges')
  BY <1>2, NothingTraced
<1>7. grid' = Unseen => todo' = {}
  <2>1. ASSUME grid' = Unseen PROVE free' = {}
    BY <1>1, <1>3, <2>1, NothingFree
  <2> QED
    BY <1>1, <2>1
<1> QED
  BY <1>1, <1>2, <1>3, <1>4, <1>5, <1>6, <1>7 DEF TracingInv, Unseen

LEMMA StartTraceKeeps ==
    ASSUME TracingInv, StartTrace
    PROVE  TracingInv'
<1>1. /\ free \in SUBSET GridCells /\ nodes \in SUBSET free
      /\ nodes = NodeCells(grid, free)
      /\ todo \in SUBSET (GridCells \X GridCells)
  BY TracingFacts
<1>2. /\ trace = <<>> /\ todo # {} /\ todo' = todo \ {FirstPair}
      /\ grid' = grid /\ inflation' = inflation /\ free' = free /\ nodes' = nodes /\ edges' = edges
  BY DEF StartTrace
<1>3. PICK p, c, d : p = FirstPair /\ c = p[1] /\ d = p[2]
  OBVIOUS
<1>4. p \in todo
  BY <1>1, <1>2, <1>3, FirstPairIs
<1>5. c \in nodes /\ d \in ValidNeighbors(free, c) /\ p = <<c, d>>
  BY <1>3, <1>4 DEF TracingInv, Pairs
<1>6. IF {c, d} \in visited THEN trace' = trace /\ visited' = visited
      ELSE trace' = <<c, d>> /\ visited' = visited \cup {{c, d}}
  BY <1>3 DEF StartTrace
<1>7. grid # Unseen
  BY <1>2 DEF TracingInv
<1>8. Pairs(free, nodes, todo')
  BY <1>2 DEF TracingInv, Pairs
<1>9. Listed(free, nodes, todo', visited')
  <2>1. {c, d} \in visited' /\ visited \in SUBSET visited'
    BY <1>6
  <2>2. ASSUME NEW n \in nodes, NEW x \in ValidNeighbors(free, n)
        PROVE  <<n, x>> \in todo' \/ {n, x} \in visited'
    <3>1. <<n, x>> \in todo \/ {n, x} \in visited
      BY DEF TracingInv, Listed
    <3>2. <<n, x>> = <<c, d>> => {n, x} = {c, d}
      OBVIOUS
    <3> QED
      BY <1>2, <1>3, <1>5, <2>1, <3>1, <3>2
  <2> QED
    BY <2>2 DEF Listed
<1>10. Tracing(free, nodes, trace', visited', edges)
  <2>1. Tracing(free, nodes, <<>>, visited, edges)
    BY <1>2 DEF TracingInv
  <2>2. CASE {c, d} \in visited
    BY <1>2, <1>6, <2>1, <2>2
  <2>3. CASE {c, d} \notin visited
    <3>1. Tracing(free, nodes, <<c, d>>, visited \cup {{c, d}}, edges)
      BY <1>1, <1>5, <2>1, <2>3, TracingStarts
    <3> QED
      BY <1>6, <2>3, <3>1
  <2> QED
    BY <2>2, <2>3
<1>11. grid' \in [GridCells -> CoverageStates] /\ inflation' \in Nat
  BY <1>2 DEF TracingInv
<1>12. free' = ConfigurationFree(grid', inflation') /\ nodes' = NodeCells(grid', free')
  BY <1>2 DEF TracingInv
<1>13. (grid = Unseen)' => FALSE
  BY <1>2, <1>7 DEF Unseen
<1> QED
  BY <1>2, <1>8, <1>9, <1>10, <1>11, <1>12, <1>13 DEF TracingInv

LEMMA FollowTraceKeeps ==
    ASSUME TracingInv, FollowTrace
    PROVE  TracingInv'
<1>1. /\ free \in SUBSET GridCells /\ nodes \in SUBSET free
      /\ nodes = NodeCells(grid, free)
  BY TracingFacts
<1>2. PICK d : d = First(WaysOn)
  OBVIOUS
<1>3. /\ trace # <<>> /\ Last(trace) \notin nodes /\ WaysOn # {} /\ {Last(trace), d} \notin visited
      /\ trace' = Append(trace, d) /\ visited' = visited \cup {{Last(trace), d}}
      /\ grid' = grid /\ inflation' = inflation /\ free' = free /\ nodes' = nodes
      /\ todo' = todo /\ edges' = edges
  BY <1>2 DEF FollowTrace, GoesOn
<1>4. WaysOn \in SUBSET GridCells
  BY <1>1 DEF WaysOn, ValidNeighbors
<1>5. d \in WaysOn
  BY <1>2, <1>3, <1>4, FirstIs
<1>6. d \in ValidNeighbors(free, Last(trace)) /\ d # trace[Len(trace) - 1]
  BY <1>5 DEF WaysOn
<1>7. Tracing(free, nodes, trace, visited, edges)
  BY DEF TracingInv
<1>8. Tracing(free, nodes, Append(trace, d), visited \cup {{Last(trace), d}}, edges)
  BY <1>1, <1>3, <1>6, <1>7, TracingGoesOn
<1>9. Tracing(free, nodes, trace', visited', edges)
  BY <1>3, <1>8
<1>10. Listed(free, nodes, todo, visited')
  BY <1>3 DEF TracingInv, Listed
<1>11. grid # Unseen
  BY <1>3 DEF TracingInv
<1>12. grid' \in [GridCells -> CoverageStates] /\ inflation' \in Nat /\ Pairs(free', nodes', todo')
  BY <1>3 DEF TracingInv
<1>13. free' = ConfigurationFree(grid', inflation') /\ nodes' = NodeCells(grid', free')
  BY <1>3 DEF TracingInv
<1>14. (grid = Unseen)' => FALSE
  BY <1>3, <1>11 DEF Unseen
<1> QED
  BY <1>3, <1>9, <1>10, <1>12, <1>13, <1>14 DEF TracingInv

LEMMA EndTraceKeeps ==
    ASSUME TracingInv, EndTrace
    PROVE  TracingInv'
<1>1. /\ free \in SUBSET GridCells /\ nodes \in SUBSET free
      /\ nodes = NodeCells(grid, free)
  BY TracingFacts
<1>2. /\ trace # <<>> /\ ~GoesOn /\ trace' = <<>>
      /\ edges' = IF Last(trace) \in nodes THEN edges \cup {Canonical(trace)} ELSE edges
      /\ grid' = grid /\ inflation' = inflation /\ free' = free /\ nodes' = nodes
      /\ todo' = todo /\ visited' = visited
  BY DEF EndTrace
<1>3. Tracing(free, nodes, trace, visited, edges)
  BY DEF TracingInv
<1>4. Tracing(free, nodes, <<>>, visited, edges')
  <2>1. CASE Last(trace) \in nodes
    BY <1>1, <1>2, <1>3, <2>1, TracingArrives
  <2>2. CASE Last(trace) \notin nodes
    <3>1. Last(trace) \notin Passages(free, nodes)
      <4>1. SUFFICES ASSUME Last(trace) \in Passages(free, nodes) PROVE FALSE
        OBVIOUS
      <4>2. WaysOn # {} /\ {Last(trace), First(WaysOn)} \notin visited
        BY <1>1, <1>2, <1>3, <4>1, NotInAPassage DEF WaysOn
      <4> QED
        BY <1>2, <2>2, <4>2 DEF GoesOn
    <3> QED
      BY <1>1, <1>2, <1>3, <2>2, <3>1, TracingIsLost
  <2> QED
    BY <2>1, <2>2
<1>5. Tracing(free, nodes, trace', visited', edges') /\ Listed(free', nodes', todo', visited')
  BY <1>2, <1>4 DEF TracingInv
<1>6. grid # Unseen
  BY <1>2 DEF TracingInv
<1>7. grid' \in [GridCells -> CoverageStates] /\ inflation' \in Nat /\ Pairs(free', nodes', todo')
  BY <1>2 DEF TracingInv
<1>8. free' = ConfigurationFree(grid', inflation') /\ nodes' = NodeCells(grid', free')
  BY <1>2 DEF TracingInv
<1>9. (grid = Unseen)' => FALSE
  BY <1>2, <1>6 DEF Unseen
<1> QED
  BY <1>2, <1>5, <1>7, <1>8, <1>9 DEF TracingInv

(* The tracing invariant is inductive: ExtractionNext keeps it.            *)
LEMMA TracingNext == TracingInv /\ [ExtractionNext]_extractionVars => TracingInv'
<1> SUFFICES ASSUME TracingInv, [ExtractionNext]_extractionVars PROVE TracingInv'
  OBVIOUS
<1>1. CASE Extract
  BY <1>1, ExtractKeeps
<1>2. CASE StartTrace
  BY <1>2, StartTraceKeeps
<1>3. CASE FollowTrace
  BY <1>3, FollowTraceKeeps
<1>4. CASE EndTrace
  BY <1>4, EndTraceKeeps
<1>5. CASE UNCHANGED extractionVars
  <2>1. /\ grid' = grid /\ inflation' = inflation /\ free' = free /\ nodes' = nodes
        /\ todo' = todo /\ trace' = trace /\ visited' = visited /\ edges' = edges
    BY <1>5 DEF extractionVars
  <2>2. (grid = Unseen)' => grid = Unseen
    BY <2>1 DEF Unseen
  <2> QED
    BY <2>1, <2>2 DEF TracingInv
<1> QED
  BY <1>1, <1>2, <1>3, <1>4, <1>5 DEF ExtractionNext

-----------------------------------------------------------------------------
(* What is traced can be driven.                                           *)
LEMMA TracedIsDrivable == TracingInv => EdgesAreDrivable
<1> SUFFICES ASSUME TracingInv PROVE EdgesAreDrivable
  OBVIOUS
<1>1. free \in SUBSET GridCells /\ nodes \in SUBSET free
  BY TracingFacts
<1>2. /\ \A e \in edges : Walk(e, free, nodes) /\ Last(e) \in nodes
      /\ \A e, f \in edges : e # f => Steps(e) \cap Steps(f) = {}
  BY DEF TracingInv, Tracing, Walks, StepsOnce
<1>3. ASSUME NEW e \in edges
      PROVE  Head(e) \in nodes /\ Last(e) \in nodes /\ \A i \in 2..(Len(e) - 1) : e[i] \notin nodes
  <2>1. Walk(e, free, nodes)
    BY <1>2
  <2>2. Head(e) = e[1]
    BY <2>1, WalkIs
  <2> QED
    BY <1>2, <2>1, <2>2 DEF Walk
<1>4. ASSUME NEW e \in edges, NEW i \in 1..(Len(e) - 1), NEW b \in Blocking(grid)
      PROVE  \A x \in {e[i][1], e[i + 1][1]}, y \in {e[i][2], e[i + 1][2]} :
                Apart(b, <<x, y>>) > inflation
  <2>1. Walk(e, free, nodes)
    BY <1>2
  <2>2. PICK c, d : c = e[i] /\ d = e[i + 1]
    OBVIOUS
  <2>3. c \in free /\ d \in ValidNeighbors(free, c)
    <3>1. i \in 1..Len(e)
      BY <2>1, WalkIs
    <3>2. e[i] \in free
      BY <2>1, <3>1, WalkIs
    <3> QED
      BY <2>1, <2>2, <3>2 DEF Walk
  <2>4. d \in free /\ <<c[1], d[2]>> \in free /\ <<d[1], c[2]>> \in free
    BY <2>3 DEF ValidNeighbors
  <2>5. c = <<c[1], c[2]>> /\ d = <<d[1], d[2]>>
    <3>1. c \in GridCells /\ d \in GridCells
      BY <1>1, <2>3, <2>4
    <3> QED
      BY <3>1 DEF GridCells
  <2>6. \A x \in {c[1], d[1]}, y \in {c[2], d[2]} : <<x, y>> \in free
    BY <2>3, <2>4, <2>5
  <2>7. \A z \in free : Apart(b, z) > inflation
    <3>1. \A z \in free : z \in GridCells /\ Apart(z, b) > inflation
      BY DEF TracingInv, ConfigurationFree
    <3>2. b \in GridCells
      BY DEF Blocking
    <3>3. \A z \in GridCells : Apart(b, z) = Apart(z, b)
      BY <3>2, ApartIs
    <3> QED
      BY <3>1, <3>3
  <2> QED
    BY <2>2, <2>6, <2>7
<1> QED
  BY <1>2, <1>3, <1>4 DEF EdgesAreDrivable

-----------------------------------------------------------------------------
(* What is connected over free cells, and what by edges.                   *)
FreeSteps(F) == UNION {{{c, d} : d \in OrthogonalNeighbors(F, c)} : c \in F}
Roads(E) == {{Head(e), Last(e)} : e \in E}

LEMMA FreeStepsAre ==
    ASSUME NEW F \in SUBSET GridCells
    PROVE  /\ FreeSteps(F) \in SUBSET SUBSET F
           /\ \A c \in F : \A d \in OrthogonalNeighbors(F, c) : {c, d} \in FreeSteps(F)
<1>1. \A c \in F : \A d \in OrthogonalNeighbors(F, c) : d \in F
  BY DEF OrthogonalNeighbors
<1>2. \A l \in FreeSteps(F) : \E c \in F : \E d \in OrthogonalNeighbors(F, c) : l = {c, d}
  BY DEF FreeSteps
<1> QED
  BY <1>1, <1>2 DEF FreeSteps

(* A step, a diagonal one too, stays in the room.                          *)
LEMMA StepStays ==
    ASSUME NEW F \in SUBSET GridCells, NEW R \in SUBSET F, ClosedUnder(R, FreeSteps(F)),
           NEW c \in F, NEW d \in ValidNeighbors(F, c)
    PROVE  c \in R <=> d \in R
<1>1. ASSUME NEW a \in F, NEW b \in OrthogonalNeighbors(F, a) PROVE a \in R <=> b \in R
  <2>1. {a, b} \in FreeSteps(F)
    BY FreeStepsAre
  <2> QED
    BY <2>1 DEF ClosedUnder
<1>2. d \in F /\ c \in ValidNeighbors(F, d) /\ Apart(c, d) \in {1, 2}
  BY NeighborIs
<1>3. CASE Apart(c, d) = 1
  <2>1. d \in OrthogonalNeighbors(F, c)
    BY <1>2, <1>3 DEF OrthogonalNeighbors
  <2> QED
    BY <1>1, <2>1
<1>4. CASE Apart(c, d) = 2
  <2>1. Apart(d, c) = 2
    <3>1. c \in GridCells /\ d \in GridCells
      BY <1>2
    <3> QED
      BY <1>4, <3>1, ApartIs
  <2>2. <<d[1], c[2]>> \in OrthogonalNeighbors(F, c)
    BY <1>4, AroundIs
  <2>3. <<d[1], c[2]>> \in OrthogonalNeighbors(F, d)
    BY <1>2, <2>1, AroundIs
  <2> QED
    BY <1>1, <1>2, <2>2, <2>3
<1> QED
  BY <1>2, <1>3, <1>4

LEMMA WalkStays ==
    ASSUME NEW F \in SUBSET GridCells, NEW N, NEW R \in SUBSET F, ClosedUnder(R, FreeSteps(F)),
           NEW t, Walk(t, F, N)
    PROVE  Head(t) \in R <=> Last(t) \in R
<1>1. PICK n : n = Len(t)
  OBVIOUS
<1>2. /\ n \in Nat /\ n >= 2 /\ Head(t) = t[1] /\ Last(t) = t[n]
      /\ \A i \in 1..n : t[i] \in F
  BY <1>1, WalkIs
<1>3. \A i \in 1..(n - 1) : t[i + 1] \in ValidNeighbors(F, t[i])
  BY <1>1 DEF Walk
<1> DEFINE Other == {i \in 1..n : ~(t[1] \in R <=> t[i] \in R)}
<1>4. Other = {}
  <2>1. SUFFICES ASSUME Other # {} PROVE FALSE
    OBVIOUS
  <2>2. Other \in SUBSET Nat
    OBVIOUS
  <2>3. PICK k \in Other : \A i \in Other : k <= i
    BY <2>1, <2>2, LeastNumber
  <2>4. k \in 1..n /\ ~(t[1] \in R <=> t[k] \in R) /\ k # 1
    BY <2>3
  <2>5. PICK m : m = k - 1
    OBVIOUS
  <2>6. m \in 1..(n - 1) /\ m \in 1..n /\ m + 1 = k /\ ~(k <= m)
    BY <1>2, <2>4, <2>5
  <2>7. m \notin Other
    <3> HIDE DEF Other
    <3> QED
      BY <2>3, <2>6
  <2>8. t[m] \in R <=> t[k] \in R
    <3>1. t[m] \in F /\ t[k] \in ValidNeighbors(F, t[m])
      BY <1>2, <1>3, <2>6
    <3> QED
      BY <3>1, StepStays
  <2> QED
    BY <2>4, <2>6, <2>7, <2>8
<1>5. n \in 1..n
  BY <1>2
<1> QED
  BY <1>2, <1>4, <1>5

(* On an edge only the ends are nodes, and a passage lies between its two  *)
(* neighbours.                                                             *)
LEMMA OnAnEdge ==
    ASSUME NEW g, NEW F \in SUBSET GridCells, NEW N, N = NodeCells(g, F),
           NEW e, Walk(e, F, N), Last(e) \in N, NEW i \in 1..Len(e)
    PROVE  /\ e[i] \in N => e[i] \in {Head(e), Last(e)}
           /\ e[i] \in Passages(F, N) =>
                 \A y \in ValidNeighbors(F, e[i]) : \E j \in 1..Len(e) : e[j] = y
<1>1. PICK n : n = Len(e)
  OBVIOUS
<1>2. /\ n \in Nat /\ n >= 2 /\ Head(e) = e[1] /\ Last(e) = e[n]
      /\ \A j \in 1..n : e[j] \in F
  BY <1>1, WalkIs
<1>3. /\ \A j \in 1..(n - 1) : e[j + 1] \in ValidNeighbors(F, e[j])
      /\ \A j \in 2..(n - 1) : e[j] \notin N /\ e[j - 1] # e[j + 1]
      /\ e[1] \in N
  BY <1>1 DEF Walk
<1>4. i = 1 \/ i = n \/ i \in 2..(n - 1)
  BY <1>1, <1>2
<1>5. e[i] \in N => e[i] \in {Head(e), Last(e)}
  BY <1>2, <1>3, <1>4
<1>6. ASSUME e[i] \in Passages(F, N), NEW y \in ValidNeighbors(F, e[i])
      PROVE  \E j \in 1..Len(e) : e[j] = y
  <2>1. e[i] \notin N
    BY <1>6 DEF Passages
  <2>2. i \in 2..(n - 1)
    BY <1>2, <1>3, <1>4, <2>1
  <2>3. PICK h, k : h = i - 1 /\ k = i + 1
    OBVIOUS
  <2>4. h \in 1..(n - 1) /\ h + 1 = i /\ h \in 1..n /\ k \in 1..n /\ i \in 1..(n - 1)
    BY <1>2, <2>2, <2>3
  <2>5. e[i] \in ValidNeighbors(F, e[h]) /\ e[k] \in ValidNeighbors(F, e[i]) /\ e[h] # e[k]
    BY <1>3, <2>2, <2>3, <2>4
  <2>6. e[h] \in ValidNeighbors(F, e[i])
    <3>1. e[h] \in F
      BY <1>2, <2>4
    <3> QED
      BY <2>5, <3>1, NeighborIs
  <2>7. ValidNeighbors(F, e[i]) = {e[h], e[k]}
    <3>1. PICK x \in Passages(F, NodeCells(g, F)) : x = e[i]
      BY <1>6
    <3>2. \A p, q \in ValidNeighbors(F, x) : p # q => ValidNeighbors(F, x) = {p, q}
      BY PassageIs
    <3> QED
      BY <2>5, <2>6, <3>1, <3>2
  <2> QED
    BY <1>1, <1>6, <2>4, <2>7
<1> QED
  BY <1>5, <1>6

(* The free cells that belong to the nodes J: those in passages that start *)
(* there, and those at a corner of four free cells of which one is in J.   *)
AlongEdges(F, N, E, J) ==
    {x \in Passages(F, N) : \E e \in E : Head(e) \in J /\ \E i \in 1..Len(e) : e[i] = x}

AtCorners(F, N, J) ==
    {x \in F \ N : \E d \in ValidNeighbors(F, x) : Apart(x, d) = 2 /\ Around(x, d) \cap J # {}}

Belonging(F, N, E, J) == J \cup AlongEdges(F, N, E, J) \cup AtCorners(F, N, J)

(* When all is traced.                                                     *)
Done(F, N, V, E) == Tracing(F, N, <<>>, V, E) /\ Listed(F, N, {}, V)

LEMMA EdgesAreWalks ==
    ASSUME NEW F, NEW N, NEW V, NEW E, Done(F, N, V, E)
    PROVE  \A e \in E : Walk(e, F, N) /\ Last(e) \in N /\ Head(e) \in N
<1>1. \A e \in E : Walk(e, F, N) /\ Last(e) \in N
  BY DEF Done, Tracing, Walks
<1>2. \A e \in E : Head(e) = e[1] /\ e[1] \in N
  BY <1>1, WalkIs DEF Walk
<1> QED
  BY <1>1, <1>2

(* A step from a node that no trace loses is on an edge, and leads from J  *)
(* to what belongs to J.                                                   *)
LEMMA StepFromNode ==
    ASSUME NEW g, NEW F \in SUBSET GridCells, NEW N, N = NodeCells(g, F), NEW V, NEW E,
           Done(F, N, V, E), NEW J \in SUBSET N, ClosedUnder(J, Roads(E)),
           NEW a \in J, NEW y \in ValidNeighbors(F, a), y \in N \/ y \in Passages(F, N)
    PROVE  \E e \in E : /\ Head(e) \in J /\ Last(e) \in J /\ Walk(e, F, N) /\ Last(e) \in N
                        /\ \E i \in 1..Len(e) : e[i] = y
<1>1. {a, y} \in V
  BY DEF Done, Listed
<1>2. PICK e \in E : {a, y} \in Steps(e)
  <2>1. {a, y} \cap Passages(F, N) # {} \/ {a, y} \in SUBSET N
    OBVIOUS
  <2> QED
    BY <1>1, <2>1 DEF Done, Tracing, NotLost
<1>3. Walk(e, F, N) /\ Last(e) \in N
  BY EdgesAreWalks
<1>4. PICK k \in 1..(Len(e) - 1) : {a, y} = {e[k], e[k + 1]}
  BY <1>2 DEF Steps
<1>5. k \in 1..Len(e) /\ k + 1 \in 1..Len(e)
  BY <1>3, WalkIs
<1>6. PICK i \in 1..Len(e) : e[i] = a
  BY <1>4, <1>5
<1>7. PICK j \in 1..Len(e) : e[j] = y
  BY <1>4, <1>5
<1>8. a \in {Head(e), Last(e)}
  BY <1>3, <1>6, OnAnEdge
<1>9. Head(e) \in J /\ Last(e) \in J
  <2>1. {Head(e), Last(e)} \in Roads(E)
    BY DEF Roads
  <2>2. {Head(e), Last(e)} \cap J # {}
    BY <1>8
  <2> QED
    BY <2>1, <2>2 DEF ClosedUnder
<1> QED
  BY <1>3, <1>7, <1>9

LEMMA NodeToNode ==
    ASSUME NEW g, NEW F \in SUBSET GridCells, NEW N, N = NodeCells(g, F), NEW V, NEW E,
           Done(F, N, V, E), NEW J \in SUBSET N, ClosedUnder(J, Roads(E)),
           NEW a \in J, NEW y \in ValidNeighbors(F, a), y \in N
    PROVE  y \in J
<1>1. PICK e \in E : /\ Head(e) \in J /\ Last(e) \in J /\ Walk(e, F, N) /\ Last(e) \in N
                    /\ \E i \in 1..Len(e) : e[i] = y
  BY StepFromNode
<1>2. PICK i \in 1..Len(e) : e[i] = y
  BY <1>1
<1>3. y \in {Head(e), Last(e)}
  BY <1>1, <1>2, OnAnEdge
<1> QED
  BY <1>1, <1>3

(* What belongs to J is left by no step.                                   *)
LEMMA NoStepLeaves ==
    ASSUME NEW g, NEW F \in SUBSET GridCells, NEW N, N = NodeCells(g, F), NEW V, NEW E,
           Done(F, N, V, E), NEW J \in SUBSET N, ClosedUnder(J, Roads(E)),
           NEW c \in Belonging(F, N, E, J), NEW d \in OrthogonalNeighbors(F, c)
    PROVE  d \in Belonging(F, N, E, J)
<1>1. N \in SUBSET F
  BY NodesAreCells
<1>2. c \in F
  BY <1>1 DEF Belonging, AlongEdges, AtCorners, Passages
<1>3. d \in ValidNeighbors(F, c) /\ d \in F /\ c \in OrthogonalNeighbors(F, d)
  <2>1. d \in ValidNeighbors(F, c) /\ c \in OrthogonalNeighbors(F, d)
    BY <1>2, NeighborsAre
  <2> QED
    BY <1>2, <2>1, NeighborIs
<1>4. CASE c \in J
  <2>1. CASE d \in N
    <3>1. d \in J
      BY <1>3, <1>4, <2>1, NodeToNode
    <3> QED
      BY <3>1 DEF Belonging
  <2>2. CASE d \in Passages(F, N)
    <3>1. PICK e \in E : Head(e) \in J /\ \E i \in 1..Len(e) : e[i] = d
      BY <1>3, <1>4, <2>2, StepFromNode
    <3>2. d \in AlongEdges(F, N, E, J)
      BY <2>2, <3>1 DEF AlongEdges
    <3> QED
      BY <3>2 DEF Belonging
  <2>3. CASE d \notin N /\ d \notin Passages(F, N)
    <3>1. PICK b \in ValidNeighbors(F, d) : Apart(d, b) # 1
      BY <1>3, <2>3 DEF Passages
    <3>2. Apart(d, b) = 2
      BY <1>3, <3>1, NeighborIs
    <3>3. c \in Around(d, b)
      BY <1>3, <2>3, <3>2, CornerIs
    <3>4. d \in AtCorners(F, N, J)
      BY <1>3, <1>4, <2>3, <3>2, <3>3 DEF AtCorners
    <3> QED
      BY <3>4 DEF Belonging
  <2> QED
    BY <2>1, <2>2, <2>3
<1>5. CASE c \in AlongEdges(F, N, E, J)
  <2>1. c \in Passages(F, N)
    BY <1>5 DEF AlongEdges
  <2>2. PICK e \in E : Head(e) \in J /\ \E i \in 1..Len(e) : e[i] = c
    BY <1>5 DEF AlongEdges
  <2>3. PICK i \in 1..Len(e) : e[i] = c
    BY <2>2
  <2>4. Walk(e, F, N) /\ Last(e) \in N
    BY EdgesAreWalks
  <2>5. PICK j \in 1..Len(e) : e[j] = d
    <3>1. \A y \in ValidNeighbors(F, e[i]) : \E j \in 1..Len(e) : e[j] = y
      BY <2>1, <2>3, <2>4, OnAnEdge
    <3> QED
      BY <1>3, <2>3, <3>1
  <2>6. CASE d \in N
    <3>1. d \in {Head(e), Last(e)}
      BY <2>4, <2>5, <2>6, OnAnEdge
    <3>2. {Head(e), Last(e)} \in Roads(E) /\ {Head(e), Last(e)} \cap J # {}
      BY <2>2 DEF Roads
    <3>3. d \in J
      BY <3>1, <3>2 DEF ClosedUnder
    <3> QED
      BY <3>3 DEF Belonging
  <2>7. CASE d \notin N
    <3>1. d \in Passages(F, N)
      BY <1>3, <2>1, <2>7, PassageNext
    <3>2. d \in AlongEdges(F, N, E, J)
      BY <2>2, <2>5, <3>1 DEF AlongEdges
    <3> QED
      BY <3>2 DEF Belonging
  <2> QED
    BY <2>6, <2>7
<1>6. CASE c \in AtCorners(F, N, J)
  <2>1. c \in F \ N
    BY <1>6 DEF AtCorners
  <2>2. PICK b \in ValidNeighbors(F, c) : Apart(c, b) = 2 /\ Around(c, b) \cap J # {}
    BY <1>6 DEF AtCorners
  <2>3. PICK a \in Around(c, b) : a \in J
    BY <2>2
  <2>4. d \in Around(c, b)
    BY <2>1, <2>2, CornerIs
  <2>5. CASE d \in N
    <3>1. d = a \/ d \in ValidNeighbors(F, a)
      BY <1>2, <2>2, <2>3, <2>4, AroundIs
    <3>2. d \in J
      BY <2>3, <2>5, <3>1, NodeToNode
    <3> QED
      BY <3>2 DEF Belonging
  <2>6. CASE d \notin N
    <3>1. HasDiagonal(F, d, Around(c, b))
      BY <1>2, <2>2, <2>4, AroundIs
    <3>2. d \in AtCorners(F, N, J)
      BY <1>3, <2>2, <2>6, <3>1 DEF HasDiagonal, AtCorners
    <3> QED
      BY <3>2 DEF Belonging
  <2> QED
    BY <2>5, <2>6
<1> QED
  BY <1>4, <1>5, <1>6 DEF Belonging

(* Where all is traced, nodes are connected over free cells and by edges   *)
(* alike.                                                                  *)
LEMMA ConnectedAlike ==
    ASSUME NEW g, NEW F \in SUBSET GridCells, NEW N, N = NodeCells(g, F), NEW V, NEW E,
           Done(F, N, V, E), NEW n \in N
    PROVE  JoinedWith(F, FreeSteps(F), n) \cap N = JoinedWith(N, Roads(E), n)
<1>1. N \in SUBSET F /\ n \in F
  BY NodesAreCells
<1>2. IsFiniteSet(F) /\ IsFiniteSet(N)
  BY <1>1, CellsAreFinite, FS_Subset
<1>3. FreeSteps(F) \in SUBSET SUBSET F
  BY FreeStepsAre
<1>4. \A e \in E : Walk(e, F, N) /\ Last(e) \in N /\ Head(e) \in N
  BY EdgesAreWalks
<1>5. Roads(E) \in SUBSET SUBSET N
  BY <1>4 DEF Roads
<1>6. PICK R, J : R = JoinedWith(F, FreeSteps(F), n) /\ J = JoinedWith(N, Roads(E), n)
  OBVIOUS
<1>7. /\ n \in R /\ R \in SUBSET F /\ ClosedUnder(R, FreeSteps(F))
      /\ \A S \in SUBSET F : n \in S /\ ClosedUnder(S, FreeSteps(F)) => R \in SUBSET S
  BY <1>1, <1>2, <1>3, <1>6, JoinedIs
<1>8. /\ n \in J /\ J \in SUBSET N /\ ClosedUnder(J, Roads(E))
      /\ \A S \in SUBSET N : n \in S /\ ClosedUnder(S, Roads(E)) => J \in SUBSET S
  BY <1>2, <1>5, <1>6, JoinedIs
<1>9. J \in SUBSET (R \cap N)
  <2>1. ASSUME NEW e \in E, {Head(e), Last(e)} \cap R # {}
        PROVE  {Head(e), Last(e)} \in SUBSET (R \cap N)
    <3>1. Head(e) \in R <=> Last(e) \in R
      BY <1>4, <1>7, WalkStays
    <3> QED
      BY <1>4, <2>1, <3>1
  <2>2. ClosedUnder(R \cap N, Roads(E))
    BY <2>1 DEF ClosedUnder, Roads
  <2> QED
    BY <1>7, <1>8, <2>2
<1>10. PICK K : K = Belonging(F, N, E, J)
  OBVIOUS
<1>11. K \in SUBSET F /\ n \in K /\ K \cap N \in SUBSET J
  BY <1>1, <1>8, <1>10 DEF Belonging, AlongEdges, AtCorners, Passages
<1>12. ClosedUnder(K, FreeSteps(F))
  <2>1. ASSUME NEW c \in F, NEW d \in OrthogonalNeighbors(F, c), {c, d} \cap K # {}
        PROVE  {c, d} \in SUBSET K
    <3>1. c \in OrthogonalNeighbors(F, d)
      BY NeighborsAre
    <3>2. c \in K => d \in K
      BY <1>8, <1>10, NoStepLeaves
    <3>3. d \in K => c \in K
      BY <1>8, <1>10, <3>1, NoStepLeaves
    <3> QED
      BY <2>1, <3>2, <3>3
  <2>2. \A l \in FreeSteps(F) : \E c \in F : \E d \in OrthogonalNeighbors(F, c) : l = {c, d}
    BY DEF FreeSteps
  <2> QED
    BY <2>1, <2>2 DEF ClosedUnder
<1>13. R \in SUBSET K
  BY <1>7, <1>11, <1>12
<1> QED
  BY <1>6, <1>9, <1>11, <1>13

LEMMA TracedIsConnected == TracingInv => NodesStayConnected
<1> SUFFICES ASSUME TracingInv, Traced PROVE NodesStayConnected
  BY DEF NodesStayConnected
<1>1. free \in SUBSET GridCells /\ nodes = NodeCells(grid, free)
  BY TracingFacts
<1>2. Done(free, nodes, visited, edges)
  BY DEF TracingInv, Traced, Done
<1>3. ASSUME NEW n \in nodes
      PROVE  JoinedWith(free, FreeSteps(free), n) \cap nodes = JoinedWith(nodes, Roads(edges), n)
  BY <1>1, <1>2, ConnectedAlike
<1> QED
  BY <1>3 DEF NodesStayConnected, FreeSteps, Roads

(* Every edge that TopologyBuilder draws can be driven, and between nodes  *)
(* that the robot could drive between over free cells there are edges.     *)
THEOREM TopologySound == ExtractionSpec => []TopologyIsSound
<1>1. TracingInv => TopologyIsSound
  BY TracedIsDrivable, TracedIsConnected DEF TopologyIsSound
<1> QED
  BY <1>1, TracingInit, TracingNext, PTL DEF ExtractionSpec
=============================================================================
