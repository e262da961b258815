---------------------------- MODULE RoutePlanning ----------------------------
(***************************************************************************)
(* Cheapest routes over the topology graph: A*, Dijkstra and the tree of   *)
(* all cheapest routes from one node, of hsl_core/planning/astar.py.  Each *)
(* iteration of the search loop is one step.                               *)
(*                                                                         *)
(* Lengths and costs are integers.  A polyline is its length.              *)
(***************************************************************************)
EXTENDS Integers, Sequences, SequencesExt, FiniteSets, FiniteSetsExt

CONSTANTS
    NodeIds,
    Distance,       \* [NodeIds \X NodeIds -> Nat], between two nodes as the crow flies
    Ends,           \* Ends[e]: from_node and to_node of the edge of ID e in 1..Len(Ends)
    Overlays,       \* the states and costs of all edges: see EdgeViewType
    Queries         \* the questions asked: see QueryType

EdgeIds == 1..Len(Ends)
EdgeStates == {"UNKNOWN", "OPEN", "BLOCKED"}

(* extra: by how much the polyline is longer than the crow flies; charge:  *)
(* cost less that distance, where the edge has a cost of its own.          *)
EdgeViewType == [state : EdgeStates, extra : Nat, costed : BOOLEAN, charge : Nat]
QueryType == [kind : {"ASTAR", "DIJKSTRA", "TREE"}, start : NodeIds, goal : NodeIds,
              allowed : SUBSET EdgeStates]

(* Nodes are numbered: the queue compares them.                            *)
ASSUME RouteAssumption ==
    /\ NodeIds \subseteq Nat /\ IsFiniteSet(NodeIds)
    /\ Ends \in Seq(NodeIds \X NodeIds)
    /\ Overlays \subseteq [EdgeIds -> EdgeViewType]
    /\ Queries \subseteq QueryType
    /\ Distance \in [NodeIds \X NodeIds -> Nat]
    /\ \A a, b, c \in NodeIds :
          /\ Distance[<<a, b>>] = Distance[<<b, a>>]
          /\ Distance[<<a, c>>] <= Distance[<<a, b>>] + Distance[<<b, c>>]

VARIABLES
    query,      \* the question in progress
    graph,      \* the edges it is asked of
    queue,      \* priority, cost and node of what is still to be looked at
    best,       \* the least cost known so far, of the nodes found
    previous,   \* the node and edge each of them is reached over
    answer      \* what the call returns

routeVars == <<query, graph, queue, best, previous, answer>>

Idle == [kind |-> "IDLE"]
Pending == [kind |-> "PENDING"]
Raised == [kind |-> "RAISED"]

-----------------------------------------------------------------------------
(* Edges seen from one end: TopologyGraph._adjacency.                      *)
From(n) == {e \in EdgeIds : n \in {Ends[e][1], Ends[e][2]}}
Across(e, n) == IF Ends[e][1] = n THEN Ends[e][2] ELSE Ends[e][1]
Crow(e) == Distance[Ends[e]]
Metric(e) == Crow(e) + graph[e].extra

(* _edge_cost                                                              *)
Undervalued(e) == graph[e].costed /\ graph[e].charge < graph[e].extra
EdgeCost(e) == IF graph[e].costed THEN Crow(e) + graph[e].charge ELSE Metric(e)

Passable(e) ==
    /\ graph[e].state # "BLOCKED"
    /\ query.kind = "TREE" => graph[e].state \in query.allowed

Heuristic(n) == IF query.kind = "ASTAR" THEN Distance[<<n, query.goal>>] ELSE 0

(* heapq: the least triple, compared component by component.               *)
Sooner(p, q) ==
    \/ p[1] < q[1]
    \/ p[1] = q[1] /\ (p[2] < q[2] \/ (p[2] = q[2] /\ p[3] <= q[3]))
Top == CHOOSE p \in queue : \A q \in queue : Sooner(p, q)

(* An edge out of the node n, whose cost is c, improves on what is known   *)
(* of its other end, and on the edges before it that lead there too.       *)
Candidate(c, e) == c + EdgeCost(e)
Improves(n, c, e) ==
    LET there == Across(e, n)
    IN  /\ Passable(e)
        /\ there \in DOMAIN best => Candidate(c, e) < best[there]
        /\ \A f \in From(n) :
              (f < e /\ Across(f, n) = there /\ Passable(f)) => EdgeCost(e) < EdgeCost(f)

Improving(n, c) == {e \in From(n) : Improves(n, c, e)}

(* The last edge, by ID, that improves on a node is the one that is kept.  *)
Kept(n, c) ==
    {e \in Improving(n, c) :
        \A f \in Improving(n, c) : Across(f, n) = Across(e, n) => f <= e}

-----------------------------------------------------------------------------
(* The way back from the goal along previous.                              *)
Route(goal) ==
    LET back[n \in DOMAIN best] ==
            IF n = query.start THEN <<>>
            ELSE Append(back[previous[n].node], previous[n].edge)
    IN  [edges |-> back[goal], cost |-> best[goal]]

(* A route of one node has no polyline, which PlannedPath refuses; only    *)
(* the tree draws a point for it.                                          *)
FoundRoute ==
    IF query.goal \notin DOMAIN best \/ query.goal = query.start THEN Raised
    ELSE [kind |-> "ROUTES", to |-> [n \in {query.goal} |-> Route(n)]]

Tree == [kind |-> "ROUTES", to |-> [n \in DOMAIN best |-> Route(n)]]

(* The search of a goal ends when the goal is taken from the queue, not    *)
(* when it is first found.                                                 *)
ArrivedOnceFound == query.kind # "TREE" /\ query.goal \in DOMAIN best
Arrived == query.kind # "TREE" /\ Top[3] = query.goal

Outdated == Top[2] > best[Top[3]]

-----------------------------------------------------------------------------
Ask ==
    /\ query = Idle
    /\ query' \in Queries /\ graph' \in Overlays
    /\ queue' = {<<0, 0, query'.start>>}
    /\ best' = [n \in {query'.start} |-> 0] /\ previous' = <<>>
    /\ answer' = Pending

DropStale ==
    /\ answer = Pending /\ queue # {} /\ Outdated
    /\ queue' = queue \ {Top}
    /\ UNCHANGED <<query, graph, best, previous, answer>>

Expand ==
    /\ answer = Pending /\ queue # {} /\ ~Outdated /\ ~Arrived
    /\ IF \E e \in From(Top[3]) : Passable(e) /\ Undervalued(e)
       THEN answer' = Raised /\ UNCHANGED <<queue, best, previous>>
       ELSE LET n == Top[3]
                c == Top[2]
                found == {Across(e, n) : e \in Kept(n, c)}
                Over(m) == CHOOSE e \in Kept(n, c) : Across(e, n) = m
            IN  /\ best' = [m \in DOMAIN best \cup found |->
                               IF m \in found THEN Candidate(c, Over(m)) ELSE best[m]]
                /\ previous' = [m \in DOMAIN previous \cup found |->
                                   IF m \in found THEN [node |-> n, edge |-> Over(m)]
                                   ELSE previous[m]]
                /\ queue' = (queue \ {Top}) \cup
                       {<<Candidate(c, e) + Heuristic(Across(e, n)), Candidate(c, e), Across(e, n)>> :
                            e \in Improving(n, c)}
                /\ UNCHANGED answer
    /\ UNCHANGED <<query, graph>>

Finish ==
    /\ answer = Pending
    /\ queue # {} => ~Outdated /\ Arrived
    /\ answer' = IF query.kind = "TREE" THEN Tree ELSE FoundRoute
    /\ UNCHANGED <<query, graph, queue, best, previous>>

RouteInit ==
    /\ query = Idle /\ graph = <<>>
    /\ queue = {} /\ best = <<>> /\ previous = <<>> /\ answer = Idle

RouteNext ==
    Ask \/ DropStale \/ Expand \/ Finish

RouteSpec == RouteInit /\ [][RouteNext]_routeVars

-----------------------------------------------------------------------------
(* The reference: the ways over passable edges from where the query starts *)
(* with no more edges than it takes to pass every node once, with where    *)
(* they lead and what they cost.                                           *)
Longer(ways) ==
    UNION {{[to |-> Across(e, w.to), edges |-> Append(w.edges, e), cost |-> Candidate(w.cost, e)] :
                e \in {f \in From(w.to) : Passable(f)}} : w \in ways}

Ways ==
    LET of[k \in 0..(Cardinality(NodeIds) - 1)] ==
            IF k = 0 THEN {[to |-> query.start, edges |-> <<>>, cost |-> 0]} ELSE Longer(of[k - 1])
    IN  UNION {of[k] : k \in 0..(Cardinality(NodeIds) - 1)}

(* Every route returned leads over passable edges to its goal, at the cost *)
(* it states, and none is cheaper, although the heuristic knows nothing of *)
(* detours and blocked edges, edges run in parallel, and nodes are found   *)
(* more than once; a tree leaves no reachable node out; and a search       *)
(* raises only if there is no route, no way to go, or an edge cheaper than *)
(* its length.                                                             *)
RouteIsCheapest ==
    LET ways == Ways
        WaysTo(n) == {w \in ways : w.to = n}
        Cheapest(n, route) ==
            /\ [to |-> n, edges |-> route.edges, cost |-> route.cost] \in ways
            /\ \A w \in WaysTo(n) : route.cost <= w.cost
        NoWay == WaysTo(query.goal) = {} \/ query.goal = query.start
    IN  /\ answer.kind = "ROUTES" =>
              /\ \A n \in DOMAIN answer.to : Cheapest(n, answer.to[n])
              /\ query.kind = "TREE" => \A n \in NodeIds \ DOMAIN answer.to : WaysTo(n) = {}
        /\ answer = Raised =>
              \/ query.kind # "TREE" /\ NoWay
              \/ \E e \in EdgeIds : Passable(e) /\ Undervalued(e)
=============================================================================
