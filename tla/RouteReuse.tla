----------------------------- MODULE RouteReuse -----------------------------
(***************************************************************************)
(* Routes from where a robot is to a node: _path_to_node and               *)
(* _clip_path_to_pose of sim/kinematic/autonomous.py, which keeps the      *)
(* trees of cheapest routes it has computed; and what                      *)
(* sim/kinematic/selection_diagnostics.py takes for the same motion.       *)
(*                                                                         *)
(* Points have integer coordinates and lines run along the axes;           *)
(* tolerances are 0.  A graph has the nodes' positions and its edges, with *)
(* two ends, the line from the first to the second, whether it is open,    *)
(* and the clearance beside it.                                            *)
(***************************************************************************)
EXTENDS Plane, Sequences, SequencesExt, FiniteSets, FiniteSetsExt

CONSTANTS
    NodeIds,
    Graphs,         \* graph objects, by name: see GraphType
    Poses,          \* position_xy of the estimate, and position_error_bound_m
    RobotRadius,    \* robot_radius_m
    TreeLimit,      \* _ROUTE_TREE_CACHE_LIMIT
    LastFrame,      \* bound of the model
    None            \* of Python: no graph, no stamp, no path

GraphNames == DOMAIN Graphs
EdgeType == [ends : NodeIds \X NodeIds, line : Seq(Point), open : BOOLEAN, clearance : Nat]

(* A step of a route: an edge and the direction in which it is travelled.  *)
StepsOf(g) == (DOMAIN Graphs[g].edge) \X {1, -1}

AlongAxes(line) ==
    \A i \in 1..(Len(line) - 1) : \E axis \in 1..2 : line[i][axis] = line[i + 1][axis]

ASSUME ReuseAssumption ==
    /\ Poses \subseteq [at : Point, error : Nat]
    /\ RobotRadius \in Nat /\ TreeLimit \in Nat \ {0} /\ LastFrame \in Nat
    /\ NodeIds \subseteq Nat /\ IsFiniteSet(NodeIds) /\ None \notin Nat
    /\ \A g \in GraphNames :
          /\ None \notin Seq(StepsOf(g))
          /\ Graphs[g].node \in [NodeIds -> Point]
          /\ \A e \in DOMAIN Graphs[g].edge :
                LET edge == Graphs[g].edge[e]
                IN  /\ edge \in EdgeType /\ AlongAxes(edge.line) /\ Len(edge.line) >= 2
                    /\ Head(edge.line) = Graphs[g].node[edge.ends[1]]
                    /\ Last(edge.line) = Graphs[g].node[edge.ends[2]]

VARIABLES
    frame,      \* the frame in progress: graph, pose and stamp_ns
    routes,     \* _route_graph, _route_trees, _route_starts_stamp_ns, _route_starts
    answer      \* what _path_to_node returned last, and to what

reuseVars == <<frame, routes, answer>>

Forgotten == [graph |-> None, trees |-> <<>>, stamp |-> None, starts |-> <<>>]

-----------------------------------------------------------------------------
(* Routes.                                                                 *)

BeginOf(g, step) == Graphs[g].edge[step[1]].ends[IF step[2] = 1 THEN 1 ELSE 2]
EndOf(g, step) == Graphs[g].edge[step[1]].ends[IF step[2] = 1 THEN 2 ELSE 1]

LineOf(g, step) ==
    LET line == Graphs[g].edge[step[1]].line IN IF step[2] = 1 THEN line ELSE Reverse(line)

IsOpen(g, step) == Graphs[g].edge[step[1]].open

Goal(g, start, route) == IF route = <<>> THEN start ELSE EndOf(g, Last(route))

Span(x, y) == Greater(y - x, x - y)
PieceLength(a, b) == Span(a[1], b[1]) + Span(a[2], b[2])

LineLength(line) ==
    MapThenSumSet(LAMBDA i : PieceLength(line[i], line[i + 1]), 1..(Len(line) - 1))

Cost(g, route) ==
    MapThenSumSet(LAMBDA i : LineLength(LineOf(g, route[i])), DOMAIN route)

(* Open routes, no longer than one that passes every node once.            *)
OpenRoutes(g, start) ==
    {route \in SeqOf(StepsOf(g), Cardinality(NodeIds) - 1) :
        \A i \in DOMAIN route :
            IsOpen(g, route[i]) /\ BeginOf(g, route[i]) = Goal(g, start, SubSeq(route, 1, i - 1))}

(* dijkstra_tree over open edges: the cheapest route to every node.        *)
CheapestTo(g, start, n) ==
    LET there == {r \in OpenRoutes(g, start) : Goal(g, start, r) = n}
        cheapest == {r \in there : \A other \in there : Cost(g, r) <= Cost(g, other)}
    IN  IF cheapest = {} THEN <<>> ELSE CHOOSE r \in cheapest : TRUE

Tree ==
    [g \in GraphNames |-> [start \in NodeIds |-> [n \in NodeIds |-> CheapestTo(g, start, n)]]]

(* The polyline of a route: where edges meet, the point is there once.     *)
Polyline(g, route) ==
    FlattenSeq([i \in DOMAIN route |->
        LET line == LineOf(g, route[i])
        IN  IF i > 1 /\ Last(LineOf(g, route[i - 1])) = Head(line) THEN Tail(line) ELSE line])

-----------------------------------------------------------------------------
(* _clip_path_to_pose: the line from the point of it nearest to the pose   *)
(* on.  It is no route when the corridor is too narrow, the pose too far   *)
(* from it, or nothing of it is left.                                      *)

Between(x, y, z) == Greater(Lesser(y, z), Lesser(x, Greater(y, z)))
Nearest(p, a, b) == <<Between(p[1], a[1], b[1]), Between(p[2], a[2], b[2])>>

Pieces(line) == {i \in 1..(Len(line) - 1) : line[i] # line[i + 1]}
PointsOn(a, b) ==
    (Lesser(a[1], b[1])..Greater(a[1], b[1])) \X (Lesser(a[2], b[2])..Greater(a[2], b[2]))

(* Corridors meet and cross, but none runs along another or along itself:  *)
(* two pieces have one point in common at most.  _trace_edges              *)
(* (topology.py) walks no step from a cell to the next twice.              *)
ASSUME ApartAssumption ==
    \A g \in GraphNames : \A e, d \in DOMAIN Graphs[g].edge :
        LET one == Graphs[g].edge[e].line
            other == Graphs[g].edge[d].line
        IN  \A i \in Pieces(one), j \in Pieces(other) :
                e # d \/ i # j =>
                    \A p, q \in PointsOn(one[i], one[i + 1]) \cap PointsOn(other[j], other[j + 1]) :
                        p = q

Off(p, line, i) == SquaredDistance(p, Nearest(p, line[i], line[i + 1]))

WithoutRepeats(line) ==
    FlattenSeq([i \in DOMAIN line |->
        IF i > 1 /\ line[i - 1] = line[i] THEN <<>> ELSE <<line[i]>>])

ClipToPose(line, pose, clearance) ==
    LET room == clearance - RobotRadius - pose.error
        closest == {i \in Pieces(line) :
                       \A j \in Pieces(line) : Off(pose.at, line, i) <= Off(pose.at, line, j)}
        first == Min(closest)
        rest == WithoutRepeats(<<Nearest(pose.at, line[first], line[first + 1])>>
                               \o SubSeq(line, first + 1, Len(line)))
    IN  IF \/ room <= 0 \/ closest = {}
           \/ Off(pose.at, line, first) > room * room \/ Len(rest) < 2
        THEN None ELSE rest

-----------------------------------------------------------------------------
(* _path_to_node.  A tree is kept with the graph it was computed for.      *)

AnyMemory(memory, g) == [memory EXCEPT !.graph = g]

Remembered(memory, g) ==
    IF memory.graph = g THEN memory ELSE [Forgotten EXCEPT !.graph = g]

StartsFrom ==
    [g \in GraphNames |-> [pose \in Poses |->
        LET Before(m, n) ==
                LET dm == SquaredDistance(Graphs[g].node[m], pose.at)
                    dn == SquaredDistance(Graphs[g].node[n], pose.at)
                IN  dm < dn \/ (dm = dn /\ m < n)
        IN  [i \in 1..Cardinality(NodeIds) |->
                CHOOSE n \in NodeIds : Cardinality({m \in NodeIds : Before(m, n)}) = i - 1]]]

Sorted(memory, f) ==
    IF memory.stamp = f.stamp THEN memory
    ELSE [memory EXCEPT !.stamp = f.stamp, !.starts = StartsFrom[f.graph][f.pose]]

(* The tree is taken out and put back last; the oldest have to go.         *)
TreeFor(trees, g, start) ==
    LET kept == {t \in ToSet(trees) : t.start = start}
    IN  IF kept = {} THEN [start |-> start, of |-> g] ELSE CHOOSE t \in kept : TRUE

Without(trees, start) ==
    LET places == {i \in DOMAIN trees : trees[i].start = start}
    IN  IF places = {} THEN trees ELSE RemoveAt(trees, Min(places))

Used(trees, tree) ==
    LET all == Append(Without(trees, tree.start), tree)
    IN  SubSeq(all, Greater(1, Len(all) - TreeLimit + 1), Len(all))

(* What one start gives: its route, if that is open now, from the pose on. *)
PathAlong(route, line) == IF line = None THEN None ELSE [route |-> route, line |-> line]

RouteFromPose(f, g, route) ==
    LET clearances == {Graphs[f.graph].edge[step[1]].clearance : step \in ToSet(route)}
    IN  IF route = <<>> \/ \E i \in DOMAIN route : ~IsOpen(f.graph, route[i]) THEN None
        ELSE PathAlong(route, ClipToPose(Polyline(g, route), f.pose, Min(clearances)))

Attempt(f, tree, n) == RouteFromPose(f, tree.of, Tree[tree.of][tree.start][n])

(* The starts in turn, until one gives a path.                             *)
TryStart(f, n, progress, start) ==
    IF progress.path # None THEN progress
    ELSE LET tree == TreeFor(progress.trees, f.graph, start)
         IN  [trees |-> Used(progress.trees, tree), path |-> Attempt(f, tree, n)]

TryAll(f, n, trees, starts) ==
    FoldLeft(LAMBDA progress, start : TryStart(f, n, progress, start),
             [trees |-> trees, path |-> None], starts)

PathToNode(memory, f, n) ==
    LET m == Sorted(Remembered(memory, f.graph), f)
        tried == TryAll(f, n, m.trees, m.starts)
    IN  [memory |-> [m EXCEPT !.trees = tried.trees], path |-> tried.path]

-----------------------------------------------------------------------------
(* A policy refuses a frame that is not later than the one before.         *)
NextFrame(g, pose) ==
    /\ frame.stamp < LastFrame
    /\ frame' = [graph |-> g, pose |-> pose, stamp |-> frame.stamp + 1]
    /\ UNCHANGED <<routes, answer>>

FindPath(n) ==
    /\ frame.stamp > 0
    /\ LET found == PathToNode(routes, frame, n)
       IN  /\ routes' = found.memory
           /\ answer' = [to |-> n, in |-> frame, path |-> found.path]
    /\ UNCHANGED frame

(* reset                                                                   *)
ForgetRoutes == routes' = Forgotten /\ UNCHANGED <<frame, answer>>

ReuseInit ==
    /\ frame = [graph |-> None, pose |-> None, stamp |-> 0]
    /\ routes = Forgotten
    /\ answer = None

ReuseNext ==
    \/ \E g \in GraphNames, pose \in Poses : NextFrame(g, pose)
    \/ \E n \in NodeIds : FindPath(n)
    \/ ForgetRoutes

ReuseSpec == ReuseInit /\ [][ReuseNext]_reuseVars

-----------------------------------------------------------------------------
(* Diagnostics: when is the motion of two paths the same?                  *)

(* _canonical_points: without repeats and points passed straight on.       *)
Straight(a, b, p) ==
    /\ Dot(Minus(b, a), Minus(p, b)) >= 0
    /\ Cross(Minus(b, a), Minus(p, b)) = 0

Shortened(chain, p) ==
    SubSeq(chain, 1, Max({n \in 0..Len(chain) : n > 1 => ~Straight(chain[n - 1], chain[n], p)}))

Extended(chain, p) ==
    IF chain # <<>> /\ Last(chain) = p THEN chain ELSE Append(Shortened(chain, p), p)

Canonical(line) ==
    LET upTo[k \in 0..Len(line)] == IF k = 0 THEN <<>> ELSE Extended(upTo[k - 1], line[k])
    IN  upTo[Len(line)]

(* _remaining_traversal: the pieces of the route, each with its step.      *)
PiecesAlong(line, step) ==
    [j \in 1..(Len(line) - 1) |-> [from |-> line[j], to |-> line[j + 1], step |-> step]]

RoutePieces(g, route) ==
    FlattenSeq([i \in DOMAIN route |->
                   PiecesAlong(WithoutRepeats(LineOf(g, route[i])), route[i])])

(* At the end of a piece, only what follows it remains.                    *)
PiecesAfter(pieces, i, first) ==
    SubSeq(pieces, IF pieces[i].to = first THEN i + 1 ELSE i, Len(pieces))

Fits(pieces, i, realized) ==
    LET first == Head(realized)
        suffix == PiecesAfter(pieces, i, first)
    IN  /\ Nearest(first, pieces[i].from, pieces[i].to) = first
        /\ suffix # <<>>
        /\ Canonical(<<first>> \o [j \in DOMAIN suffix |-> suffix[j].to]) = realized

(* A traversal that keeps the steps behind the pose.                       *)
WholeTraversal(g, path) == path.route

Traversal(g, path) ==
    LET pieces == RoutePieces(g, path.route)
        realized == Canonical(path.line)
        fitting == {i \in DOMAIN pieces : Fits(pieces, i, realized)}
        suffix == PiecesAfter(pieces, Min(fitting), Head(realized))
        steps == [j \in DOMAIN suffix |-> suffix[j].step]
    IN  IF fitting = {} \/ \E i \in DOMAIN path.route : ~IsOpen(g, path.route[i])
        THEN None
        ELSE WithoutRepeats(steps)

(* behavior_signature, of options that differ in nothing but their paths.  *)
Signature(g, path) == [traversal |-> Traversal(g, path), geometry |-> Canonical(path.line)]

-----------------------------------------------------------------------------
(* A path is what it would be if nothing had been kept from before: not a  *)
(* route of an older graph, nor one from where the robot was in an earlier *)
(* frame, whatever was asked for in between and whichever trees were       *)
(* dropped.                                                                *)
AnswerIsFresh ==
    answer # None =>
        answer.path = PathToNode(Forgotten, answer.in, answer.to).path

(* Every point with integer coordinates on the way, in order.              *)
Toward(x, y) == IF x < y THEN 1 ELSE IF x > y THEN -1 ELSE 0
UnitSteps(a, b) ==
    [k \in 1..PieceLength(a, b) |->
        <<a[1] + k * Toward(a[1], b[1]), a[2] + k * Toward(a[2], b[2])>>]

Motion(line) ==
    <<Head(line)>>
    \o FlattenSeq([i \in 1..(Len(line) - 1) |-> UnitSteps(line[i], line[i + 1])])

(* The signatures of all paths of a graph, beside their motion.            *)
Known ==
    [g \in GraphNames |->
        LET paths == {PathToNode(Forgotten, [graph |-> g, pose |-> pose, stamp |-> 1], n).path :
                         pose \in Poses, n \in NodeIds} \ {None}
        IN  {[signature |-> Signature(g, path), motion |-> Motion(path.line)] : path \in paths}]

(* The motion of every path is understood, and two paths are taken for the *)
(* same behavior exactly when the robot would pass the same points in the  *)
(* same order: not when they only share their ends, and also when one      *)
(* route began with edges that lie behind already.                         *)
SignatureIsMotion ==
    answer # None /\ answer.path # None =>
        LET signature == Signature(answer.in.graph, answer.path)
            motion == Motion(answer.path.line)
        IN  /\ signature.traversal # None
            /\ \A other \in Known[answer.in.graph] :
                  signature = other.signature <=> motion = other.motion
=============================================================================
