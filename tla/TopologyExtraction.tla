-------------------------- MODULE TopologyExtraction --------------------------
(***************************************************************************)
(* How a grid becomes a graph: TopologyBuilder of hsl_core/topology.py.    *)
(* Blocked cells are inflated by the footprint, cells where something      *)
(* happens become nodes, and corridors between them are traced into edges. *)
(*                                                                         *)
(* A cell is a pair <<x, y>>; lengths are in cells.  Positions, clearance  *)
(* and length of an edge follow from its cells and are left out.           *)
(***************************************************************************)
EXTENDS Integers, Sequences, SequencesExt, FiniteSetsExt

CONSTANTS
    Width, Height,
    Grids,          \* the layered maps that come in
    Inflations      \* radii of footprint and grid error, squared, in cells

GridCells == (0..(Width - 1)) \X (0..(Height - 1))
CoverageStates == {"UNKNOWN", "OBSERVED_FREE", "OCCUPIED"}

ASSUME ExtractionAssumption ==
    /\ Width \in Nat \ {0} /\ Height \in Nat \ {0}
    /\ Grids \subseteq [GridCells -> CoverageStates]
    /\ Inflations \subseteq Nat

VARIABLES
    grid,       \* the map that is worked on
    inflation,  \* the radius it is worked on with
    free,       \* configuration_free
    nodes,      \* node_cells
    todo,       \* nodes with the neighbours that are still to be traced from them
    trace,      \* the cells of the trace in progress, empty between traces
    visited,    \* segments walked
    edges       \* the edges so far, sequences of cells

extractionVars == <<grid, inflation, free, nodes, todo, trace, visited, edges>>

Unseen == [c \in GridCells |-> "UNKNOWN"]

-----------------------------------------------------------------------------
(* Configuration space.                                                    *)

Square(n) == n * n
Apart(c, d) == Square(c[1] - d[1]) + Square(c[2] - d[2])

Blocking(g) == {c \in GridCells : g[c] # "OBSERVED_FREE"}

(* _inflate_blocked and configuration_free: the known free cells that keep *)
(* the footprint away from every blocking cell.                            *)
ConfigurationFree(g, r) == {c \in GridCells : \A b \in Blocking(g) : Apart(c, b) > r}

OrthogonalNeighbors(mask, c) == {d \in mask : Apart(c, d) = 1}

(* _valid_neighbors: a diagonal step needs both cells beside it.           *)
ValidNeighbors(mask, c) ==
    {d \in mask : /\ Apart(c, d) \in {1, 2}
                  /\ <<c[1], d[2]>> \in mask /\ <<d[1], c[2]>> \in mask}

-----------------------------------------------------------------------------
(* _extract_nodes                                                          *)

(* The order in which the code sorts cells: by row, then by column.        *)
CellBefore(c, d) == c[2] < d[2] \/ (c[2] = d[2] /\ c[1] < d[1])
First(S) == CHOOSE c \in S : \A d \in S \ {c} : CellBefore(c, d)

IsFrontier(g, c) == \E d \in GridCells : Apart(c, d) \in {1, 2} /\ g[d] = "UNKNOWN"

(* As Kind, with the neighbours counted off by one.                        *)
KindOfCrossing(g, mask, c) ==
    LET degree == Cardinality(OrthogonalNeighbors(mask, c))
    IN  CASE IsFrontier(g, c) -> "FRONTIER"
          [] ~IsFrontier(g, c) /\ degree = 1 -> "DEAD_END"
          [] ~IsFrontier(g, c) /\ degree > 3 -> "JUNCTION"
          [] OTHER -> "NONE"

Kind(g, mask, c) ==
    LET degree == Cardinality(OrthogonalNeighbors(mask, c))
    IN  CASE IsFrontier(g, c) -> "FRONTIER"
          [] ~IsFrontier(g, c) /\ degree = 1 -> "DEAD_END"
          [] ~IsFrontier(g, c) /\ degree >= 3 -> "JUNCTION"
          [] OTHER -> "NONE"

(* Where nothing happens anywhere, one cell anchors the graph.             *)
NodeCells(g, mask) ==
    LET candidates == {c \in mask : Kind(g, mask, c) # "NONE"}
    IN  IF candidates = {} /\ mask # {} THEN {First(mask)} ELSE candidates

-----------------------------------------------------------------------------
(* _trace_edges                                                            *)

(* extract, up to the traces.                                              *)
Extract ==
    /\ grid = Unseen
    /\ grid' \in Grids /\ inflation' \in Inflations
    /\ free' = ConfigurationFree(grid', inflation')
    /\ nodes' = NodeCells(grid', free')
    /\ todo' = {pair \in nodes' \X free' : pair[2] \in ValidNeighbors(free', pair[1])}
    /\ UNCHANGED <<trace, visited, edges>>

FirstPair ==
    CHOOSE p \in todo : \A q \in todo \ {p} :
        CellBefore(p[1], q[1]) \/ (p[1] = q[1] /\ CellBefore(p[2], q[2]))

StartTrace ==
    /\ trace = <<>> /\ todo # {}
    /\ LET start == FirstPair[1]
           neighbor == FirstPair[2]
       IN  IF {start, neighbor} \in visited THEN UNCHANGED <<trace, visited>>
           ELSE /\ trace' = <<start, neighbor>>
                /\ visited' = visited \cup {{start, neighbor}}
    /\ todo' = todo \ {FirstPair}
    /\ UNCHANGED <<grid, inflation, free, nodes, edges>>

(* The neighbours a trace may go on to: not where it comes from.           *)
WaysOn == ValidNeighbors(free, Last(trace)) \ {trace[Len(trace) - 1]}

GoesOn ==
    /\ Last(trace) \notin nodes
    /\ WaysOn # {}
    /\ {Last(trace), First(WaysOn)} \notin visited

FollowTrace ==
    /\ trace # <<>> /\ GoesOn
    /\ trace' = Append(trace, First(WaysOn))
    /\ visited' = visited \cup {{Last(trace), First(WaysOn)}}
    /\ UNCHANGED <<grid, inflation, free, nodes, todo, edges>>

Canonical(path) == IF CellBefore(Last(path), Head(path)) THEN Reverse(path) ELSE path

(* A trace that does not end at a node leaves its segments visited and no  *)
(* edge.                                                                   *)
EndTrace ==
    /\ trace # <<>> /\ ~GoesOn
    /\ edges' = IF Last(trace) \in nodes THEN edges \cup {Canonical(trace)} ELSE edges
    /\ trace' = <<>>
    /\ UNCHANGED <<grid, inflation, free, nodes, todo, visited>>

ExtractionInit ==
    /\ grid = Unseen /\ inflation = 0
    /\ free = {} /\ nodes = {} /\ todo = {} /\ trace = <<>> /\ visited = {} /\ edges = {}

ExtractionNext ==
    Extract \/ StartTrace \/ FollowTrace \/ EndTrace

ExtractionSpec == ExtractionInit /\ [][ExtractionNext]_extractionVars

-----------------------------------------------------------------------------
Traced == grid # Unseen /\ trace = <<>> /\ todo = {}

Steps(e) == {{e[i], e[i + 1]} : i \in 1..(Len(e) - 1)}

(* A robot of the footprint can drive every edge: from cell to cell the    *)
(* rectangle between the two is free, and no cell of it is nearer to       *)
(* anything blocked or unknown than the footprint allows; the edge runs    *)
(* from node to node without a node in between, and no two edges share a   *)
(* step.                                                                   *)
EdgesAreDrivable ==
    Traced =>
        /\ \A e \in edges :
              /\ Head(e) \in nodes /\ Last(e) \in nodes
              /\ \A i \in 2..(Len(e) - 1) : e[i] \notin nodes
              /\ \A i \in 1..(Len(e) - 1), b \in Blocking(grid) :
                    \A x \in {e[i][1], e[i + 1][1]}, y \in {e[i][2], e[i + 1][2]} :
                        Apart(b, <<x, y>>) > inflation
        /\ \A e, f \in edges : e # f => Steps(e) \cap Steps(f) = {}

(* What is joined with an element by links, one after another.             *)
Widened(reached, links) == reached \cup UNION {l \in links : l \cap reached # {}}

JoinedWith(elements, links, element) ==
    LET reach[k \in 0..Cardinality(elements)] ==
            IF k = 0 THEN {element} ELSE Widened(reach[k - 1], links)
    IN  reach[Cardinality(elements)]

(* Nodes between which the robot could drive over free cells are connected *)
(* by edges, although a trace takes only one of the ways on, stops at what *)
(* was walked before, and may end nowhere.                                 *)
NodesStayConnected ==
    Traced =>
        LET steps == UNION {{{c, d} : d \in OrthogonalNeighbors(free, c)} : c \in free}
            roads == {{Head(e), Last(e)} : e \in edges}
        IN  \A n \in nodes : JoinedWith(free, steps, n) \cap nodes = JoinedWith(nodes, roads, n)

(* What the topology says can be driven, and what can be driven it says.   *)
TopologyIsSound == EdgesAreDrivable /\ NodesStayConnected
=============================================================================
