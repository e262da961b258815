------------------------- MODULE TopologicalBelief -------------------------
(***************************************************************************)
(* TopologicalBelief of hsl_core/perception/topological_belief.py: where   *)
(* the rival may be, as intervals on the edges of a graph and a share that *)
(* is unknown.  Masses are left out but for whether they are positive: a   *)
(* cell that is there has some.  Lengths and times are integers.           *)
(*                                                                         *)
(* Beside it runs the rival itself, which moves on the graph no faster     *)
(* than the bound the belief is given, and may leave it at a frontier and  *)
(* come back at another.                                                   *)
(***************************************************************************)
EXTENDS Integers, FiniteSets

CONSTANTS
    Edges, Junctions,   \* the graph: edges and nodes,
    FromNode, ToNode,   \* where the edges begin and end,
    Length,             \* metric_length_m,
    Blocked,            \* edges in state BLOCKED
    Frontiers,          \* nodes of kind FRONTIER; none if nothing branches off
                        \* there: unknown_frontier_branch_probability is 0
    PathBound,          \* _max_path_length by age, before a reacquisition
    MaxSpeed,           \* max_speed_mps
    MaxAge,             \* max_age_s of a negative observation
    Scans,              \* sets of intervals a scan may cover for certain
    Groups,             \* observation_group_id values
    Measurements,       \* points of the graph a measurement does not rule out
    LastTime            \* bound: the end of a behaviour

Ends(e) == {FromNode[e], ToNode[e]}

(* Edges that end where they begin: the extractor traces them around an    *)
(* obstacle with one junction beside it.                                   *)
Loops == {e \in Edges : FromNode[e] = ToNode[e]}

ASSUME GraphAssumption ==
    /\ FromNode \in [Edges -> Junctions]
    /\ ToNode \in [Edges -> Junctions]
    /\ Length \in [Edges -> Nat \ {0}]
    /\ Blocked \subseteq Edges
    /\ Frontiers \subseteq Junctions
    /\ MaxSpeed \in Nat \ {0}
    /\ LastTime \in Nat
    /\ PathBound \in [0..LastTime -> Nat]
    /\ \A t \in 1..LastTime : PathBound[t] - PathBound[t - 1] \in 0..MaxSpeed
    /\ \A perfect \in Scans : \A i \in perfect : {i.begin, i.end} \subseteq Nat

Cell(e, b, s) == [edge |-> e, begin |-> b, end |-> s]

VARIABLES
    belief,   \* the TopologicalBelief the owner holds
    truth,    \* history: the rival at 0, 1, ... up to now, see RivalType
    fine      \* history: a measurement was finer than a cell it fell into

beliefVars == <<belief, truth, fine>>

Now == Cardinality(DOMAIN truth) - 1

-----------------------------------------------------------------------------
(* The rival: where it is, and whether it has ever left the graph.         *)

Outside == <<"outside">>
Positions == UNION {{<<e, s>> : s \in 0..Length[e]} : e \in Edges \ Blocked}

NodesAt(p) ==
    {n \in Junctions : p # Outside /\ \/ p[2] = 0 /\ FromNode[p[1]] = n
                                      \/ p[2] = Length[p[1]] /\ ToNode[p[1]] = n}

(* The same place seen from the edges that meet there.                     *)
Places ==
    [p \in Positions \cup {Outside} |->
        {q \in Positions \cup {Outside} : q = p \/ NodesAt(q) \cap NodesAt(p) # {}}]

OneStep ==
  [p \in Positions \cup {Outside} |->
    IF p = Outside
    THEN {Outside} \cup {q \in Positions : NodesAt(q) \cap Frontiers # {}}
    ELSE (UNION {{r \in Positions : r[1] = q[1] /\ r[2] - q[2] \in -1..1} : q \in Places[p]})
         \cup (IF NodesAt(p) \cap Frontiers # {} THEN {Outside} ELSE {})]

RivalType == [at : Positions \cup {Outside}, way : {"INSIDE", "LEFT"}]

Moved(r) ==
    {[at |-> q, way |-> IF q = Outside THEN "LEFT" ELSE r.way] : q \in OneStep[r.at]}

(* Between two seconds it may also leave and be back.                      *)
Within(rival, distance) ==
    LET near[d \in 0..distance] ==
            IF d = 0 THEN {rival} ELSE UNION {Moved(r) : r \in near[d - 1]}
    IN  near[distance]

-----------------------------------------------------------------------------
(* The belief.                                                             *)

Least(a, b) == IF a < b THEN a ELSE b
Greatest(a, b) == IF a > b THEN a ELSE b

(* _max_path_length                                                        *)
MaxPathLength(b, age) == IF b.bounded THEN PathBound[age] ELSE MaxSpeed * age

(* initial_costs: a dictionary by node, in which the second end of a loop  *)
(* takes the place of the first.                                           *)
InitialCost(cell, n) ==
    IF n = ToNode[cell.edge] THEN Length[cell.edge] - cell.end ELSE cell.begin

(* _node_distances: the nodes no further than d from a cell.               *)
NodesWithin(cell, distance) ==
    LET near[d \in 0..distance] ==
            {n \in Ends(cell.edge) : InitialCost(cell, n) <= d} \cup
            UNION {Ends(e) : e \in {x \in Edges \ Blocked :
                /\ Length[x] <= d
                /\ Ends(x) \cap near[d - Length[x]] # {}}}
    IN  near

(* How much of the distance is left at node n, or -1.                      *)
Left(cell, distance, n) ==
    LET near == NodesWithin(cell, distance)
        left == {d \in 0..distance : n \in near[distance - d]}
    IN  IF left = {} THEN -1 ELSE CHOOSE d \in left : \A x \in left : x <= d

(* The pieces of an edge, one unit long each, that can be reached.         *)
ReachedOneWay(cell, distance, e) ==
    {k \in 0..(Length[e] - 1) :
        \/ e = cell.edge /\ cell.begin - distance <= k /\ k + 1 <= cell.end + distance
        \/ k + 1 <= Left(cell, distance, FromNode[e])}

Reached(cell, distance, e) ==
    {k \in 0..(Length[e] - 1) :
        \/ e = cell.edge /\ cell.begin - distance <= k /\ k + 1 <= cell.end + distance
        \/ k + 1 <= Left(cell, distance, FromNode[e])
        \/ Length[e] - k <= Left(cell, distance, ToNode[e])}

(* _union_intervals: what hangs together is one interval.                  *)
Runs(pieces, e) ==
    {c \in {Cell(e, b, s) : b \in pieces, s \in {k + 1 : k \in pieces}} :
        /\ c.begin < c.end
        /\ c.begin..(c.end - 1) \subseteq pieces
        /\ c.begin - 1 \notin pieces
        /\ c.end \notin pieces}

AllCells ==
    UNION {{c \in {Cell(e, b, s) : b, s \in 0..Length[e]} : c.begin <= c.end} : e \in Edges}

(* _reachable_intervals                                                    *)
ReachableIntervals ==
    [cell \in AllCells |->
        [distance \in 0..(MaxSpeed * LastTime) |->
            UNION {Runs(Reached(cell, distance, e), e) : e \in Edges \ Blocked}]]

(* _frontier_reachable                                                     *)
FrontierReachable(cell, distance) ==
    NodesWithin(cell, distance)[distance] \cap Frontiers # {}

(* propagate, where it does not raise: t is not before current.            *)
Propagate(b, t) ==
    LET distance == MaxPathLength(b, t - b.origin) - MaxPathLength(b, b.current - b.origin)
        open == {c \in b.cells : c.edge \notin Blocked}
    IN  IF distance <= 0 THEN [b EXCEPT !.current = t]
        ELSE [b EXCEPT
                !.current = t,
                !.unknown = @ \/ \E c \in open : FrontierReachable(c, distance),
                !.cells = (b.cells \ open) \cup
                          UNION {ReachableIntervals[c][distance] : c \in open}]

(* _average_detection_probability is 1                                     *)
Detected(cell, perfect) ==
    IF cell.begin = cell.end
    THEN \E i \in perfect :
            i.edge = cell.edge /\ i.begin <= cell.begin /\ cell.end <= i.end
    ELSE \A k \in cell.begin..(cell.end - 1) : \E i \in perfect :
            i.edge = cell.edge /\ i.begin <= k /\ k + 1 <= i.end

(* A check that lets an observation of the past through.                   *)
AcceptedLate(b, o) ==
    /\ o.valid
    /\ o.group \notin b.groups
    /\ o.stamp <= Now /\ Now - o.stamp <= MaxAge
    /\ o.stamp > b.lastNegative

(* _observation_rejection is empty                                         *)
Accepted(b, o) ==
    /\ o.valid
    /\ o.group \notin b.groups
    /\ o.stamp <= Now /\ Now - o.stamp <= MaxAge
    /\ o.stamp > b.lastNegative
    /\ o.stamp >= b.current

(* apply_negative_observation of an accepted observation; what is unknown  *)
(* is ruled out where unknown_likelihood is 0.                             *)
AfterNegative(b, o) ==
    LET prior == IF o.stamp > b.current THEN Propagate(b, o.stamp) ELSE b
        left == {c \in prior.cells : ~Detected(c, o.perfect)}
    IN  [prior EXCEPT !.cells = left,
                      !.unknown = (@ /\ ~o.exhaustive) \/ left = {},
                      !.lastNegative = o.stamp,
                      !.groups = @ \cup {o.group}]

(* Where _cell_position_likelihood looks: at the ends and the middle of a  *)
(* cell.  Points are in halves of a unit.                                  *)
Samples(c) == {<<c.edge, 2 * c.begin>>, <<c.edge, c.begin + c.end>>, <<c.edge, 2 * c.end>>}

(* A look at all of the cell.                                              *)
Points(c) == {<<c.edge, h>> : h \in (2 * c.begin)..(2 * c.end)}

(* reacquire of a fresh measurement.  The likelihood vanishes at points    *)
(* that are some 38 standard deviations away, and with it the weight of a  *)
(* cell all samples of which are; such a cell is dropped.  If all weights  *)
(* together are next to nothing, that of the unknown too, they count as 0. *)
AfterMeasurement(b, t, m) ==
    LET prior == Propagate(b, t)
        left == {c \in prior.cells : Samples(c) \cap m # {}}
    IN  [prior EXCEPT !.cells = left,
                      !.unknown = @ \/ left = {},
                      !.measured = t, !.origin = t, !.bounded = FALSE]

-----------------------------------------------------------------------------
Holds(cell, p) == p[1] = cell.edge /\ cell.begin <= p[2] /\ p[2] <= cell.end
Covers(cells, p) ==
    \E c \in cells : \E q \in Places[p] \ {Outside} : Holds(c, q)

BeliefInit ==
    \E p \in Positions, unknown \in BOOLEAN, wide \in 0..1 :
        /\ truth = [t \in {0} |-> [at |-> p, way |-> "INSIDE"]]
        /\ belief =
             [cells |-> {Cell(p[1], Greatest(0, p[2] - wide), Least(Length[p[1]], p[2] + wide))},
              unknown |-> unknown, measured |-> 0, current |-> 0, origin |-> 0,
              bounded |-> TRUE, lastNegative |-> -1, groups |-> {}]
        /\ fine = FALSE

(* The rival moves for a second.                                           *)
Move ==
    /\ Now < LastTime
    /\ \E r \in Within(truth[Now], PathBound[Now + 1] - PathBound[Now]) :
          truth' = [t \in 0..(Now + 1) |-> IF t = Now + 1 THEN r ELSE truth[t]]
    /\ UNCHANGED <<belief, fine>>

PropagateTo(t) ==
    /\ t >= belief.current
    /\ belief' = Propagate(belief, t)
    /\ UNCHANGED <<truth, fine>>

(* A scan that may have been on its way since its stamp.  What it covers   *)
(* for certain does not hold the rival, if it is valid: of this map, with  *)
(* this likelihood model, of samples on the graph.  It rules out the       *)
(* unknown only while the rival has not left.                              *)
Honest(o) ==
    o.valid =>
        /\ ~Covers(o.perfect, truth[o.stamp].at)
        /\ o.exhaustive => truth[o.stamp].way # "LEFT"

ObserveNothing(o) ==
    /\ Honest(o)
    /\ belief' = IF Accepted(belief, o) THEN AfterNegative(belief, o) ELSE belief
    /\ UNCHANGED <<truth, fine>>

(* A measurement does not rule out where the rival is.                     *)
HonestMeasurement(m, t) ==
    {<<q[1], 2 * q[2]>> : q \in Places[truth[t].at] \ {Outside}} \subseteq m

(* It leaves in a cell some points, but none of those the code looks at.   *)
FinerThan(m, cells) ==
    \E c \in cells : Points(c) \cap m # {} /\ Samples(c) \cap m = {}

(* A measurement of the rival of any age.                                  *)
Reacquire(t, ours, m) ==
    /\ HonestMeasurement(m, t)
    /\ IF ours /\ t >= belief.current /\ t > belief.measured
       THEN /\ belief' = AfterMeasurement(belief, t, m)
            /\ fine' = (fine \/ FinerThan(m, Propagate(belief, t).cells))
       ELSE UNCHANGED <<belief, fine>>
    /\ UNCHANGED truth

Observations(t) ==
    [stamp : {t}, group : Groups, valid : BOOLEAN, perfect : Scans, exhaustive : BOOLEAN]

BeliefNext ==
    \/ Move
    \/ \E t \in 0..Now :
          \/ PropagateTo(t)
          \/ \E o \in Observations(t) : ObserveNothing(o)
          \/ \E ours \in BOOLEAN, m \in Measurements : Reacquire(t, ours, m)

BeliefSpec == BeliefInit /\ [][BeliefNext]_beliefVars

-----------------------------------------------------------------------------
OnLoop(p) == p # Outside /\ p[1] \in Loops

(* What propagation is to do, HSL26_SESSION_CHANGELOG.md:880: "Propagation *)
(* computes reachable support by graph path length".  Then the rival is    *)
(* inside one of the cells at the time the belief is of, as long as it has *)
(* not left the graph, and once it has there is unknown mass; unless cells *)
(* were dropped by a measurement that was finer than they are.             *)
RivalIsReached ==
    ~fine =>
        IF truth[belief.current].way = "LEFT" THEN belief.unknown
        ELSE Covers(belief.cells, truth[belief.current].at)

(* The belief is never wrong about where the rival is, if the rival has    *)
(* kept to edges between two nodes (a node it passes may be counted among  *)
(* any of the edges there).  This holds although scans come late, twice    *)
(* and out of order, the belief is propagated in steps of any size, and    *)
(* there are loops, along which the rival may have come between the times  *)
(* the history names: what is lost is only the way back out of a loop.     *)
SupportContainsRival ==
    (\A t \in 0..belief.current : ~OnLoop(truth[t].at)) => RivalIsReached
=============================================================================
