---------------------------- MODULE MCComponents ----------------------------
(***************************************************************************)
(* Eight components that share no state, checked in one run: the belief    *)
(* about the rival, the selection of options over many cycles, the         *)
(* perception worker, the layered occupancy map, the local obstacle map,   *)
(* contact during a step, the perception of the simulation, and routes     *)
(* from the robot's pose.  A behaviour is one of the component chosen in   *)
(* its first state; the others stand still.                                *)
(***************************************************************************)
EXTENDS BoundedWorker, Selection, TopologicalBelief, Occupancy, LocalMap,
        SweptContact, SimPerception, RouteReuse, TLC

VARIABLE part   \* the component whose behaviour this is

LostBelief ==
    [cells |-> {}, unknown |-> TRUE, measured |-> 0, current |-> 0, origin |-> 0,
     bounded |-> TRUE, lastNegative |-> -1, groups |-> {}]

MCInit ==
    /\ part \in {"belief", "selection", "worker", "occupancy", "localMap", "contact",
                 "perception", "routes"}
    /\ part = "belief" => BeliefInit
    /\ part # "belief" =>
          truth = [t \in {0} |-> [at |-> Outside, way |-> "LEFT"]] /\ belief = LostBelief
          /\ fine = FALSE
    /\ SelectionInit
    /\ WorkerInit
    /\ OccupancyInit
    /\ LocalMapInit
    /\ ContactInit
    /\ PerceptionInit
    /\ ReuseInit

mindVars == <<beliefVars, selectionVars, workerVars>>
senseVars == <<localMapVars, perceptionVars>>
motionVars == <<contactVars, reuseVars>>

MCNext ==
    /\ UNCHANGED part
    /\ \/ part = "belief" /\ BeliefNext
          /\ UNCHANGED <<selectionVars, workerVars, occupancyVars, senseVars, motionVars>>
       \/ part = "selection" /\ SelectionNext
          /\ UNCHANGED <<beliefVars, workerVars, occupancyVars, senseVars, motionVars>>
       \/ part = "worker" /\ WorkerNext
          /\ UNCHANGED <<beliefVars, selectionVars, occupancyVars, senseVars, motionVars>>
       \/ part = "occupancy" /\ OccupancyNext
          /\ UNCHANGED <<mindVars, senseVars, motionVars>>
       \/ part = "localMap" /\ LocalMapNext
          /\ UNCHANGED <<mindVars, occupancyVars, perceptionVars, motionVars>>
       \/ part = "contact" /\ ContactNext
          /\ UNCHANGED <<mindVars, occupancyVars, senseVars, reuseVars>>
       \/ part = "perception" /\ PerceptionNext
          /\ UNCHANGED <<mindVars, occupancyVars, localMapVars, motionVars>>
       \/ part = "routes" /\ ReuseNext
          /\ UNCHANGED <<mindVars, occupancyVars, senseVars, contactVars>>

MCSpec ==
    /\ MCInit
    /\ [][MCNext]_<<part, mindVars, occupancyVars, senseVars, motionVars>>
    /\ part = "worker" => WorkerFairness

-----------------------------------------------------------------------------
(* A triangle a, b, c with the frontier c, a blocked edge to d, and a loop *)
(* at b.                                                                   *)
MCFromNode == 1 :> "a" @@ 2 :> "b" @@ 3 :> "a" @@ 4 :> "b" @@ 5 :> "b"
MCToNode == 1 :> "b" @@ 2 :> "c" @@ 3 :> "c" @@ 4 :> "d" @@ 5 :> "b"
MCLength == 1 :> 3 @@ 2 :> 1 @@ 3 :> 1 @@ 4 :> 1 @@ 5 :> 2
MCPathBound == 0 :> 0 @@ 1 :> 1 @@ 2 :> 3
MCScans ==
    {{Cell(1, 0, 2)}, {Cell(1, 1, 2)}, {Cell(2, 0, 1), Cell(3, 0, 1)},
     {Cell(1, 0, 1), Cell(3, 0, 1)}}

(* Measurements that rule out nothing, all but the long edge, and all but  *)
(* one point of it, which is no end and not the middle of the whole edge.  *)
MCPoints == UNION {{<<e, h>> : h \in 0..(2 * MCLength[e])} : e \in Edges}
AtA == {<<1, 0>>, <<3, 0>>}
AtB == {<<1, 6>>, <<2, 0>>, <<4, 0>>, <<5, 0>>, <<5, 4>>}
MCMeasurements ==
    {MCPoints, {p \in MCPoints : p[1] = 1} \cup AtA \cup AtB, {<<1, 2>>}}

(* The belief alone.                                                       *)
LoopSpec == part = "belief" /\ MCSpec

(* Two equal options, a better one and one that goes first.                *)
Option(key, kind, facts, utility, order) ==
    [key |-> key, inst |-> key, kind |-> kind, facts |-> facts, timing |-> "NONE",
     ready |-> TRUE, urgency |-> 0, utility |-> utility, order |-> order]

MCHold == Option("hold", "HOLD_SAFE", {}, 0, 0)
Bases(u) == Option("base", "ADVANCE_BASE", {"ACCEPTED_GOAL", "GOAL_THREAT_ACCEPTABLE"}, u, 1)
Routes(u) == Option("route", "ADVANCE_KNOWN_ROUTE", {"VERSIONED_OPEN_ROUTE"}, u, 2)
Shortcuts(u) == Option("shortcut", "ADVANCE_KNOWN_ROUTE", {"VERSIONED_OPEN_ROUTE"}, u, 3)
Portals(u) ==
    Option("portal", "TAKE_ALTERNATE_PORTAL",
           {"CONTESTED_ROUTE", "ALTERNATE_ROUTE_AVAILABLE"}, u, 4)

MCWorth == "base" :> 0 @@ "route" :> 0 @@ "shortcut" :> 1 @@ "portal" :> 0
MCStanding == "base" :> 767 @@ "route" :> 767 @@ "shortcut" :> 767 @@ "portal" :> 511

MaybeOne(options) == {{}} \cup {{o} : o \in options}
MCEvidence ==
    {A \cup B \cup C \cup D :
        A \in MaybeOne({Bases(0), Bases(1)}),
        B \in MaybeOne({Routes(0), Routes(1)}),
        C \in MaybeOne({Shortcuts(1), Shortcuts(2)}),
        D \in MaybeOne({Portals(0)})}

(* Scans of two cells in line: returns from the far one, three at a time;  *)
(* rays that pass both, return outside or from neither; and moving things  *)
(* at either.  One batch is larger than allowed.                           *)
Ray(cells, end, t, kind, hit) ==
    [cells |-> cells, end |-> end, stamp |-> t, kind |-> kind, hit |-> hit]
Walls(t) == Ray({1, 2}, 2, t, "STATIC", TRUE)
Misses(t) == Ray({1, 2}, 2, t, "STATIC", FALSE)
MCScansAt(t) ==
    {<<Walls(t), Walls(t), Walls(t)>>,
     <<Ray({1, 2}, OffGrid, t, "STATIC", FALSE), Ray({1, 2}, OffGrid, t, "STATIC", TRUE),
       Misses(t), Misses(t)>>,
     <<Ray({1, 2}, 2, t, "DYNAMIC", TRUE), Ray({1}, 1, t, "STATIC", TRUE)>>,
     <<Ray({}, 1, t, "DYNAMIC", TRUE), Misses(t), Ray({}, 1, t, "DYNAMIC", TRUE)>>}
MCBatches ==
    {<<>>, [i \in 1..(MaxRays + 1) |-> Walls(0)]} \cup UNION {MCScansAt(t) : t \in 0..LastStamp}

(* A grid of 5 by 3 cells, two long, around the robot, and clouds of three *)
(* returns: in line, beside each other, behind, at the robot, outside the  *)
(* grid and above the robot.                                               *)
MCOrigin == <<-2, -3>>
AtLevel(p) == [at |-> p, level |-> TRUE]
MCReturns ==
    {AtLevel(p) : p \in {<<0, 0>>, <<1, 0>>, <<3, 0>>, <<7, 0>>, <<9, 0>>, <<6, 1>>, <<5, 2>>,
                         <<3, 1>>, <<7, -2>>, <<4, -3>>, <<-1, 0>>, <<7, 3>>}}
    \cup {[at |-> <<3, 0>>, level |-> FALSE]}
MCClouds == SeqOf(MCReturns, 3) \cup {[i \in 1..4 |-> AtLevel(<<3, 0>>)]}

(* Every step over a small field, beside walls along it, across it, at its *)
(* border and at its corner.                                               *)
Field(n) == (0..n) \X (0..n)
MCWalls ==
    {<<<<0, 0>>, <<0, 1>>>>, <<<<1, 0>>, <<1, 3>>>>, <<<<0, 3>>, <<3, 0>>>>,
     <<<<1, 1>>, <<3, 2>>>>, <<<<3, 3>>, <<2, 1>>>>}
MCWallMoves == [from : Field(3), to : Field(3), wall : MCWalls]
MCPairMoves == [g0 : Field(2), g1 : Field(2), e0 : Field(2), e1 : Field(2)]

(* Scans of bodies anywhere in front of three rooms.                       *)
Far == 9
MCRooms ==
    {[b \in BeamIds |-> IF b < 2 THEN 4 ELSE Far], [b \in BeamIds |-> 4],
     [b \in BeamIds |-> 3 + (b % 2)]}
Exactly == [b \in BeamIds |-> 0]
Shorter(beams) == [b \in BeamIds |-> IF b \in beams THEN -1 ELSE 1]
MCScenes ==
    [walls : MCRooms, bodies : [BeamIds -> {1, Far}],
     noise : {Exactly, Shorter({0, 2, 4, 6})}, blind : {{}, {0}}]

(* Every sight over a small field, past every wall.                        *)
MCSights ==
    [from : Field(2), to : Field(2),
     walls : {{w} : w \in {x \in Field(2) \X Field(2) : x[1] # x[2]}}]

(* A network with two ways from 1 to 3, of which the short one is open in  *)
(* one graph and not in the other.                                         *)
Passage(from, to, line, open, clearance) ==
    [ends |-> <<from, to>>, line |-> line, open |-> open, clearance |-> clearance]
MCNode == 1 :> <<0, 0>> @@ 2 :> <<2, 0>> @@ 3 :> <<4, 0>> @@ 4 :> <<0, 2>>
Network(open) ==
    [node |-> MCNode,
     edge |-> 1 :> Passage(1, 2, <<<<0, 0>>, <<1, 0>>, <<2, 0>>>>, TRUE, 2)
           @@ 2 :> Passage(3, 2, <<<<4, 0>>, <<2, 0>>>>, open, 2)
           @@ 3 :> Passage(1, 4, <<<<0, 0>>, <<0, 2>>>>, TRUE, 3)
           @@ 4 :> Passage(4, 3, <<<<0, 2>>, <<4, 2>>, <<4, 2>>, <<4, 0>>>>, TRUE, 2)]
MCGraphs == "before" :> Network(TRUE) @@ "after" :> Network(FALSE)
PoseAt(p, error) == [at |-> p, error |-> error]
MCPoses ==
    {PoseAt(p, 0) : p \in {<<0, 0>>, <<1, 0>>, <<2, 0>>, <<3, 1>>, <<0, 1>>, <<1, 1>>,
                           <<4, 1>>, <<2, 2>>, <<2, 3>>, <<5, 3>>}}
    \cup {PoseAt(p, 1) : p \in {<<1, 0>>, <<0, 1>>}}
=============================================================================
