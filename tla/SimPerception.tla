--------------------------- MODULE SimPerception ---------------------------
(***************************************************************************)
(* How a simulated robot finds its rival in a scan, and whether one point  *)
(* is in sight of another: sim/kinematic/perception.py.                    *)
(*                                                                         *)
(* How far walls and bodies are is a number for each beam of a scan, and a *)
(* detection is the set of its beams.  Points have integer coordinates;    *)
(* tolerances are 0; the estimated pose is exact.                          *)
(***************************************************************************)
EXTENDS Plane, Sequences, FiniteSets, SequencesExt, FiniteSetsExt

CONSTANTS
    Beams,          \* number of beams of a scan
    SensorRange,    \* max_range_m of the sensor
    Noise,          \* how far a measurement may be off
    Threshold,      \* static_residual_threshold_m
    MinimumBeams,   \* minimum_cluster_beams
    MaximumGap,     \* maximum_cluster_gap_beams
    Scenes,         \* what a scan is taken of, see SceneType
    Sights          \* points and walls, see SightType

BeamIds == 0..(Beams - 1)

(* How far walls and bodies are along each beam, how far off the beam's    *)
(* measurement is, and the beams in a blind sector.                        *)
SceneType ==
    [walls : [BeamIds -> Nat], bodies : [BeamIds -> Nat],
     noise : [BeamIds -> (-Noise)..Noise], blind : SUBSET BeamIds]
SightType == [from : Point, to : Point, walls : SUBSET (Point \X Point)]

(* ExtractorConfig.__post_init__                                           *)
ExtractorConfigValid ==
    /\ Threshold \in Nat \ {0} /\ MaximumGap \in Nat
    /\ MinimumBeams \in Nat /\ MinimumBeams >= 2

(* BenchmarkConfig has at least four beams; measurements are more exact    *)
(* than the threshold.                                                     *)
ASSUME PerceptionAssumption ==
    /\ ExtractorConfigValid
    /\ Beams \in Nat /\ Beams >= 4 /\ SensorRange \in Nat \ {0} /\ Noise \in 0..(Threshold - 1)
    /\ Scenes \subseteq SceneType
    /\ Sights \subseteq SightType
    /\ \A s \in Sights : \A w \in s.walls : w[1] # w[2]

VARIABLES
    seen,       \* what is looked at
    finding     \* what is found in it

perceptionVars == <<seen, finding>>

-----------------------------------------------------------------------------
(* FirstHitRaycaster: nothing at or beyond its range.                      *)
Cast(distance, range) == IF distance < range THEN {distance} ELSE {}

FirstHit(scene, b) ==
    IF b \in scene.blind THEN {}
    ELSE Cast(Lesser(scene.walls[b], scene.bodies[b]), SensorRange)

(* LidarSensor.observe                                                     *)
Measured(scene, b) ==
    IF FirstHit(scene, b) = {} THEN SensorRange
    ELSE Greater(0, Lesser(SensorRange, Max(FirstHit(scene, b)) + scene.noise[b]))

Observe(scene) ==
    [ranges |-> [b \in BeamIds |-> Measured(scene, b)],
     valid |-> {b \in BeamIds : FirstHit(scene, b) # {}},
     covered |-> BeamIds \ scene.blind,
     walls |-> scene.walls]

(* extract_synthetic_opponent, with a pose that is exact                   *)
MaxRange(scan) == Max({scan.ranges[b] : b \in BeamIds})

Expected(scan, b) == Cast(scan.walls[b], MaxRange(scan))

Residual(scan) ==
    {b \in scan.valid : \A wall \in Expected(scan, b) : wall - scan.ranges[b] >= Threshold}

(* _cluster_indices: beams in ascending order, cut where the gap is too    *)
(* wide; the last and the first group belong together across the end.      *)
Joined(groups, b) ==
    IF groups # <<>> /\ b - Last(Last(groups)) <= MaximumGap + 1
    THEN [groups EXCEPT ![Len(groups)] = Append(@, b)]
    ELSE Append(groups, <<b>>)

RunsOfBeams(beams) ==
    LET runs[k \in 0..Beams] ==
            IF k = 0 THEN <<>>
            ELSE IF k - 1 \in beams THEN Joined(runs[k - 1], k - 1)
            ELSE runs[k - 1]
    IN  runs[Beams]

RunsOfRow(beams) == {ToSet(g) : g \in ToSet(RunsOfBeams(beams))}

Clusters(beams) ==
    LET groups == RunsOfBeams(beams)
        last == Len(groups)
    IN  IF last > 1 /\ Head(Head(groups)) + Beams - Last(Last(groups)) <= MaximumGap + 1
        THEN {ToSet(groups[i]) : i \in 2..(last - 1)} \cup {ToSet(groups[last]) \cup ToSet(groups[1])}
        ELSE {ToSet(groups[i]) : i \in 1..last}

Detections(scan) ==
    IF Beams < 4 \/ scan.covered # BeamIds \/ MaxRange(scan) <= 0 THEN {}
    ELSE {c \in Clusters(Residual(scan)) : Cardinality(c) >= MinimumBeams}

-----------------------------------------------------------------------------
(* line_of_sight_clear, for one wall.                                      *)

(* A wall along the sight: the parts of the sight it covers, times length. *)
CoversSome(from, to, wall) ==
    LET length == SquaredDistance(from, to)
        first == Dot(Minus(wall[1], from), Minus(to, from))
        second == Dot(Minus(wall[2], from), Minus(to, from))
    IN  Greater(Lesser(first, second), 0) < Lesser(Greater(first, second), length)

(* A wall across: the fractions of sight and wall at which they meet.      *)
CrossesSight(from, to, wall) ==
    LET d == Minus(to, from)
        s == Minus(wall[2], wall[1])
        q == Minus(wall[1], from)
        sign == IF Cross(d, s) > 0 THEN 1 ELSE -1
        whole == sign * Cross(d, s)
        alongRay == sign * Cross(q, s)
        alongWall == sign * Cross(q, d)
    IN  /\ 0 < alongRay /\ alongRay < whole
        /\ 0 <= alongWall /\ alongWall <= whole

Hides(from, to, wall) ==
    LET d == Minus(to, from)
    IN  IF Cross(d, Minus(wall[2], wall[1])) = 0
        THEN Cross(Minus(wall[1], from), d) = 0 /\ CoversSome(from, to, wall)
        ELSE CrossesSight(from, to, wall)

LineOfSight(from, to, walls) == from = to \/ \A wall \in walls : ~Hides(from, to, wall)

-----------------------------------------------------------------------------
LookAround(scene) ==
    /\ seen' = [kind |-> "SCENE", of |-> scene]
    /\ finding' = [detections |-> Detections(Observe(scene))]

LookAlong(s) ==
    /\ seen' = [kind |-> "SIGHT", of |-> s]
    /\ finding' = [clear |-> LineOfSight(s.from, s.to, s.walls)]

PerceptionInit == seen = [kind |-> "NONE"] /\ finding = [clear |-> TRUE]

PerceptionNext ==
    /\ seen.kind = "NONE"
    /\ \/ \E scene \in Scenes : LookAround(scene)
       \/ \E s \in Sights : LookAlong(s)

PerceptionSpec == PerceptionInit /\ [][PerceptionNext]_perceptionVars

-----------------------------------------------------------------------------
(* How many beams further the one is than the other, the shorter way round. *)
Apart(b, c) ==
    LET between == Greater(b - c, c - b) IN Lesser(between, Beams - between)

(* Beams that meet a body which stands out from the walls behind it.       *)
StandsOut(scene) ==
    {b \in BeamIds : /\ scene.bodies[b] < SensorRange
                     /\ scene.walls[b] - scene.bodies[b] >= Threshold + Noise}

(* The beams one gets to from b over gaps that are not too wide.           *)
BodyAt(beams, b) ==
    {c \in beams :
        \A S \in SUBSET beams :
            /\ b \in S
            /\ \A x \in S, y \in beams : Apart(x, y) <= MaximumGap + 1 => y \in S
            => c \in S}

(* A body that stands out, and that two beams meet, is in one detection as *)
(* a whole, wherever in the circle it is; and no two detections are so     *)
(* near each other that they could be of one body.  A scan that measures   *)
(* nothing but 0 is not looked at.                                         *)
BodiesStandApart ==
    seen.kind = "SCENE" /\ seen.of.blind = {} /\ MaxRange(Observe(seen.of)) > 0 =>
        /\ \A b \in StandsOut(seen.of) :
              LET body == BodyAt(StandsOut(seen.of), b)
              IN  Cardinality(body) >= MinimumBeams =>
                      \E d \in finding.detections : body \subseteq d
        /\ \A d, e \in finding.detections :
              d # e => \A b \in d, c \in e : Apart(b, c) > MaximumGap + 1

(* A point is in sight exactly when no wall has a point strictly between   *)
(* the two: with the ends of walls, walls along the sight, and walls that  *)
(* only touch an end of it.  The parts of the sight are so many that a     *)
(* wall which meets it does so at one of them.                             *)
LineOfSightIsExact ==
    seen.kind = "SIGHT" =>
        LET from == seen.of.from
            to == seen.of.to
            OnWall(k, n, wall) ==
                LET p == <<n * from[1] + k * (to[1] - from[1]), n * from[2] + k * (to[2] - from[2])>>
                    a == <<n * wall[1][1], n * wall[1][2]>>
                    b == <<n * wall[2][1], n * wall[2][2]>>
                IN  /\ Cross(Minus(b, a), Minus(p, a)) = 0
                    /\ \A i \in 1..2 : /\ Lesser(a[i], b[i]) <= p[i]
                                       /\ p[i] <= Greater(a[i], b[i])
            Parts(wall) ==
                LET turn == Cross(Minus(to, from), Minus(wall[2], wall[1]))
                IN  IF turn = 0 THEN 2 * SquaredDistance(from, to) ELSE Greater(turn, -turn)
        IN  finding.clear <=>
                \/ from = to
                \/ \A wall \in seen.of.walls :
                      \A k \in 1..(Parts(wall) - 1) : ~OnWall(k, Parts(wall), wall)

(* A rival that stands out is found, once, and what is hidden by a wall is *)
(* known to be.                                                            *)
PerceptionIsExact == BodiesStandApart /\ LineOfSightIsExact
=============================================================================
