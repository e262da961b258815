---------------------------- MODULE SweptContact ----------------------------
(***************************************************************************)
(* Did the bodies touch during a step?  The benchmark of                   *)
(* sim/kinematic/benchmark.py asks this of a robot and a wall and of two   *)
(* robots, and the referee of match.py of two robots, from where they were *)
(* before the step and where they are after it.                            *)
(*                                                                         *)
(* Positions are points with integer coordinates and distances compared by *)
(* their squares.  Robots move on straight lines, where the sagitta of the *)
(* code is 0; tolerances are 0; both robots have the same radius.          *)
(***************************************************************************)
EXTENDS Plane

CONSTANTS
    Radius,     \* of a robot: robot_radius_m
    PoseError,  \* position_error_bound_m
    WallMoves,  \* steps of one robot beside a wall, see WallMoveType
    PairMoves   \* steps of two robots, see PairMoveType

WallMoveType == [from : Point, to : Point, wall : Point \X Point]
PairMoveType == [g0 : Point, g1 : Point, e0 : Point, e1 : Point]

ASSUME ContactAssumption ==
    /\ Radius \in Nat \ {0} /\ PoseError \in Nat
    /\ WallMoves \subseteq WallMoveType
    /\ \A m \in WallMoves : m.wall[1] # m.wall[2]
    /\ PairMoves \subseteq PairMoveType

VARIABLES
    move,       \* what is judged
    touched     \* what is said of it

contactVars == <<move, touched>>

NoMove == [kind |-> "NONE"]

-----------------------------------------------------------------------------
(* A square of a distance is a numerator and a positive denominator.       *)
NearerOf(f, g) == IF f[1] * g[2] <= g[1] * f[2] THEN f ELSE g
NoFurther(f, bound) == f[1] <= bound * bound * f[2]

(* _point_segment_distance                                                 *)
PointSegment(p, a, b) ==
    LET along == Dot(Minus(p, a), Minus(b, a))
        length == SquaredDistance(a, b)
        off == Cross(Minus(p, a), Minus(b, a))
    IN  IF along <= 0 THEN <<SquaredDistance(p, a), 1>>
        ELSE IF along >= length THEN <<SquaredDistance(p, b), 1>>
        ELSE <<off * off, length>>

(* _segments_intersect                                                     *)
Side(a, b, c) == Cross(Minus(b, a), Minus(c, a))

On(a, p, b) ==
    /\ Side(a, b, p) = 0
    /\ \A i \in 1..2 : Lesser(a[i], b[i]) <= p[i] /\ p[i] <= Greater(a[i], b[i])

Intersect(a, b, c, d) ==
    \/ On(a, c, b) \/ On(a, d, b) \/ On(c, a, d) \/ On(c, b, d)
    \/ /\ (Side(a, b, c) < 0) # (Side(a, b, d) < 0)
       /\ (Side(c, d, a) < 0) # (Side(c, d, b) < 0)

(* _segment_distance                                                       *)
SegmentDistance(a, b, c, d) ==
    IF Intersect(a, b, c, d) THEN <<0, 1>>
    ELSE NearerOf(NearerOf(PointSegment(a, c, d), PointSegment(b, c, d)),
               NearerOf(PointSegment(c, a, b), PointSegment(d, a, b)))

(* _swept_wall_contact, for one wall.                                      *)
WallContact(m) ==
    NoFurther(SegmentDistance(m.from, m.to, m.wall[1], m.wall[2]), Radius + PoseError)

(* Where the explorer is for the guardian, before and after the step.      *)
RelativeStart(m) == Minus(m.e0, m.g0)
RelativeEnd(m) == Minus(m.e1, m.g1)

(* _swept_robot_contact: how near the origin the relative motion comes.    *)
NearestAtEnd(m) ==
    NearerOf(<<SquaredDistance(m.e0, m.g0), 1>>, <<SquaredDistance(m.e1, m.g1), 1>>)
NearestApproach(m) == PointSegment(<<0, 0>>, RelativeStart(m), RelativeEnd(m))

RobotContact(m) == NoFurther(NearestApproach(m), 2 * Radius)

(* _TruthReferee.evaluate: the same from the fraction of the step at which *)
(* the robots are closest.                                                 *)
RefereeCollision(m) ==
    LET delta == Minus(RelativeEnd(m), RelativeStart(m))
        whole == Greater(1, Dot(delta, delta))
        part == Greater(0, Lesser(whole, -Dot(RelativeStart(m), delta)))
        closest == <<whole * RelativeStart(m)[1] + part * delta[1],
                     whole * RelativeStart(m)[2] + part * delta[2]>>
    IN  NoFurther(<<Dot(closest, closest), whole * whole>>, 2 * Radius)

JudgeWall(m) ==
    /\ move' = [kind |-> "WALL", of |-> m]
    /\ touched' = [wall |-> WallContact(m)]

JudgeRobots(m) ==
    /\ move' = [kind |-> "ROBOTS", of |-> m]
    /\ touched' = [benchmark |-> RobotContact(m), referee |-> RefereeCollision(m)]

ContactInit == move = NoMove /\ touched = [wall |-> FALSE]

ContactNext ==
    /\ move = NoMove
    /\ \/ \E m \in WallMoves : JudgeWall(m)
       \/ \E m \in PairMoves : JudgeRobots(m)

ContactSpec == ContactInit /\ [][ContactNext]_contactVars

-----------------------------------------------------------------------------
(* The position after k of n parts of the way, times n.                    *)
Way(p, q, k, n) == <<n * p[1] + k * (q[1] - p[1]), n * p[2] + k * (q[2] - p[2])>>
Times(n, p) == <<n * p[1], n * p[2]>>

(* A robot is found to touch a wall exactly when at some instant of its    *)
(* step some point of the wall is within its radius and the error of its   *)
(* pose.  Two lines are closest at an end of one and its foot on the       *)
(* other, which divides that into parts of its squared length, or where    *)
(* they cross, which divides both into parts of Turn.                      *)
WallContactIsExact ==
    move.kind = "WALL" =>
        LET m == move.of
            Turn == Cross(Minus(m.to, m.from), Minus(m.wall[2], m.wall[1]))
            Near(n, l) ==
                \E k \in 0..n, j \in 0..l :
                    SquaredDistance(Times(l, Way(m.from, m.to, k, n)),
                                    Times(n, Way(m.wall[1], m.wall[2], j, l)))
                        <= n * l * (Radius + PoseError) * n * l * (Radius + PoseError)
        IN  touched.wall <=>
                \/ Near(Greater(1, SquaredDistance(m.from, m.to)),
                        SquaredDistance(m.wall[1], m.wall[2]))
                \/ Turn # 0 /\ Near(Greater(Turn, -Turn), Greater(Turn, -Turn))

(* Two robots are found to touch exactly when at some instant of the step  *)
(* their centres are within two radii, by the benchmark and by the         *)
(* referee, although they reckon in different ways.                        *)
RobotContactIsExact ==
    move.kind = "ROBOTS" =>
        LET m == move.of
            n == Greater(1, SquaredDistance(RelativeStart(m), RelativeEnd(m)))
            bound == n * 2 * Radius
            Touch == \E k \in 0..n :
                        SquaredDistance(Way(m.g0, m.g1, k, n), Way(m.e0, m.e1, k, n))
                            <= bound * bound
        IN  touched.benchmark = Touch /\ touched.referee = Touch

(* No contact within a step is missed, and none is made up.                *)
ContactIsExact == WallContactIsExact /\ RobotContactIsExact
=============================================================================
