---------------------------- MODULE RulesGeometry ----------------------------
(***************************************************************************)
(* The geometry of the rules: hsl_core/rules.py.  When does a robot touch  *)
(* a contour for the first time, does the guardian see the explorer, and   *)
(* is there a capture while both move.                                     *)
(*                                                                         *)
(* Points are pairs of integers, a robot moves on a straight line between  *)
(* two of them and keeps its heading, and a fraction of the way is a pair  *)
(* of numerator and denominator.  The tolerances of the code, which make   *)
(* up for rounding, are zero.  Left out: circles that hide the explorer    *)
(* and a footprint of positive radius.                                     *)
(***************************************************************************)
EXTENDS Plane, Sequences, FiniteSets, SequencesExt

CONSTANTS
    Reach,      \* max_distance_m
    Depth,      \* max_depth: halvings of a step
    Duels,      \* steps of two robots beside a wall, see DuelType
    Arrivals,   \* moves towards a contour, see ArrivalType
    Parts       \* of a way, for the reference of arrival

TwoTo[n \in Nat] == IF n = 0 THEN 1 ELSE 2 * TwoTo[n - 1]

(* Positions are multiples of 2^(Depth + 1), so that every instant the     *)
(* search looks at has integer positions.                                  *)
Instants == TwoTo[Depth + 1]
DuelType ==
    [g0 : Point, g1 : Point, e0 : Point, e1 : Point, heading : Point, wall : Point \X Point]
ArrivalType == [from : Point, to : Point, contour : Seq(Point)]

ASSUME GeometryAssumption ==
    /\ Reach \in Nat \ {0} /\ Depth \in Nat /\ Parts \in Nat \ {0}
    /\ Duels \subseteq DuelType
    /\ Arrivals \subseteq ArrivalType
    /\ \A d \in Duels : \A i \in 1..2 :
          \A p \in {d.g0, d.g1, d.e0, d.e1} : p[i] % Instants = 0

VARIABLES
    scene,   \* what is judged
    ruling   \* what the rules say of it

geometryVars == <<scene, ruling>>

NoScene == [kind |-> "NONE"]

-----------------------------------------------------------------------------
(* Segments.                                                               *)

(* _orientation                                                            *)
Orientation(a, b, c) == Cross(Minus(b, a), Minus(c, a))

(* _on_segment: inside the box of a and b.                                 *)
OnSegment(a, b, p) ==
    \A i \in 1..2 : Lesser(a[i], b[i]) <= p[i] /\ p[i] <= Greater(a[i], b[i])

OneSide(s, t) == (s > 0 /\ t > 0) \/ (s < 0 /\ t < 0)

Collinear(a, b, c, d) ==
    /\ Orientation(a, b, c) = 0 /\ Orientation(a, b, d) = 0
    /\ Orientation(c, d, a) = 0 /\ Orientation(c, d, b) = 0

(* segment_intersection is not None.                                       *)
Contact(a, b, c, d) ==
    IF Collinear(a, b, c, d)
    THEN \E p \in {a, b, c, d} : OnSegment(a, b, p) /\ OnSegment(c, d, p)
    ELSE /\ ~OneSide(Orientation(a, b, c), Orientation(a, b, d))
         /\ ~OneSide(Orientation(c, d, a), Orientation(c, d, b))

(* The contact of collinear segments: the first of the four ends that lies *)
(* on both.                                                                *)
CommonEnd(a, b, c, d) ==
    LET Common(p) == OnSegment(a, b, p) /\ OnSegment(c, d, p)
    IN  CASE Common(a) -> a
          [] ~Common(a) /\ Common(b) -> b
          [] ~Common(a) /\ ~Common(b) /\ Common(c) -> c
          [] OTHER -> d

(* Where on the way from a to b the contact returned is, as a fraction.    *)
ContactFraction(a, b, c, d) ==
    IF Collinear(a, b, c, d)
    THEN IF a = b THEN <<0, 1>>
         ELSE <<Dot(Minus(CommonEnd(a, b, c, d), a), Minus(b, a)),
                Dot(Minus(b, a), Minus(b, a))>>
    ELSE LET den == Cross(Minus(b, a), Minus(d, c))
             num == Cross(Minus(c, a), Minus(d, c))
         IN  IF den > 0 THEN <<num, den>> ELSE <<-num, -den>>

Earlier(f, g) == f[1] * g[2] < g[1] * f[2]

-----------------------------------------------------------------------------
(* Arrival.                                                                *)

Edge(contour, i) == <<contour[i], contour[1 + (i % Len(contour))]>>

Touched(from, to, contour) ==
    {i \in 1..Len(contour) : Contact(from, to, Edge(contour, i)[1], Edge(contour, i)[2])}

(* validate_polygon: a simple polygon, run through counterclockwise.       *)
DoubledArea(contour) ==
    LET area[n \in 0..Len(contour)] ==
            IF n = 0 THEN 0
            ELSE area[n - 1] + Cross(Edge(contour, n)[1], Edge(contour, n)[2])
    IN  area[Len(contour)]

Follows(contour, i, j) == j = 1 + (i % Len(contour))

ValidContour(contour) ==
    /\ Len(contour) >= 3
    /\ IsInjective(contour)
    /\ DoubledArea(contour) > 0
    /\ \A i, j \in 1..Len(contour) :
          i = j \/ Follows(contour, i, j) \/ Follows(contour, j, i)
          \/ ~Contact(Edge(contour, i)[1], Edge(contour, i)[2],
                      Edge(contour, j)[1], Edge(contour, j)[2])

At(from, to, contour, i) ==
    ContactFraction(from, to, Edge(contour, i)[1], Edge(contour, i)[2])

(* first_contour_arrival: the first edge in the order of the contour.      *)
ContourArrival(from, to, contour) ==
    LET i == CHOOSE j \in Touched(from, to, contour) :
                 \A k \in Touched(from, to, contour) : j <= k
    IN  At(from, to, contour, i)

(* first_footprint_arrival with radius 0: the edge that is touched first.  *)
FootprintArrival(from, to, contour) ==
    LET i == CHOOSE j \in Touched(from, to, contour) :
                 \A k \in Touched(from, to, contour) :
                     ~Earlier(At(from, to, contour, k), At(from, to, contour, j))
    IN  At(from, to, contour, i)

Never == <<-1, 1>>

-----------------------------------------------------------------------------
(* Convex hulls: _convex_hull, Andrew's monotone chain.                    *)

LeftBelow(p, q) == p[1] < q[1] \/ (p[1] = q[1] /\ p[2] < q[2])

Sorted(points) ==
    [i \in 1..Cardinality(points) |->
        CHOOSE p \in points : Cardinality({q \in points : LeftBelow(q, p)}) = i - 1]

(* The chain without the points that the next one, p, makes superfluous:   *)
(* from its end to the first left turn.                                    *)
Popped(chain, p) ==
    LET Stays(k) == k < 2 \/ Orientation(chain[k - 1], chain[k], p) > 0
    IN  SubSeq(chain, 1, CHOOSE k \in 0..Len(chain) :
                             Stays(k) /\ \A j \in (k + 1)..Len(chain) : ~Stays(j))

Chain(points) ==
    LET chain[n \in 0..Len(points)] ==
            IF n = 0 THEN <<>>
            ELSE Append(Popped(chain[n - 1], points[n]), points[n])
    IN  chain[Len(points)]

ConvexHull(points) ==
    LET sorted == Sorted(points)
    IN  IF Len(sorted) = 1 THEN sorted
        ELSE Front(Chain(sorted)) \o Front(Chain(Reverse(sorted)))

(* _point_in_polygon: how often a ray to the right crosses the boundary.   *)
Crosses(p, a, b) ==
    /\ (a[2] > p[2]) # (b[2] > p[2])
    /\ LET side == (p[1] - a[1]) * (b[2] - a[2]) - (p[2] - a[2]) * (b[1] - a[1])
       IN  IF b[2] > a[2] THEN side < 0 ELSE side > 0

InPolygon(p, polygon) ==
    Cardinality({i \in 1..Len(polygon) :
        Crosses(p, Edge(polygon, i)[1], Edge(polygon, i)[2])}) % 2 = 1

(* A contour is checked, and a robot on it or in it cannot arrive: the     *)
(* code raises.                                                            *)
JudgeArrival(a) ==
    /\ ValidContour(a.contour)
    /\ Touched(a.from, a.from, a.contour) = {} /\ ~InPolygon(a.from, a.contour)
    /\ scene' = [kind |-> "ARRIVAL", of |-> a]
    /\ ruling' = [arrival |-> IF Touched(a.from, a.to, a.contour) = {} THEN Never
                              ELSE FootprintArrival(a.from, a.to, a.contour)]

(* _segment_intersects_convex_envelope                                     *)
MeetsEnvelope(wall, points) ==
    LET hull == ConvexHull(points)
    IN  \/ Len(hull) >= 3 /\ (InPolygon(wall[1], hull) \/ InPolygon(wall[2], hull))
        \/ \E i \in 1..Len(hull) :
              Contact(wall[1], wall[2], Edge(hull, i)[1], Edge(hull, i)[2])

-----------------------------------------------------------------------------
(* Capture.                                                                *)

(* The position after k of n parts of the way.                             *)
Interpolate(p, q, k, n) ==
    <<p[1] + ((q[1] - p[1]) * k) \div n, p[2] + ((q[2] - p[2]) * k) \div n>>

GuardianAt(d, k) == Interpolate(d.g0, d.g1, k, Instants)
ExplorerAt(d, k) == Interpolate(d.e0, d.e1, k, Instants)

Sees(d, k) == ~Contact(GuardianAt(d, k), ExplorerAt(d, k), d.wall[1], d.wall[2])

(* capture_predicate, for a bearing of 45 degrees.                         *)
Captured(d, k) ==
    LET to == Minus(ExplorerAt(d, k), GuardianAt(d, k))
    IN  /\ to # <<0, 0>>
        /\ Dot(to, to) < Reach * Reach
        /\ Dot(to, d.heading) >= Cross(to, d.heading)
        /\ Dot(to, d.heading) >= -Cross(to, d.heading)
        /\ Sees(d, k)

(* The intervals of the search, in numbers of instants.                    *)
Intervals ==
    UNION {{<<i * TwoTo[Depth + 1 - n], (i + 1) * TwoTo[Depth + 1 - n]>> :
            i \in 0..(TwoTo[n] - 1)} : n \in 0..Depth}

Corners(d, interval) ==
    {GuardianAt(d, interval[1]), GuardianAt(d, interval[2]),
     ExplorerAt(d, interval[1]), ExplorerAt(d, interval[2])}

(* certified, as to the line of sight: no instant needs a look of its own. *)
SightCertified(d, interval) == ~MeetsEnvelope(d.wall, Corners(d, interval))

(* search: an interval is worth a look when the robots come close enough.  *)
(* One instant is enough; that distance and bearing are bounded in all of  *)
(* a certified interval makes its middle a capture, so certificates do not *)
(* add to the answer.                                                      *)
ComesClose(d, interval) ==
    LET r == Minus(ExplorerAt(d, interval[1]), GuardianAt(d, interval[1]))
        v == Minus(Minus(ExplorerAt(d, interval[2]), GuardianAt(d, interval[2])), r)
        along == -Dot(r, v)
        length == Dot(v, v)
    IN  CASE along <= 0 -> Dot(r, r) < Reach * Reach
          [] along > 0 /\ along >= length ->
                LET w == <<r[1] + v[1], r[2] + v[2]>> IN Dot(w, w) < Reach * Reach
          [] OTHER -> Cross(r, v) * Cross(r, v) < Reach * Reach * length

Looked(interval) ==
    {interval[1], (interval[1] + interval[2]) \div 2, interval[2]}

CaptureFound(d) ==
    \E interval \in Intervals :
        /\ ComesClose(d, interval)
        /\ \E k \in Looked(interval) : Captured(d, k)

JudgeCapture(d) ==
    /\ scene' = [kind |-> "DUEL", of |-> d]
    /\ ruling' = [capture |-> CaptureFound(d),
                  certified |-> {i \in Intervals : SightCertified(d, i)}]

GeometryInit == scene = NoScene /\ ruling = [arrival |-> Never]

GeometryNext ==
    /\ scene = NoScene
    /\ \/ \E a \in Arrivals : JudgeArrival(a)
       \/ \E d \in Duels : JudgeCapture(d)

GeometrySpec == GeometryInit /\ [][GeometryNext]_geometryVars

-----------------------------------------------------------------------------
(* A line of sight that is certified for an interval is free at every      *)
(* instant of it: hull, containment and contact, each with its degenerate  *)
(* cases, add up to an envelope that no wall can hide in.  The search      *)
(* misses no instant it could look at: leaving out intervals in which the  *)
(* robots do not come close loses no capture.                              *)
SightIsSound ==
    scene.kind = "DUEL" =>
        /\ \A i \in ruling.certified : \A k \in i[1]..i[2] : Sees(scene.of, k)
        /\ ruling.capture <=> \E k \in 0..Instants : Captured(scene.of, k)

(* The arrival that is reported is the first: it is on the contour, and    *)
(* the way up to it is clear of the contour.  Reference is the way in      *)
(* equal parts.                                                            *)
OnContour(p, n, contour) ==
    \E i \in 1..Len(contour) :
        LET a == <<n * Edge(contour, i)[1][1], n * Edge(contour, i)[1][2]>>
            b == <<n * Edge(contour, i)[2][1], n * Edge(contour, i)[2][2]>>
        IN  Orientation(a, b, p) = 0 /\ OnSegment(a, b, p)

(* The contour is met after k of n parts of the way.                       *)
Met(a, k, n) ==
    OnContour(<<n * a.from[1] + k * (a.to[1] - a.from[1]),
                n * a.from[2] + k * (a.to[2] - a.from[2])>>, n, a.contour)

ArrivalIsFirst ==
    scene.kind = "ARRIVAL" =>
        LET arrival == ruling.arrival
        IN  /\ arrival # Never => /\ 0 <= arrival[1] /\ arrival[1] <= arrival[2]
                                  /\ Met(scene.of, arrival[1], arrival[2])
            /\ \A k \in 0..Parts : Met(scene.of, k, Parts) =>
                  arrival # Never /\ ~Earlier(<<k, Parts>>, arrival)

(* Evidence of a capture or of an arrival is what the geometry says it is. *)
RulingIsSound == SightIsSound /\ ArrivalIsFirst
=============================================================================
