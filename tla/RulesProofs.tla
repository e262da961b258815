---------------------------- MODULE RulesProofs ----------------------------
(***************************************************************************)
(* Theorems about RulesGeometry, for all duels and moves, every reach,     *)
(* every depth of the search and every contour validate_polygon accepts.   *)
(*                                                                         *)
(* Sight.  A segment from a point to a point of two others stays in the    *)
(* hull of the four ends.  The chain of at most four sorted points, taken  *)
(* both ways, is such a hull: a point, a segment, a triangle or a          *)
(* quadrangle that turns left and has all points on its left (Around).  A  *)
(* wall that meets neither the edges nor has an end inside, by the count   *)
(* of crossings, is off the hull, and off every line of sight of the       *)
(* interval.  The search looks at every instant, and an interval that is   *)
(* left out is too far apart at each of its ends and in its middle.        *)
(*                                                                         *)
(* Arrival.  A contact with an edge is where the lines cross or, on one    *)
(* line, an end of the edge.  At the corner a way along an edge meets      *)
(* first, one of the two edges leaves the line: else a neighbour of the    *)
(* corner would lie on the edge to the other one, and the contour would    *)
(* not be simple.  So nothing of the contour is met before an edge is      *)
(* touched, and the first of the edges touched is the arrival.             *)
(***************************************************************************)
EXTENDS RulesGeometry, FiniteSetTheorems, WellFoundedInduction, TLAPS

LEMMA LeastNumber ==
    ASSUME NEW T \in SUBSET Nat, T # {}
    PROVE  \E x \in T : \A y \in T : x <= y
<1>1. PICK x \in T : \A y \in T : ~(<<y, x>> \in OpToRel(<, Nat))
  BY NatLessThanWellFounded, WFMin
<1>2. \A y \in T : ~(y < x)
  BY <1>1 DEF OpToRel
<1>3. \A y \in T : y \in Nat
  OBVIOUS
<1> QED
  BY <1>2, <1>3

-----------------------------------------------------------------------------
(* Turns.                                                                  *)

LEMMA TurnIs ==
    \A a, b, c \in Point :
        /\ Orientation(a, b, c) \in Int
        /\ Orientation(a, b, c) =
              (b[1] - a[1]) * (c[2] - a[2]) - (b[2] - a[2]) * (c[1] - a[1])
  BY DEF Orientation, Cross, Minus, Point

LEMMA TurnsAgree ==
    \A a, b, c \in Point :
        /\ Orientation(b, c, a) = Orientation(a, b, c)
        /\ Orientation(c, a, b) = Orientation(a, b, c)
        /\ Orientation(b, a, c) = -Orientation(a, b, c)
        /\ Orientation(c, b, a) = -Orientation(a, b, c)
        /\ Orientation(a, c, b) = -Orientation(a, b, c)
  BY DEF Orientation, Cross, Minus, Point

LEMMA NoTurn ==
    \A a, b \in Point :
        Orientation(a, a, b) = 0 /\ Orientation(a, b, b) = 0 /\ Orientation(a, b, a) = 0
  BY DEF Orientation, Cross, Minus, Point

(* The turns among four points.                                            *)
LEMMA FourTurns ==
    \A a, b, c, d \in Point :
        Orientation(a, b, c) + Orientation(a, c, d) = Orientation(a, b, d) + Orientation(b, c, d)
  BY DEF Orientation, Cross, Minus, Point

(* The side of a line is an affine function, and so four points tell its   *)
(* values apart by their turns.                                            *)
Balance(f, g, h, k, a, b, c, d) ==
    Orientation(b, c, d) * f + Orientation(a, b, d) * h
        = Orientation(a, c, d) * g + Orientation(a, b, c) * k

Weighs(o1, o2, o3, o4, f, g, h, k) == o1 * f + o3 * h = o2 * g + o4 * k

LEMMA CombinationsAgree ==
    ASSUME NEW o1 \in Int, NEW o2 \in Int, NEW o3 \in Int, NEW o4 \in Int,
           NEW x \in Int, NEW a \in Int, NEW b \in Int, NEW c \in Int, NEW d \in Int,
           Weighs(o1, o2, o3, o4, a, b, c, d)
    PROVE  Weighs(o1, o2, o3, o4, x * a, x * b, x * c, x * d)
<1>1. x * (o1 * a + o3 * c) = x * (o2 * b + o4 * d)
  BY DEF Weighs
<1> QED
  BY <1>1 DEF Weighs

LEMMA SidesBalance ==
    ASSUME NEW u \in Point, NEW v \in Point,
           NEW a \in Point, NEW b \in Point, NEW c \in Point, NEW d \in Point
    PROVE  Balance(Orientation(u, v, a), Orientation(u, v, b), Orientation(u, v, c),
                   Orientation(u, v, d), a, b, c, d)
<1>1. PICK x : x = v[1] - u[1] OBVIOUS
<1>2. PICK y : y = v[2] - u[2] OBVIOUS
<1>3. PICK z : z = y * u[1] - x * u[2] OBVIOUS
<1>4. x \in Int /\ y \in Int /\ z \in Int
  BY <1>1, <1>2, <1>3 DEF Point
<1>5. \A p \in Point : Orientation(u, v, p) = x * p[2] - y * p[1] + z
  BY <1>1, <1>2, <1>3, TurnIs DEF Point
<1>6. \A p, q, r, s \in Point :
         Orientation(q, r, s) * p[1] + Orientation(p, q, s) * r[1]
             = Orientation(p, r, s) * q[1] + Orientation(p, q, r) * s[1]
  BY DEF Orientation, Cross, Minus, Point
<1>7. \A p, q, r, s \in Point :
         Orientation(q, r, s) * p[2] + Orientation(p, q, s) * r[2]
             = Orientation(p, r, s) * q[2] + Orientation(p, q, r) * s[2]
  BY DEF Orientation, Cross, Minus, Point
<1>8. PICK o1 : o1 = Orientation(b, c, d) OBVIOUS
<1>9. PICK o2 : o2 = Orientation(a, c, d) OBVIOUS
<1>10. PICK o3 : o3 = Orientation(a, b, d) OBVIOUS
<1>11. PICK o4 : o4 = Orientation(a, b, c) OBVIOUS
<1>12. o1 \in Int /\ o2 \in Int /\ o3 \in Int /\ o4 \in Int
  BY <1>8, <1>9, <1>10, <1>11, TurnIs
<1>13. o4 + o2 = o3 + o1
  BY FourTurns, <1>8, <1>9, <1>10, <1>11
<1>14. o1 * a[1] + o3 * c[1] = o2 * b[1] + o4 * d[1]
  BY <1>6, <1>8, <1>9, <1>10, <1>11
<1>15. o1 * a[2] + o3 * c[2] = o2 * b[2] + o4 * d[2]
  BY <1>7, <1>8, <1>9, <1>10, <1>11
<1>16. /\ o1 * (x * a[2]) + o3 * (x * c[2]) = o2 * (x * b[2]) + o4 * (x * d[2])
       /\ o1 * (y * a[1]) + o3 * (y * c[1]) = o2 * (y * b[1]) + o4 * (y * d[1])
  <2>1. /\ a[1] \in Int /\ b[1] \in Int /\ c[1] \in Int /\ d[1] \in Int
        /\ a[2] \in Int /\ b[2] \in Int /\ c[2] \in Int /\ d[2] \in Int
    BY DEF Point
  <2>2. /\ Weighs(o1, o2, o3, o4, a[1], b[1], c[1], d[1])
        /\ Weighs(o1, o2, o3, o4, a[2], b[2], c[2], d[2])
    BY <1>14, <1>15 DEF Weighs
  <2>3. /\ Weighs(o1, o2, o3, o4, y * a[1], y * b[1], y * c[1], y * d[1])
        /\ Weighs(o1, o2, o3, o4, x * a[2], x * b[2], x * c[2], x * d[2])
    BY <2>1, <2>2, <1>4, <1>12, CombinationsAgree
  <2> QED
    BY <2>3 DEF Weighs
<1>17. PICK f : f = x * a[2] - y * a[1] OBVIOUS
<1>18. PICK g : g = x * b[2] - y * b[1] OBVIOUS
<1>19. PICK h : h = x * c[2] - y * c[1] OBVIOUS
<1>20. PICK k : k = x * d[2] - y * d[1] OBVIOUS
<1>21. f \in Int /\ g \in Int /\ h \in Int /\ k \in Int
  BY <1>4, <1>17, <1>18, <1>19, <1>20 DEF Point
<1>22. /\ o1 * f = o1 * (x * a[2]) - o1 * (y * a[1])
       /\ o3 * h = o3 * (x * c[2]) - o3 * (y * c[1])
       /\ o2 * g = o2 * (x * b[2]) - o2 * (y * b[1])
       /\ o4 * k = o4 * (x * d[2]) - o4 * (y * d[1])
  BY <1>4, <1>12, <1>17, <1>18, <1>19, <1>20 DEF Point
<1>24. o1 * f + o3 * h = o2 * g + o4 * k
  <2>1. /\ o1 * (x * a[2]) \in Int /\ o3 * (x * c[2]) \in Int /\ o2 * (x * b[2]) \in Int
        /\ o4 * (x * d[2]) \in Int /\ o1 * (y * a[1]) \in Int /\ o3 * (y * c[1]) \in Int
        /\ o2 * (y * b[1]) \in Int /\ o4 * (y * d[1]) \in Int
    BY <1>4, <1>12 DEF Point
  <2> QED
    BY <1>16, <1>22, <2>1
<1>25. o1 * (f + z) + o3 * (h + z) = o2 * (g + z) + o4 * (k + z)
  <2>1. o1 * (f + z) = o1 * f + o1 * z /\ o3 * (h + z) = o3 * h + o3 * z
    BY <1>4, <1>12, <1>21
  <2>2. o2 * (g + z) = o2 * g + o2 * z /\ o4 * (k + z) = o4 * k + o4 * z
    BY <1>4, <1>12, <1>21
  <2>3. o1 * z + o3 * z = o2 * z + o4 * z
    <3>1. (o1 + o3) * z = (o2 + o4) * z
      BY <1>13, <1>12
    <3> QED
      BY <3>1, <1>4, <1>12
  <2> QED
    BY <1>24, <2>1, <2>2, <2>3, <1>4, <1>12, <1>21
<1> QED
  BY <1>25, <1>5, <1>8, <1>9, <1>10, <1>11, <1>17, <1>18, <1>19, <1>20 DEF Balance

-----------------------------------------------------------------------------
(* Points of a segment are mixtures of its ends.                           *)
Mixes(k, l, f, g, h) == (k + l) * f = k * g + l * h

LEMMA MixSigns ==
    ASSUME NEW k \in Nat, NEW l \in Nat, k + l > 0,
           NEW f \in Int, NEW g \in Int, NEW h \in Int, Mixes(k, l, f, g, h)
    PROVE  /\ g >= 0 /\ h >= 0 => f >= 0
           /\ g > 0 /\ h > 0 => f > 0
           /\ g <= 0 /\ h <= 0 => f <= 0
           /\ g < 0 /\ h < 0 => f < 0
<1>1. (k + l) * f = k * g + l * h
  BY DEF Mixes
<1>2. ASSUME NEW x \in Nat, NEW y \in Int
      PROVE  /\ y >= 0 => x * y >= 0
             /\ y <= 0 => x * y <= 0
             /\ x > 0 /\ y > 0 => x * y > 0
             /\ x > 0 /\ y < 0 => x * y < 0
  OBVIOUS
<1>3. k * g \in Int /\ l * h \in Int /\ (k + l) * f \in Int /\ k + l \in Nat
  OBVIOUS
<1>4. ASSUME g >= 0, h >= 0 PROVE f >= 0
  <2>1. k * g >= 0 /\ l * h >= 0
    BY <1>2, <1>4
  <2> QED
    BY <2>1, <1>1, <1>2, <1>3
<1>5. ASSUME g <= 0, h <= 0 PROVE f <= 0
  <2>1. k * g <= 0 /\ l * h <= 0
    BY <1>2, <1>5
  <2> QED
    BY <2>1, <1>1, <1>2, <1>3
<1>6. k > 0 \/ l > 0
  OBVIOUS
<1>7. ASSUME g > 0, h > 0 PROVE f > 0
  <2>1. k * g >= 0 /\ l * h >= 0 /\ (k * g > 0 \/ l * h > 0)
    BY <1>2, <1>6, <1>7
  <2>2. (k + l) * f > 0
    BY <2>1, <1>1, <1>3
  <2>3. ~(f <= 0)
    BY <2>2, <1>2, <1>3
  <2> QED
    BY <2>3
<1>8. ASSUME g < 0, h < 0 PROVE f < 0
  <2>1. k * g <= 0 /\ l * h <= 0 /\ (k * g < 0 \/ l * h < 0)
    BY <1>2, <1>6, <1>8
  <2>2. (k + l) * f < 0
    BY <2>1, <1>1, <1>3
  <2>3. ~(f >= 0)
    BY <2>2, <1>2, <1>3
  <2> QED
    BY <2>3
<1> QED
  BY <1>4, <1>5, <1>7, <1>8

(* Along a line one coordinate tells the place, and with it the side of    *)
(* every other line.                                                       *)
LEMMA SideAlong ==
    ASSUME NEW u \in Point, NEW v \in Point,
           NEW a \in Point, NEW b \in Point, NEW p \in Point,
           Orientation(a, b, p) = 0, NEW i \in 1..2
    PROVE  (b[i] - a[i]) * (Orientation(u, v, p) - Orientation(u, v, a))
              = (p[i] - a[i]) * (Orientation(u, v, b) - Orientation(u, v, a))
<1>1. PICK x : x = v[1] - u[1] OBVIOUS
<1>2. PICK y : y = v[2] - u[2] OBVIOUS
<1>3. x \in Int /\ y \in Int
  BY <1>1, <1>2 DEF Point
<1>4. \A q, r \in Point :
         Orientation(u, v, q) - Orientation(u, v, r) = x * (q[2] - r[2]) - y * (q[1] - r[1])
  <2>1. PICK z : z = y * u[1] - x * u[2] OBVIOUS
  <2>2. z \in Int
    BY <1>3, <2>1 DEF Point
  <2>3. \A q \in Point : Orientation(u, v, q) = x * q[2] - y * q[1] + z
    BY <1>1, <1>2, <2>1, TurnIs DEF Point
  <2>4. \A q, r \in Point : /\ x * (q[2] - r[2]) = x * q[2] - x * r[2]
                            /\ y * (q[1] - r[1]) = y * q[1] - y * r[1]
                            /\ x * q[2] \in Int /\ x * r[2] \in Int
                            /\ y * q[1] \in Int /\ y * r[1] \in Int
    BY <1>3 DEF Point
  <2> QED
    BY <2>2, <2>3, <2>4
<1>5. PICK s1 : s1 = p[1] - a[1] OBVIOUS
<1>6. PICK s2 : s2 = p[2] - a[2] OBVIOUS
<1>7. PICK t1 : t1 = b[1] - a[1] OBVIOUS
<1>8. PICK t2 : t2 = b[2] - a[2] OBVIOUS
<1>9. s1 \in Int /\ s2 \in Int /\ t1 \in Int /\ t2 \in Int
  BY <1>5, <1>6, <1>7, <1>8 DEF Point
<1>10. t1 * s2 = t2 * s1
  BY <1>5, <1>6, <1>7, <1>8, TurnIs, <1>9
<1>11. /\ Orientation(u, v, p) - Orientation(u, v, a) = x * s2 - y * s1
       /\ Orientation(u, v, b) - Orientation(u, v, a) = x * t2 - y * t1
  BY <1>4, <1>5, <1>6, <1>7, <1>8
<1>12. x * (t1 * s2) = x * (t2 * s1) /\ y * (t1 * s2) = y * (t2 * s1)
  BY <1>10
<1>13. /\ t1 * (x * s2 - y * s1) = s1 * (x * t2 - y * t1)
       /\ t2 * (x * s2 - y * s1) = s2 * (x * t2 - y * t1)
  BY <1>3, <1>9, <1>12
<1>14. i = 1 \/ i = 2
  OBVIOUS
<1> QED
  BY <1>13, <1>11, <1>14, <1>5, <1>6, <1>7, <1>8

LEMMA BetweenIs ==
    ASSUME NEW a \in Point, NEW b \in Point, NEW p \in Point,
           Orientation(a, b, p) = 0, NEW i \in 1..2, a[i] # b[i]
    PROVE  OnSegment(a, b, p) <=> \/ a[i] <= p[i] /\ p[i] <= b[i]
                                  \/ b[i] <= p[i] /\ p[i] <= a[i]
<1>1. /\ a[1] \in Int /\ a[2] \in Int /\ b[1] \in Int /\ b[2] \in Int
      /\ p[1] \in Int /\ p[2] \in Int
  BY DEF Point
<1>2. ASSUME NEW t \in Int, NEW s \in Int, NEW e \in Int, NEW d \in Int, d # 0,
             d * s = e * t, (0 <= t /\ t <= d) \/ (d <= t /\ t <= 0)
      PROVE  (0 <= s /\ s <= e) \/ (e <= s /\ s <= 0)
  <2>1. ASSUME NEW c \in Int, NEW w \in Int, c > 0, 0 <= w, w <= c, c * s = e * w
        PROVE  (0 <= s /\ s <= e) \/ (e <= s /\ s <= 0)
    <3>1. CASE e >= 0
      <4>1. 0 <= e * w /\ e * w <= e * c
        BY <2>1, <3>1
      <4>2. 0 <= c * s /\ c * s <= c * e
        BY <4>1, <2>1
      <4> QED
        BY <4>2, <2>1
    <3>2. CASE e < 0
      <4>1. 0 >= e * w /\ e * w >= e * c
        BY <2>1, <3>2
      <4>2. 0 >= c * s /\ c * s >= c * e
        BY <4>1, <2>1
      <4> QED
        BY <4>2, <2>1
    <3> QED
      BY <3>1, <3>2
  <2>2. CASE d > 0
    BY <2>1, <2>2, <1>2
  <2>3. CASE d < 0
    <3>1. (-d) * s = e * (-t)
      BY <1>2
    <3> QED
      BY <2>1, <2>3, <3>1, <1>2
  <2> QED
    BY <2>2, <2>3, <1>2
<1>3. /\ (b[1] - a[1]) * (p[2] - a[2]) = (b[2] - a[2]) * (p[1] - a[1])
      /\ (b[2] - a[2]) * (p[1] - a[1]) = (b[1] - a[1]) * (p[2] - a[2])
  <2>1. (b[1] - a[1]) * (p[2] - a[2]) - (b[2] - a[2]) * (p[1] - a[1]) = 0
    BY TurnIs
  <2>2. /\ (b[1] - a[1]) * (p[2] - a[2]) \in Int
        /\ (b[2] - a[2]) * (p[1] - a[1]) \in Int
    BY <1>1
  <2> QED
    BY <2>1, <2>2
<1>4. OnSegment(a, b, p) <=>
         /\ (a[1] <= p[1] /\ p[1] <= b[1]) \/ (b[1] <= p[1] /\ p[1] <= a[1])
         /\ (a[2] <= p[2] /\ p[2] <= b[2]) \/ (b[2] <= p[2] /\ p[2] <= a[2])
  BY <1>1 DEF OnSegment, Lesser, Greater
<1>5. CASE i = 1
  <2>1. ASSUME (a[1] <= p[1] /\ p[1] <= b[1]) \/ (b[1] <= p[1] /\ p[1] <= a[1])
        PROVE  (a[2] <= p[2] /\ p[2] <= b[2]) \/ (b[2] <= p[2] /\ p[2] <= a[2])
    <3>1. \/ 0 <= p[2] - a[2] /\ p[2] - a[2] <= b[2] - a[2]
          \/ b[2] - a[2] <= p[2] - a[2] /\ p[2] - a[2] <= 0
      <4>1. PICK t : t = p[1] - a[1] OBVIOUS
      <4>2. PICK s : s = p[2] - a[2] OBVIOUS
      <4>3. PICK e : e = b[2] - a[2] OBVIOUS
      <4>4. PICK d : d = b[1] - a[1] OBVIOUS
      <4>5. t \in Int /\ s \in Int /\ e \in Int /\ d \in Int /\ d # 0
        BY <1>1, <1>5, <4>1, <4>2, <4>3, <4>4
      <4>6. d * s = e * t
        BY <1>3, <4>1, <4>2, <4>3, <4>4
      <4>7. (0 <= t /\ t <= d) \/ (d <= t /\ t <= 0)
        BY <2>1, <1>1, <4>1, <4>4
      <4>8. (0 <= s /\ s <= e) \/ (e <= s /\ s <= 0)
        BY <1>2, <4>5, <4>6, <4>7
      <4> QED
        BY <4>8, <4>2, <4>3
    <3> QED
      BY <3>1, <1>1
  <2> QED
    BY <2>1, <1>4, <1>5
<1>6. CASE i = 2
  <2>1. ASSUME (a[2] <= p[2] /\ p[2] <= b[2]) \/ (b[2] <= p[2] /\ p[2] <= a[2])
        PROVE  (a[1] <= p[1] /\ p[1] <= b[1]) \/ (b[1] <= p[1] /\ p[1] <= a[1])
    <3>1. \/ 0 <= p[1] - a[1] /\ p[1] - a[1] <= b[1] - a[1]
          \/ b[1] - a[1] <= p[1] - a[1] /\ p[1] - a[1] <= 0
      <4>1. PICK t : t = p[2] - a[2] OBVIOUS
      <4>2. PICK s : s = p[1] - a[1] OBVIOUS
      <4>3. PICK e : e = b[1] - a[1] OBVIOUS
      <4>4. PICK d : d = b[2] - a[2] OBVIOUS
      <4>5. t \in Int /\ s \in Int /\ e \in Int /\ d \in Int /\ d # 0
        <5>1. a[2] # b[2]
          BY <1>6
        <5> QED
          BY <1>1, <5>1, <4>1, <4>2, <4>3, <4>4
      <4>6. d * s = e * t
        BY <1>3, <4>1, <4>2, <4>3, <4>4
      <4>7. (0 <= t /\ t <= d) \/ (d <= t /\ t <= 0)
        BY <2>1, <1>1, <4>1, <4>4
      <4>8. (0 <= s /\ s <= e) \/ (e <= s /\ s <= 0)
        BY <1>2, <4>5, <4>6, <4>7
      <4> QED
        BY <4>8, <4>2, <4>3
    <3> QED
      BY <3>1, <1>1
  <2> QED
    BY <2>1, <1>4, <1>6
<1> QED
  BY <1>5, <1>6

LEMMA SegmentMixes ==
    ASSUME NEW a \in Point, NEW b \in Point, NEW p \in Point,
           Orientation(a, b, p) = 0, OnSegment(a, b, p)
    PROVE  \E k, l \in Nat :
              /\ k + l > 0
              /\ \A u, v \in Point :
                    Mixes(k, l, Orientation(u, v, p), Orientation(u, v, a), Orientation(u, v, b))
<1>1. /\ a[1] \in Int /\ a[2] \in Int /\ b[1] \in Int /\ b[2] \in Int
      /\ p[1] \in Int /\ p[2] \in Int
  BY DEF Point
<1>2. CASE a = b
  <2>1. p = a
    <3>1. p[1] = a[1] /\ p[2] = a[2]
      BY <1>1, <1>2 DEF OnSegment, Lesser, Greater
    <3> QED
      BY <3>1 DEF Point
  <2>2. \A f \in Int : Mixes(1, 0, f, f, f)
    BY DEF Mixes
  <2>3. \A u, v \in Point :
           Mixes(1, 0, Orientation(u, v, p), Orientation(u, v, a), Orientation(u, v, b))
    BY <2>1, <2>2, <1>2, TurnIs
  <2>4. 1 \in Nat /\ 0 \in Nat /\ 1 + 0 > 0
    OBVIOUS
  <2> QED
    BY <2>3, <2>4
<1>3. CASE a # b
  <2>1. PICK i \in 1..2 : a[i] # b[i]
    <3>1. a[1] # b[1] \/ a[2] # b[2]
      BY <1>3 DEF Point
    <3> QED
      BY <3>1
  <2>2. a[i] \in Int /\ b[i] \in Int /\ p[i] \in Int
    BY DEF Point
  <2>3. (a[i] <= p[i] /\ p[i] <= b[i]) \/ (b[i] <= p[i] /\ p[i] <= a[i])
    BY <2>1, BetweenIs
  <2>4. \A u, v \in Point :
           (b[i] - a[i]) * (Orientation(u, v, p) - Orientation(u, v, a))
              = (p[i] - a[i]) * (Orientation(u, v, b) - Orientation(u, v, a))
    BY SideAlong
  <2>5. ASSUME NEW f \in Int, NEW g \in Int, NEW h \in Int,
               (b[i] - a[i]) * (f - g) = (p[i] - a[i]) * (h - g)
        PROVE  /\ Mixes(b[i] - p[i], p[i] - a[i], f, g, h)
               /\ Mixes(p[i] - b[i], a[i] - p[i], f, g, h)
    <3>1. PICK d : d = b[i] - a[i] OBVIOUS
    <3>2. PICK t : t = p[i] - a[i] OBVIOUS
    <3>3. d \in Int /\ t \in Int /\ b[i] - p[i] = d - t /\ p[i] - b[i] = t - d /\ a[i] - p[i] = -t
      BY <2>2, <3>1, <3>2
    <3>4. d * (f - g) = t * (h - g)
      BY <2>5, <3>1, <3>2
    <3>5. d * f - d * g = t * h - t * g
      BY <3>3, <3>4
    <3>6. ((d - t) + t) * f = (d - t) * g + t * h
      BY <3>3, <3>5
    <3>7. ((t - d) + (-t)) * f = (t - d) * g + (-t) * h
      BY <3>3, <3>5
    <3> QED
      BY <3>2, <3>3, <3>6, <3>7 DEF Mixes
  <2>6. \A u, v \in Point :
           /\ Mixes(b[i] - p[i], p[i] - a[i], Orientation(u, v, p), Orientation(u, v, a),
                    Orientation(u, v, b))
           /\ Mixes(p[i] - b[i], a[i] - p[i], Orientation(u, v, p), Orientation(u, v, a),
                    Orientation(u, v, b))
    BY <2>4, <2>5, TurnIs
  <2>7. CASE a[i] <= p[i] /\ p[i] <= b[i]
    <3>1. /\ b[i] - p[i] \in Nat /\ p[i] - a[i] \in Nat
          /\ (b[i] - p[i]) + (p[i] - a[i]) > 0
      <4>1. \A x, y, z \in Int : x # y /\ x <= z /\ z <= y =>
               y - z \in Nat /\ z - x \in Nat /\ (y - z) + (z - x) > 0
        OBVIOUS
      <4> QED
        BY <4>1, <2>1, <2>2, <2>7
    <3> QED
      BY <2>6, <3>1
  <2>8. CASE b[i] <= p[i] /\ p[i] <= a[i]
    <3>1. /\ p[i] - b[i] \in Nat /\ a[i] - p[i] \in Nat
          /\ (p[i] - b[i]) + (a[i] - p[i]) > 0
      <4>1. \A x, y, z \in Int : x # y /\ x <= z /\ z <= y =>
               z - x \in Nat /\ y - z \in Nat /\ (z - x) + (y - z) > 0
        OBVIOUS
      <4>2. \A x, y, z \in Int : x # y /\ y <= z /\ z <= x =>
               z - y \in Nat /\ x - z \in Nat /\ (z - y) + (x - z) > 0
        BY <4>1
      <4> QED
        BY <4>2, <2>1, <2>2, <2>8
    <3> QED
      BY <2>6, <3>1
  <2> QED
    BY <2>3, <2>7, <2>8
<1> QED
  BY <1>2, <1>3

-----------------------------------------------------------------------------
(* Contact.                                                                *)

LEMMA OppositeSides ==
    ASSUME NEW p \in Int, NEW q \in Int, NEW r \in Int, NEW s \in Int,
           NEW f \in Int, NEW g \in Int, NEW h \in Int, NEW k \in Int,
           s + q = r + p, p * f + r * h = q * g + s * k,
           f >= 0, g >= 0, h < 0, k < 0, ~OneSide(s, r), ~OneSide(q, p)
    PROVE  p = 0 /\ q = 0 /\ r = 0 /\ s = 0
<1>1. /\ p * f \in Int /\ r * h \in Int /\ q * g \in Int /\ s * k \in Int
  OBVIOUS
<1>2. \A x, y \in Int : /\ x >= 0 /\ y >= 0 => x * y >= 0
                        /\ x <= 0 /\ y >= 0 => x * y <= 0
                        /\ x > 0 /\ y < 0 => x * y < 0
                        /\ x < 0 /\ y < 0 => x * y > 0
                        /\ x = 0 => x * y = 0
  OBVIOUS
<1>3. CASE p >= q
  <2>1. p >= 0 /\ q <= 0 /\ s >= 0 /\ r <= 0
    BY <1>3 DEF OneSide
  <2>2. p * f >= 0 /\ q * g <= 0
    BY <2>1, <1>2
  <2>3. r * h >= 0 /\ s * k <= 0 /\ (r # 0 => r * h > 0) /\ (s # 0 => s * k < 0)
    BY <2>1, <1>2
  <2>4. r = 0 /\ s = 0
    BY <2>2, <2>3, <1>1
  <2> QED
    BY <2>4, <2>1
<1>4. CASE p < q
  <2>1. p <= 0 /\ q >= 0 /\ s <= 0 /\ r >= 0
    BY <1>4 DEF OneSide
  <2>2. p * f <= 0 /\ q * g >= 0
    BY <2>1, <1>2
  <2>3. r * h <= 0 /\ s * k >= 0 /\ (r # 0 => r * h < 0) /\ (s # 0 => s * k > 0)
    BY <2>1, <1>2
  <2>4. r = 0 /\ s = 0
    BY <2>2, <2>3, <1>1
  <2> QED
    BY <2>4, <2>1
<1> QED
  BY <1>3, <1>4

(* Segments on different sides of a line do not touch.                     *)
LEMMA Apart ==
    ASSUME NEW u \in Point, NEW v \in Point,
           NEW a \in Point, NEW b \in Point, NEW c \in Point, NEW d \in Point,
           Orientation(u, v, a) >= 0, Orientation(u, v, b) >= 0,
           Orientation(u, v, c) < 0, Orientation(u, v, d) < 0
    PROVE  ~Contact(a, b, c, d)
<1>1. SUFFICES ASSUME Contact(a, b, c, d) PROVE FALSE
  OBVIOUS
<1>2. Collinear(a, b, c, d)
  <2>1. SUFFICES ASSUME ~Collinear(a, b, c, d) PROVE FALSE
    OBVIOUS
  <2>2. /\ ~OneSide(Orientation(a, b, c), Orientation(a, b, d))
        /\ ~OneSide(Orientation(c, d, a), Orientation(c, d, b))
    BY <1>1, <2>1 DEF Contact
  <2>3. PICK p : p = Orientation(b, c, d) OBVIOUS
  <2>4. PICK q : q = Orientation(a, c, d) OBVIOUS
  <2>5. PICK r : r = Orientation(a, b, d) OBVIOUS
  <2>6. PICK s : s = Orientation(a, b, c) OBVIOUS
  <2>7. p \in Int /\ q \in Int /\ r \in Int /\ s \in Int
    BY <2>3, <2>4, <2>5, <2>6, TurnIs
  <2>8. s + q = r + p
    BY FourTurns, <2>3, <2>4, <2>5, <2>6
  <2>9. Orientation(c, d, a) = q /\ Orientation(c, d, b) = p
    BY TurnsAgree, <2>3, <2>4
  <2>10. ~OneSide(s, r) /\ ~OneSide(q, p)
    BY <2>2, <2>5, <2>6, <2>9
  <2>11. Balance(Orientation(u, v, a), Orientation(u, v, b), Orientation(u, v, c),
                 Orientation(u, v, d), a, b, c, d)
    BY SidesBalance
  <2>12. PICK f : f = Orientation(u, v, a) OBVIOUS
  <2>13. PICK g : g = Orientation(u, v, b) OBVIOUS
  <2>14. PICK h : h = Orientation(u, v, c) OBVIOUS
  <2>15. PICK k : k = Orientation(u, v, d) OBVIOUS
  <2>16. p * f + r * h = q * g + s * k
    BY <2>11, <2>12, <2>13, <2>14, <2>15, <2>3, <2>4, <2>5, <2>6 DEF Balance
  <2>17. f \in Int /\ g \in Int /\ h \in Int /\ k \in Int
    BY <2>12, <2>13, <2>14, <2>15, TurnIs
  <2>18. f >= 0 /\ g >= 0 /\ h < 0 /\ k < 0
    BY <2>12, <2>13, <2>14, <2>15
  <2>19. p = 0 /\ q = 0 /\ r = 0 /\ s = 0
    BY <2>7, <2>8, <2>10, <2>16, <2>17, <2>18, OppositeSides, ZenonT(60)
  <2> QED
    BY <2>19, <2>1, <2>9, <2>5, <2>6 DEF Collinear
<1>3. PICK p \in {a, b, c, d} : OnSegment(a, b, p) /\ OnSegment(c, d, p)
  BY <1>1, <1>2 DEF Contact
<1>4. p \in Point /\ Orientation(a, b, p) = 0 /\ Orientation(c, d, p) = 0
  BY <1>2, NoTurn DEF Collinear
<1>5. Orientation(u, v, p) >= 0
  <2>1. PICK k, l \in Nat : /\ k + l > 0
                            /\ \A x, y \in Point : Mixes(k, l, Orientation(x, y, p),
                                  Orientation(x, y, a), Orientation(x, y, b))
    BY <1>3, <1>4, SegmentMixes
  <2>2. Mixes(k, l, Orientation(u, v, p), Orientation(u, v, a), Orientation(u, v, b))
    BY <2>1
  <2> QED
    BY <2>1, <2>2, <1>4, MixSigns, TurnIs
<1>6. Orientation(u, v, p) < 0
  <2>1. PICK k, l \in Nat : /\ k + l > 0
                            /\ \A x, y \in Point : Mixes(k, l, Orientation(x, y, p),
                                  Orientation(x, y, c), Orientation(x, y, d))
    BY <1>3, <1>4, SegmentMixes
  <2>2. Mixes(k, l, Orientation(u, v, p), Orientation(u, v, c), Orientation(u, v, d))
    BY <2>1
  <2> QED
    BY <2>1, <2>2, <1>4, MixSigns, TurnIs
<1> QED
  BY <1>4, <1>5, <1>6, TurnIs

LEMMA ContactIsMutual ==
    ASSUME NEW a \in Point, NEW b \in Point, NEW c \in Point, NEW d \in Point
    PROVE  Contact(a, b, c, d) <=> Contact(c, d, a, b)
<1>1. {a, b, c, d} = {c, d, a, b}
  OBVIOUS
<1>2. Collinear(a, b, c, d) <=> Collinear(c, d, a, b)
  BY DEF Collinear
<1>3. CASE Collinear(a, b, c, d)
  BY <1>1, <1>2, <1>3 DEF Contact
<1>4. CASE ~Collinear(a, b, c, d)
  BY <1>2, <1>4 DEF Contact
<1> QED
  BY <1>3, <1>4

(* A segment that touches another has no two ends on one side of it.       *)
LEMMA EndsStraddle ==
    ASSUME NEW a \in Point, NEW b \in Point, NEW c \in Point, NEW d \in Point,
           Contact(a, b, c, d)
    PROVE  ~OneSide(Orientation(c, d, a), Orientation(c, d, b))
<1>1. CASE Collinear(a, b, c, d)
  BY <1>1 DEF Collinear, OneSide
<1>2. CASE ~Collinear(a, b, c, d)
  BY <1>2 DEF Contact
<1> QED
  BY <1>1, <1>2

(* On the line of x and y, but clear of both: past one of the two.         *)
LEMMA PastAnEnd ==
    ASSUME NEW x \in Point, NEW y \in Point, NEW z \in Point, NEW t \in Point,
           NEW c \in Point, NEW d \in Point,
           Collinear(c, d, x, y), ~Contact(c, d, x, y),
           Orientation(y, z, x) > 0, Orientation(t, x, y) > 0
    PROVE  \/ Orientation(y, z, c) < 0 /\ Orientation(y, z, d) < 0
           \/ Orientation(t, x, c) < 0 /\ Orientation(t, x, d) < 0
<1>1. x # y
  BY NoTurn
<1>2. PICK i \in 1..2 : x[i] # y[i]
  <2>1. x[1] # y[1] \/ x[2] # y[2]
    BY <1>1 DEF Point
  <2> QED
    BY <2>1
<1>3. \A p \in {c, d, x, y} : ~(OnSegment(c, d, p) /\ OnSegment(x, y, p))
  BY DEF Contact
<1>4. \A p, q \in Point : OnSegment(p, q, p) /\ OnSegment(p, q, q)
  BY DEF OnSegment, Lesser, Greater, Point
<1>5. /\ Orientation(c, d, x) = 0 /\ Orientation(c, d, y) = 0
      /\ Orientation(x, y, c) = 0 /\ Orientation(x, y, d) = 0
  BY DEF Collinear
<1>6. ~OnSegment(x, y, c) /\ ~OnSegment(x, y, d) /\ ~OnSegment(c, d, x) /\ ~OnSegment(c, d, y)
  BY <1>3, <1>4
<1>7. x[i] \in Int /\ y[i] \in Int /\ c[i] \in Int /\ d[i] \in Int
  BY DEF Point
<1>8. /\ ~((x[i] <= c[i] /\ c[i] <= y[i]) \/ (y[i] <= c[i] /\ c[i] <= x[i]))
      /\ ~((x[i] <= d[i] /\ d[i] <= y[i]) \/ (y[i] <= d[i] /\ d[i] <= x[i]))
  BY <1>2, <1>5, <1>6, BetweenIs
<1>9. c[i] # d[i] => /\ ~((c[i] <= x[i] /\ x[i] <= d[i]) \/ (d[i] <= x[i] /\ x[i] <= c[i]))
                     /\ ~((c[i] <= y[i] /\ y[i] <= d[i]) \/ (d[i] <= y[i] /\ y[i] <= c[i]))
  BY <1>5, <1>6, BetweenIs
<1>10. PICK X \in Int : X = x[i] BY <1>7
<1>11. PICK Y \in Int : Y = y[i] BY <1>7
<1>12. PICK C \in Int : C = c[i] BY <1>7
<1>13. PICK D \in Int : D = d[i] BY <1>7
<1>14. X # Y
  BY <1>2, <1>10, <1>11
<1>15. /\ ~((X <= C /\ C <= Y) \/ (Y <= C /\ C <= X))
       /\ ~((X <= D /\ D <= Y) \/ (Y <= D /\ D <= X))
  BY <1>8, <1>10, <1>11, <1>12, <1>13
<1>16. C # D => /\ ~((C <= X /\ X <= D) \/ (D <= X /\ X <= C))
                /\ ~((C <= Y /\ Y <= D) \/ (D <= Y /\ Y <= C))
  BY <1>9, <1>10, <1>11, <1>12, <1>13
<1>17. \/ X < Y /\ Y < C /\ Y < D
       \/ X > Y /\ Y > C /\ Y > D
       \/ Y < X /\ X < C /\ X < D
       \/ Y > X /\ X > C /\ X > D
  BY <1>14, <1>15, <1>16
<1>18. ASSUME NEW p \in {c, d}
       PROVE  /\ (Y - X) * Orientation(y, z, p) = (Y - p[i]) * Orientation(y, z, x)
              /\ (Y - X) * Orientation(t, x, p) = (p[i] - X) * Orientation(t, x, y)
  <2>1. p \in Point /\ Orientation(x, y, p) = 0
    BY <1>5
  <2>2. /\ (Y - X) * (Orientation(y, z, p) - Orientation(y, z, x))
              = (p[i] - X) * (Orientation(y, z, y) - Orientation(y, z, x))
        /\ (Y - X) * (Orientation(t, x, p) - Orientation(t, x, x))
              = (p[i] - X) * (Orientation(t, x, y) - Orientation(t, x, x))
    BY <2>1, SideAlong, <1>10, <1>11
  <2>3. Orientation(y, z, y) = 0 /\ Orientation(t, x, x) = 0
    BY NoTurn
  <2>4. PICK P \in Int : P = p[i]
    BY <2>1 DEF Point
  <2>5. PICK f \in Int : f = Orientation(y, z, p)
    BY <2>1, TurnIs
  <2>6. PICK g \in Int : g = Orientation(y, z, x)
    BY TurnIs
  <2>7. PICK h \in Int : h = Orientation(t, x, p)
    BY <2>1, TurnIs
  <2>8. PICK k \in Int : k = Orientation(t, x, y)
    BY TurnIs
  <2>9. (Y - X) * (f - g) = (P - X) * (0 - g) /\ (Y - X) * (h - 0) = (P - X) * (k - 0)
    BY <2>2, <2>3, <2>4, <2>5, <2>6, <2>7, <2>8
  <2>10. (Y - X) * f = (Y - P) * g /\ (Y - X) * h = (P - X) * k
    BY <2>9
  <2> QED
    BY <2>10, <2>4, <2>5, <2>6, <2>7, <2>8
<1>19. ASSUME NEW m \in Int, NEW n \in Int, NEW f \in Int, NEW g \in Int, g > 0, m * f = n * g,
              (m > 0 /\ n < 0) \/ (m < 0 /\ n > 0)
       PROVE  f < 0
  <2>1. CASE m > 0 /\ n < 0
    <3>1. n * g < 0
      BY <1>19, <2>1
    <3>2. ~(f >= 0)
      BY <1>19, <2>1, <3>1
    <3> QED
      BY <3>2
  <2>2. CASE m < 0 /\ n > 0
    <3>1. n * g > 0
      BY <1>19, <2>2
    <3>2. ~(f >= 0)
      BY <1>19, <2>2, <3>1
    <3> QED
      BY <3>2
  <2> QED
    BY <2>1, <2>2, <1>19
<1>20. CASE (X < Y /\ Y < C /\ Y < D) \/ (X > Y /\ Y > C /\ Y > D)
  <2>1. ASSUME NEW p \in {c, d} PROVE Orientation(y, z, p) < 0
    <3>1. PICK n \in Int : n = Y - p[i]
      BY DEF Point
    <3>2. PICK m \in Int : m = Y - X OBVIOUS
    <3>3. (m > 0 /\ n < 0) \/ (m < 0 /\ n > 0)
      BY <1>20, <3>1, <3>2, <1>12, <1>13
    <3>4. Orientation(y, z, p) \in Int /\ Orientation(y, z, x) \in Int
      BY TurnIs
    <3>5. m * Orientation(y, z, p) = n * Orientation(y, z, x)
      BY <1>18, <3>1, <3>2
    <3> QED
      BY <1>19, <3>3, <3>4, <3>5
  <2> QED
    BY <2>1
<1>21. CASE (Y < X /\ X < C /\ X < D) \/ (Y > X /\ X > C /\ X > D)
  <2>1. ASSUME NEW p \in {c, d} PROVE Orientation(t, x, p) < 0
    <3>1. PICK n \in Int : n = p[i] - X
      BY DEF Point
    <3>2. PICK m \in Int : m = Y - X OBVIOUS
    <3>3. (m > 0 /\ n < 0) \/ (m < 0 /\ n > 0)
      BY <1>21, <3>1, <3>2, <1>12, <1>13
    <3>4. Orientation(t, x, p) \in Int /\ Orientation(t, x, y) \in Int
      BY TurnIs
    <3>5. m * Orientation(t, x, p) = n * Orientation(t, x, y)
      BY <1>18, <3>1, <3>2
    <3> QED
      BY <1>19, <3>3, <3>4, <3>5
  <2> QED
    BY <2>1
<1> QED
  BY <1>17, <1>20, <1>21

(* An edge whose ends are not on one side of the wall has the wall on its  *)
(* left: g and e are left of the edges before, at and after it.            *)
LEMMA StraddledEdge ==
    ASSUME NEW x \in Point, NEW y \in Point, NEW z \in Point, NEW t \in Point,
           NEW g \in Point, NEW e \in Point, NEW c \in Point, NEW d \in Point,
           Contact(g, e, c, d), ~Contact(c, d, x, y),
           Orientation(x, y, g) >= 0, Orientation(x, y, e) >= 0,
           Orientation(y, z, g) >= 0, Orientation(y, z, e) >= 0,
           Orientation(t, x, g) >= 0, Orientation(t, x, e) >= 0,
           Orientation(x, y, z) > 0, Orientation(t, x, y) > 0,
           ~OneSide(Orientation(c, d, x), Orientation(c, d, y))
    PROVE  Orientation(x, y, c) > 0 /\ Orientation(x, y, d) > 0
<1>1. Orientation(y, z, x) > 0
  BY TurnsAgree
<1>2. ~Collinear(c, d, x, y)
  <2>1. SUFFICES ASSUME Collinear(c, d, x, y) PROVE FALSE
    OBVIOUS
  <2>2. \/ Orientation(y, z, c) < 0 /\ Orientation(y, z, d) < 0
        \/ Orientation(t, x, c) < 0 /\ Orientation(t, x, d) < 0
    BY <1>1, <2>1, PastAnEnd
  <2>3. ~(Orientation(y, z, c) < 0 /\ Orientation(y, z, d) < 0)
    BY Apart
  <2>4. ~(Orientation(t, x, c) < 0 /\ Orientation(t, x, d) < 0)
    BY Apart
  <2> QED
    BY <2>2, <2>3, <2>4
<1>3. OneSide(Orientation(x, y, c), Orientation(x, y, d))
  BY <1>2 DEF Contact
<1>4. ~(Orientation(x, y, c) < 0 /\ Orientation(x, y, d) < 0)
  BY Apart
<1> QED
  BY <1>3, <1>4 DEF OneSide

-----------------------------------------------------------------------------
(* What three points of a triangle say of a fourth.                        *)

LEMMA Products ==
    \A x, y \in Int :
        /\ x * y \in Int
        /\ x >= 0 /\ y >= 0 => x * y >= 0
        /\ x <= 0 /\ y <= 0 => x * y >= 0
        /\ x <= 0 /\ y >= 0 => x * y <= 0
        /\ x >= 0 /\ y <= 0 => x * y <= 0
        /\ x > 0 /\ y > 0 => x * y > 0
        /\ x < 0 /\ y < 0 => x * y > 0
        /\ x > 0 /\ y < 0 => x * y < 0
        /\ x < 0 /\ y > 0 => x * y < 0
<1>1. ASSUME NEW x \in Int, NEW y \in Int
      PROVE  /\ x * y \in Int
             /\ x >= 0 /\ y >= 0 => x * y >= 0
             /\ x <= 0 /\ y <= 0 => x * y >= 0
             /\ x <= 0 /\ y >= 0 => x * y <= 0
             /\ x >= 0 /\ y <= 0 => x * y <= 0
    OBVIOUS
<1>2. ASSUME NEW x \in Int, NEW y \in Int
      PROVE  /\ x > 0 /\ y > 0 => x * y > 0
             /\ x < 0 /\ y < 0 => x * y > 0
             /\ x > 0 /\ y < 0 => x * y < 0
             /\ x < 0 /\ y > 0 => x * y < 0
  OBVIOUS
<1> QED
  BY <1>1, <1>2

(* Weighs3(k, l, m, f, g, h, r): f, g, h weigh k, l, m and r weighs all.   *)
Blends(k, l, m, f, g, h, r) == k * f + l * g + m * h = (k + l + m) * r
Weights(k, l, m) == k >= 0 /\ l >= 0 /\ m >= 0 /\ k + l + m > 0

LEMMA TriangleBlends ==
    ASSUME NEW u \in Point, NEW v \in Point,
           NEW a \in Point, NEW b \in Point, NEW c \in Point, NEW p \in Point
    PROVE  /\ Orientation(b, c, p) + Orientation(c, a, p) + Orientation(a, b, p) = Orientation(a, b, c)
           /\ Blends(Orientation(b, c, p), Orientation(c, a, p), Orientation(a, b, p),
                     Orientation(u, v, a), Orientation(u, v, b), Orientation(u, v, c),
                     Orientation(u, v, p))
<1>1. PICK o1 \in Int : o1 = Orientation(b, c, p) BY TurnIs
<1>2. PICK o2 \in Int : o2 = Orientation(c, a, p) BY TurnIs
<1>3. PICK o3 \in Int : o3 = Orientation(a, b, p) BY TurnIs
<1>4. PICK o4 \in Int : o4 = Orientation(a, b, c) BY TurnIs
<1>5. Orientation(a, c, p) = -o2
  BY <1>2, TurnsAgree, TurnIs
<1>6. o4 + (-o2) = o3 + o1
  BY FourTurns, <1>1, <1>3, <1>4, <1>5
<1>7. Balance(Orientation(u, v, a), Orientation(u, v, b), Orientation(u, v, c),
              Orientation(u, v, p), a, b, c, p)
  BY SidesBalance
<1>8. PICK f \in Int : f = Orientation(u, v, a) BY TurnIs
<1>9. PICK g \in Int : g = Orientation(u, v, b) BY TurnIs
<1>10. PICK h \in Int : h = Orientation(u, v, c) BY TurnIs
<1>11. PICK r \in Int : r = Orientation(u, v, p) BY TurnIs
<1>12. o1 * f + o3 * h = (-o2) * g + o4 * r
  BY <1>7, <1>8, <1>9, <1>10, <1>11, <1>1, <1>3, <1>4, <1>5 DEF Balance
<1>13. o4 = o1 + o2 + o3
  BY <1>6
<1>14. (-o2) * g = -(o2 * g)
  OBVIOUS
<1>15. o1 * f + o2 * g + o3 * h = (o1 + o2 + o3) * r
  BY <1>12, <1>13, <1>14
<1>16. Blends(o1, o2, o3, f, g, h, r)
  BY <1>15 DEF Blends
<1> QED
  BY <1>13, <1>16, <1>1, <1>2, <1>3, <1>4, <1>8, <1>9, <1>10, <1>11

BlendsSigned(f, g, h, r) ==
    /\ f > 0 /\ g > 0 /\ h > 0 => r > 0
    /\ f < 0 /\ g < 0 /\ h < 0 => r < 0
    /\ f >= 0 /\ g >= 0 /\ h >= 0 => r >= 0

LEMMA BlendSigns ==
    ASSUME NEW k \in Int, NEW l \in Int, NEW m \in Int, Weights(k, l, m),
           NEW f \in Int, NEW g \in Int, NEW h \in Int, NEW r \in Int,
           Blends(k, l, m, f, g, h, r)
    PROVE  BlendsSigned(f, g, h, r)
<1>1. /\ k * f \in Int /\ l * g \in Int /\ m * h \in Int
      /\ k * f + l * g + m * h = (k + l + m) * r
      /\ k + l + m \in Int
  BY DEF Blends
<1>2. k >= 0 /\ l >= 0 /\ m >= 0 /\ (k > 0 \/ l > 0 \/ m > 0) /\ k + l + m > 0
  BY DEF Weights
<1>3. ASSUME f > 0, g > 0, h > 0 PROVE r > 0
  <2>1. k * f >= 0 /\ l * g >= 0 /\ m * h >= 0 /\ (k * f > 0 \/ l * g > 0 \/ m * h > 0)
    BY <1>2, <1>3, Products
  <2>2. (k + l + m) * r > 0
    BY <2>1, <1>1
  <2>3. ~(r <= 0)
    BY <2>2, <1>1, <1>2, Products
  <2> QED
    BY <2>3
<1>4. ASSUME f < 0, g < 0, h < 0 PROVE r < 0
  <2>1. k * f <= 0 /\ l * g <= 0 /\ m * h <= 0 /\ (k * f < 0 \/ l * g < 0 \/ m * h < 0)
    BY <1>2, <1>4, Products
  <2>2. (k + l + m) * r < 0
    BY <2>1, <1>1
  <2>3. ~(r >= 0)
    BY <2>2, <1>1, <1>2, Products
  <2> QED
    BY <2>3
<1>5. ASSUME f >= 0, g >= 0, h >= 0 PROVE r >= 0
  <2>1. k * f >= 0 /\ l * g >= 0 /\ m * h >= 0
    BY <1>2, <1>5, Products
  <2>2. (k + l + m) * r >= 0
    BY <2>1, <1>1
  <2>3. ~(r < 0)
    BY <2>2, <1>1, <1>2, Products
  <2> QED
    BY <2>3
<1> QED
  BY <1>3, <1>4, <1>5 DEF BlendsSigned

LeftOfTriangle(p, a, b, c) ==
    Orientation(a, b, p) >= 0 /\ Orientation(b, c, p) >= 0 /\ Orientation(c, a, p) >= 0

(* A point of a triangle is not on one side of a line when all corners are *)
(* on the other.                                                           *)
LEMMA InTriangle ==
    ASSUME NEW u \in Point, NEW v \in Point,
           NEW a \in Point, NEW b \in Point, NEW c \in Point, NEW p \in Point,
           Orientation(a, b, c) > 0, LeftOfTriangle(p, a, b, c)
    PROVE  /\ Orientation(u, v, a) > 0 /\ Orientation(u, v, b) > 0 /\ Orientation(u, v, c) > 0
                  => Orientation(u, v, p) > 0
           /\ Orientation(u, v, a) < 0 /\ Orientation(u, v, b) < 0 /\ Orientation(u, v, c) < 0
                  => Orientation(u, v, p) < 0
<1>1. PICK o1 \in Int : o1 = Orientation(b, c, p) BY TurnIs
<1>2. PICK o2 \in Int : o2 = Orientation(c, a, p) BY TurnIs
<1>3. PICK o3 \in Int : o3 = Orientation(a, b, p) BY TurnIs
<1>4. PICK f \in Int : f = Orientation(u, v, a) BY TurnIs
<1>5. PICK g \in Int : g = Orientation(u, v, b) BY TurnIs
<1>6. PICK h \in Int : h = Orientation(u, v, c) BY TurnIs
<1>7. PICK r \in Int : r = Orientation(u, v, p) BY TurnIs
<1>8. o1 + o2 + o3 = Orientation(a, b, c) /\ Blends(o1, o2, o3, f, g, h, r)
  BY TriangleBlends, <1>1, <1>2, <1>3, <1>4, <1>5, <1>6, <1>7
<1>9. o1 >= 0 /\ o2 >= 0 /\ o3 >= 0 /\ o1 + o2 + o3 > 0
  BY <1>1, <1>2, <1>3, <1>8 DEF LeftOfTriangle
<1>10. /\ f > 0 /\ g > 0 /\ h > 0 => r > 0
       /\ f < 0 /\ g < 0 /\ h < 0 => r < 0
  <2>1. Blends(o1, o2, o3, f, g, h, r)
    BY <1>8
  <2>2. Weights(o1, o2, o3)
    BY <1>9 DEF Weights
  <2>3. BlendsSigned(f, g, h, r)
    BY <2>1, <2>2, BlendSigns
  <2> QED
    BY <2>3 DEF BlendsSigned
<1> QED
  BY <1>10, <1>4, <1>5, <1>6, <1>7

(* The wall c d touches g e, both ends of which are in the triangle, and   *)
(* none of the edges: then it is in the triangle as a whole.               *)
LEMMA TriangleSide ==
    ASSUME NEW x \in Point, NEW y \in Point, NEW z \in Point,
           NEW g \in Point, NEW e \in Point, NEW c \in Point, NEW d \in Point,
           Orientation(x, y, z) > 0, LeftOfTriangle(g, x, y, z), LeftOfTriangle(e, x, y, z),
           Contact(g, e, c, d),
           ~Contact(c, d, x, y), ~Contact(c, d, y, z), ~Contact(c, d, z, x)
    PROVE  Orientation(x, y, c) > 0
<1>1. Orientation(y, z, x) > 0 /\ Orientation(z, x, y) > 0
  BY TurnsAgree
<1>2. PICK f \in Int : f = Orientation(c, d, x) BY TurnIs
<1>3. PICK h \in Int : h = Orientation(c, d, y) BY TurnIs
<1>4. PICK k \in Int : k = Orientation(c, d, z) BY TurnIs
<1>5. PICK o1 \in Int : o1 = Orientation(y, z, c) BY TurnIs
<1>6. PICK o2 \in Int : o2 = Orientation(z, x, c) BY TurnIs
<1>7. PICK o3 \in Int : o3 = Orientation(x, y, c) BY TurnIs
<1>8. ~OneSide(f, h) => o3 > 0
  <2>1. ~OneSide(Orientation(c, d, x), Orientation(c, d, y)) => Orientation(x, y, c) > 0
    BY <1>1, StraddledEdge DEF LeftOfTriangle
  <2> QED
    BY <2>1, <1>2, <1>3, <1>7
<1>9. ~OneSide(h, k) => o1 > 0
  <2>1. ~OneSide(Orientation(c, d, y), Orientation(c, d, z)) => Orientation(y, z, c) > 0
    BY <1>1, StraddledEdge DEF LeftOfTriangle
  <2> QED
    BY <2>1, <1>3, <1>4, <1>5
<1>10. ~OneSide(k, f) => o2 > 0
  <2>1. ~OneSide(Orientation(c, d, z), Orientation(c, d, x)) => Orientation(z, x, c) > 0
    BY <1>1, StraddledEdge DEF LeftOfTriangle
  <2> QED
    BY <2>1, <1>2, <1>4, <1>6
<1>11. ~(f > 0 /\ h > 0 /\ k > 0) /\ ~(f < 0 /\ h < 0 /\ k < 0)
  <2>1. ~OneSide(Orientation(c, d, g), Orientation(c, d, e))
    BY EndsStraddle
  <2>2. /\ f > 0 /\ h > 0 /\ k > 0 => Orientation(c, d, g) > 0
        /\ f < 0 /\ h < 0 /\ k < 0 => Orientation(c, d, g) < 0
    BY InTriangle, <1>2, <1>3, <1>4
  <2>3. /\ f > 0 /\ h > 0 /\ k > 0 => Orientation(c, d, e) > 0
        /\ f < 0 /\ h < 0 /\ k < 0 => Orientation(c, d, e) < 0
    BY InTriangle, <1>2, <1>3, <1>4
  <2> QED
    BY <2>1, <2>2, <2>3 DEF OneSide
<1>12. o1 * f + o2 * h + o3 * k = 0
  <2>1. Blends(o1, o2, o3, f, h, k, Orientation(c, d, c))
    BY TriangleBlends, <1>2, <1>3, <1>4, <1>5, <1>6, <1>7
  <2>2. Orientation(c, d, c) = 0
    BY NoTurn
  <2>3. o1 + o2 + o3 \in Int
    OBVIOUS
  <2> QED
    BY <2>1, <2>2, <2>3 DEF Blends
<1>13. o1 * f \in Int /\ o2 * h \in Int /\ o3 * k \in Int
  OBVIOUS
<1>14. CASE f > 0 /\ h > 0
  <2>1. o1 > 0 /\ o2 > 0 /\ k <= 0
    BY <1>9, <1>10, <1>11, <1>14 DEF OneSide
  <2>2. o1 * f > 0 /\ o2 * h > 0
    BY <2>1, <1>14, Products
  <2>3. o3 * k < 0
    BY <2>2, <1>12, <1>13
  <2>4. ~(o3 <= 0)
    BY <2>1, <2>3, Products
  <2> QED
    BY <2>4, <1>7
<1>15. CASE f < 0 /\ h < 0
  <2>1. o1 > 0 /\ o2 > 0 /\ k >= 0
    BY <1>9, <1>10, <1>11, <1>15 DEF OneSide
  <2>2. o1 * f < 0 /\ o2 * h < 0
    BY <2>1, <1>15, Products
  <2>3. o3 * k > 0
    BY <2>2, <1>12, <1>13
  <2>4. ~(o3 <= 0)
    BY <2>1, <2>3, Products
  <2> QED
    BY <2>4, <1>7
<1> QED
  BY <1>8, <1>14, <1>15, <1>7 DEF OneSide

-----------------------------------------------------------------------------
(* Four points that turn left at each: the wall as seen from its end c.    *)
Quad(a, b, c, d) ==
    /\ Orientation(a, b, c) > 0 /\ Orientation(b, c, d) > 0
    /\ Orientation(c, d, a) > 0 /\ Orientation(d, a, b) > 0

LeftOfQuad(p, a, b, c, d) ==
    /\ Orientation(a, b, p) >= 0 /\ Orientation(b, c, p) >= 0
    /\ Orientation(c, d, p) >= 0 /\ Orientation(d, a, p) >= 0

QuadSigned(f, g, h, k, r) ==
    /\ f > 0 /\ g > 0 /\ h > 0 /\ k > 0 => r > 0
    /\ f < 0 /\ g < 0 /\ h < 0 /\ k < 0 => r < 0

LEMMA InQuad ==
    ASSUME NEW u \in Point, NEW v \in Point, NEW a \in Point, NEW b \in Point,
           NEW c \in Point, NEW d \in Point, NEW p \in Point,
           Quad(a, b, c, d), LeftOfQuad(p, a, b, c, d)
    PROVE  QuadSigned(Orientation(u, v, a), Orientation(u, v, b), Orientation(u, v, c),
                      Orientation(u, v, d), Orientation(u, v, p))
<1>1. /\ Orientation(a, c, p) \in Int /\ Orientation(c, a, p) \in Int
      /\ Orientation(c, a, p) = -Orientation(a, c, p)
  BY TurnIs, TurnsAgree
<1>2. CASE Orientation(a, c, p) <= 0
  <2>1. LeftOfTriangle(p, a, b, c) /\ Orientation(a, b, c) > 0
    BY <1>1, <1>2 DEF LeftOfTriangle, LeftOfQuad, Quad
  <2> QED
    BY <2>1, InTriangle DEF QuadSigned
<1>3. CASE Orientation(a, c, p) >= 0
  <2>1. Orientation(a, c, d) > 0
    BY TurnsAgree DEF Quad
  <2>2. LeftOfTriangle(p, a, c, d)
    BY <1>3 DEF LeftOfTriangle, LeftOfQuad
  <2> QED
    BY <2>1, <2>2, InTriangle DEF QuadSigned
<1> QED
  BY <1>1, <1>2, <1>3

Shows(s, t, v) == OneSide(s, t) \/ v > 0

(* What is known of the wall at the edge between f and g: see QuadSide for *)
(* what the numbers are.                                                   *)
WallAtQuad(f, g, h, k, A, B, C, D, E, F, o1, o2, o3, o4) ==
    /\ o1 > 0 /\ o2 > 0 /\ o3 > 0 /\ o4 > 0
    /\ f > 0 /\ g > 0 /\ ~(h > 0 /\ k > 0)
    /\ Shows(g, h, B) /\ Shows(h, k, C) /\ Shows(k, f, D)
    /\ B * f - E * g + A * h = 0
    /\ C * f + D * h + E * k = 0
    /\ F * f + D * g + A * k = 0
    /\ C * g - F * h + B * k = 0
    /\ o4 * E = o3 * A - o1 * D
    /\ o1 * F = o4 * B - o2 * A

LEMMA QuadNumbers ==
    ASSUME NEW f \in Int, NEW g \in Int, NEW h \in Int, NEW k \in Int,
           NEW A \in Int, NEW B \in Int, NEW C \in Int, NEW D \in Int,
           NEW E \in Int, NEW F \in Int,
           NEW o1 \in Int, NEW o2 \in Int, NEW o3 \in Int, NEW o4 \in Int,
           WallAtQuad(f, g, h, k, A, B, C, D, E, F, o1, o2, o3, o4)
    PROVE  A > 0
<1>1. SUFFICES ASSUME A <= 0 PROVE FALSE
  OBVIOUS
<1>0. /\ o1 > 0 /\ o2 > 0 /\ o3 > 0 /\ o4 > 0
      /\ f > 0 /\ g > 0 /\ ~(h > 0 /\ k > 0)
      /\ Shows(g, h, B) /\ Shows(h, k, C) /\ Shows(k, f, D)
      /\ B * f - E * g + A * h = 0
      /\ C * f + D * h + E * k = 0
      /\ F * f + D * g + A * k = 0
      /\ C * g - F * h + B * k = 0
      /\ o4 * E = o3 * A - o1 * D
      /\ o1 * F = o4 * B - o2 * A
  BY DEF WallAtQuad
<1>2. /\ B * f \in Int /\ E * g \in Int /\ A * h \in Int
      /\ C * f \in Int /\ D * h \in Int /\ E * k \in Int
      /\ F * f \in Int /\ D * g \in Int /\ A * k \in Int
      /\ C * g \in Int /\ F * h \in Int /\ B * k \in Int
      /\ o4 * E \in Int /\ o3 * A \in Int /\ o1 * D \in Int
      /\ o1 * F \in Int /\ o4 * B \in Int /\ o2 * A \in Int
  OBVIOUS
<1>3. o3 * A <= 0 /\ o2 * A <= 0
  BY <1>0, <1>1, Products
<1>4. ~(E > 0 /\ D > 0)
  <2>1. SUFFICES ASSUME E > 0, D > 0 PROVE FALSE
    OBVIOUS
  <2>2. o4 * E > 0 /\ o1 * D > 0
    BY <1>0, <2>1, Products
  <2> QED
    BY <1>0, <2>2, <1>2, <1>3
<1>5. ~(F < 0 /\ B > 0)
  <2>1. SUFFICES ASSUME F < 0, B > 0 PROVE FALSE
    OBVIOUS
  <2>2. o1 * F < 0 /\ o4 * B > 0
    BY <1>0, <2>1, Products
  <2> QED
    BY <1>0, <2>2, <1>2, <1>3
<1>6. CASE h <= 0
  <2>1. B > 0
    BY <1>0, <1>6 DEF Shows, OneSide
  <2>2. B * f > 0 /\ A * h >= 0
    BY <1>0, <2>1, <1>1, <1>6, Products
  <2>3. E * g > 0
    BY <1>0, <2>2, <1>2
  <2>4. E > 0
    <3>1. ~(E <= 0)
      BY <1>0, <2>3, Products
    <3> QED
      BY <1>0, <3>1
  <2>5. CASE k <= 0
    <3>1. D > 0
      BY <1>0, <2>5 DEF Shows, OneSide
    <3> QED
      BY <1>0, <3>1, <2>4, <1>4
  <2>6. CASE k > 0
    <3>1. C > 0
      BY <1>0, <2>6, <1>6 DEF Shows, OneSide
    <3>2. C * f > 0 /\ E * k > 0
      BY <1>0, <3>1, <2>4, <2>6, Products
    <3>3. D * h < 0
      BY <1>0, <3>2, <1>2
    <3>4. ~(D <= 0)
      BY <1>0, <3>3, <1>6, Products
    <3> QED
      BY <1>0, <3>4, <2>4, <1>4
  <2> QED
    BY <1>0, <2>5, <2>6
<1>7. CASE h > 0
  <2>1. k <= 0
    BY <1>0, <1>7
  <2>2. D > 0 /\ C > 0
    BY <1>0, <2>1, <1>7 DEF Shows, OneSide
  <2>3. D * g > 0 /\ A * k >= 0
    BY <1>0, <2>1, <2>2, <1>1, Products
  <2>4. F * f < 0
    BY <1>0, <2>3, <1>2
  <2>5. F < 0
    <3>1. ~(F >= 0)
      BY <1>0, <2>4, Products
    <3> QED
      BY <1>0, <3>1
  <2>6. C * g > 0 /\ F * h < 0
    BY <1>0, <2>2, <2>5, <1>7, Products
  <2>7. B * k < 0
    BY <1>0, <2>6, <1>2
  <2>8. ~(B <= 0)
    BY <1>0, <2>7, <2>1, Products
  <2> QED
    BY <1>0, <2>8, <2>5, <1>5
<1> QED
  BY <1>6, <1>7

(* How the lines from a corner to three others lie to each other.          *)
LEMMA RaysBalance ==
    ASSUME NEW a \in Point, NEW b \in Point, NEW c \in Point, NEW d \in Point, NEW p \in Point
    PROVE  Orientation(a, b, d) * Orientation(a, c, p)
              = Orientation(a, c, d) * Orientation(a, b, p)
                + Orientation(a, b, c) * Orientation(a, d, p)
<1>1. Balance(Orientation(a, p, a), Orientation(a, p, b), Orientation(a, p, c),
              Orientation(a, p, d), a, b, c, d)
  BY SidesBalance
<1>2. Orientation(a, p, a) = 0
  BY NoTurn
<1>3. PICK x \in Int : x = Orientation(a, b, p) BY TurnIs
<1>4. PICK y \in Int : y = Orientation(a, c, p) BY TurnIs
<1>5. PICK z \in Int : z = Orientation(a, d, p) BY TurnIs
<1>6. Orientation(a, p, b) = -x /\ Orientation(a, p, c) = -y /\ Orientation(a, p, d) = -z
  BY TurnsAgree, TurnIs, <1>3, <1>4, <1>5
<1>7. PICK q \in Int : q = Orientation(b, c, d) BY TurnIs
<1>8. PICK r \in Int : r = Orientation(a, b, d) BY TurnIs
<1>9. PICK s \in Int : s = Orientation(a, c, d) BY TurnIs
<1>10. PICK t \in Int : t = Orientation(a, b, c) BY TurnIs
<1>11. q * 0 + r * (-y) = s * (-x) + t * (-z)
  BY <1>1, <1>2, <1>6, <1>7, <1>8, <1>9, <1>10 DEF Balance
<1>12. r * y = s * x + t * z
  BY <1>11
<1> QED
  BY <1>12, <1>3, <1>4, <1>5, <1>8, <1>9, <1>10

LEMMA WallOnTriangle ==
    ASSUME NEW a \in Point, NEW b \in Point, NEW p \in Point, NEW c \in Point, NEW d \in Point
    PROVE  Orientation(b, p, c) * Orientation(c, d, a)
             + Orientation(p, a, c) * Orientation(c, d, b)
             + Orientation(a, b, c) * Orientation(c, d, p) = 0
<1>1. Blends(Orientation(b, p, c), Orientation(p, a, c), Orientation(a, b, c),
             Orientation(c, d, a), Orientation(c, d, b), Orientation(c, d, p),
             Orientation(c, d, c))
  BY TriangleBlends
<1>2. Orientation(c, d, c) = 0
  BY NoTurn
<1>3. /\ Orientation(b, p, c) \in Int /\ Orientation(p, a, c) \in Int
      /\ Orientation(a, b, c) \in Int
  BY TurnIs
<1>4. (Orientation(b, p, c) + Orientation(p, a, c) + Orientation(a, b, c)) * 0 = 0
  BY <1>3
<1> QED
  BY <1>1, <1>2, <1>4 DEF Blends

LEMMA QuadSide ==
    ASSUME NEW w \in Point, NEW x \in Point, NEW y \in Point, NEW z \in Point,
           NEW g \in Point, NEW e \in Point, NEW c \in Point, NEW d \in Point,
           Quad(w, x, y, z), LeftOfQuad(g, w, x, y, z), LeftOfQuad(e, w, x, y, z),
           Contact(g, e, c, d),
           ~Contact(c, d, w, x), ~Contact(c, d, x, y), ~Contact(c, d, y, z), ~Contact(c, d, z, w)
    PROVE  Orientation(w, x, c) > 0
<1>1. PICK f \in Int : f = Orientation(c, d, w) BY TurnIs
<1>2. PICK h \in Int : h = Orientation(c, d, x) BY TurnIs
<1>3. PICK k \in Int : k = Orientation(c, d, y) BY TurnIs
<1>4. PICK m \in Int : m = Orientation(c, d, z) BY TurnIs
<1>5. PICK A \in Int : A = Orientation(w, x, c) BY TurnIs
<1>6. PICK B \in Int : B = Orientation(x, y, c) BY TurnIs
<1>7. PICK C \in Int : C = Orientation(y, z, c) BY TurnIs
<1>8. PICK D \in Int : D = Orientation(z, w, c) BY TurnIs
<1>9. PICK E \in Int : E = Orientation(w, y, c) BY TurnIs
<1>10. PICK F \in Int : F = Orientation(x, z, c) BY TurnIs
<1>11. PICK o1 \in Int : o1 = Orientation(w, x, y) BY TurnIs
<1>12. PICK o2 \in Int : o2 = Orientation(x, y, z) BY TurnIs
<1>13. PICK o3 \in Int : o3 = Orientation(y, z, w) BY TurnIs
<1>14. PICK o4 \in Int : o4 = Orientation(z, w, x) BY TurnIs
<1>15. o1 > 0 /\ o2 > 0 /\ o3 > 0 /\ o4 > 0
  BY <1>11, <1>12, <1>13, <1>14 DEF Quad
<1>16. Shows(f, h, A)
  <2>1. ~OneSide(Orientation(c, d, w), Orientation(c, d, x)) => Orientation(w, x, c) > 0
    <3>1. /\ Orientation(w, x, y) > 0 /\ Orientation(z, w, x) > 0
          /\ Orientation(w, x, g) >= 0 /\ Orientation(w, x, e) >= 0
          /\ Orientation(x, y, g) >= 0 /\ Orientation(x, y, e) >= 0
          /\ Orientation(z, w, g) >= 0 /\ Orientation(z, w, e) >= 0
      BY DEF LeftOfQuad, Quad
    <3> QED
      BY <3>1, StraddledEdge
  <2> QED
    BY <2>1, <1>1, <1>2, <1>5 DEF Shows
<1>17. Shows(h, k, B)
  <2>1. ~OneSide(Orientation(c, d, x), Orientation(c, d, y)) => Orientation(x, y, c) > 0
    <3>1. /\ Orientation(x, y, z) > 0 /\ Orientation(w, x, y) > 0
          /\ Orientation(x, y, g) >= 0 /\ Orientation(x, y, e) >= 0
          /\ Orientation(y, z, g) >= 0 /\ Orientation(y, z, e) >= 0
          /\ Orientation(w, x, g) >= 0 /\ Orientation(w, x, e) >= 0
      BY DEF LeftOfQuad, Quad
    <3> QED
      BY <3>1, StraddledEdge
  <2> QED
    BY <2>1, <1>2, <1>3, <1>6 DEF Shows
<1>18. Shows(k, m, C)
  <2>1. ~OneSide(Orientation(c, d, y), Orientation(c, d, z)) => Orientation(y, z, c) > 0
    <3>1. /\ Orientation(y, z, w) > 0 /\ Orientation(x, y, z) > 0
          /\ Orientation(y, z, g) >= 0 /\ Orientation(y, z, e) >= 0
          /\ Orientation(z, w, g) >= 0 /\ Orientation(z, w, e) >= 0
          /\ Orientation(x, y, g) >= 0 /\ Orientation(x, y, e) >= 0
      BY DEF LeftOfQuad, Quad
    <3> QED
      BY <3>1, StraddledEdge
  <2> QED
    BY <2>1, <1>3, <1>4, <1>7 DEF Shows
<1>19. Shows(m, f, D)
  <2>1. ~OneSide(Orientation(c, d, z), Orientation(c, d, w)) => Orientation(z, w, c) > 0
    <3>1. /\ Orientation(z, w, x) > 0 /\ Orientation(y, z, w) > 0
          /\ Orientation(z, w, g) >= 0 /\ Orientation(z, w, e) >= 0
          /\ Orientation(w, x, g) >= 0 /\ Orientation(w, x, e) >= 0
          /\ Orientation(y, z, g) >= 0 /\ Orientation(y, z, e) >= 0
      BY DEF LeftOfQuad, Quad
    <3> QED
      BY <3>1, StraddledEdge
  <2> QED
    BY <2>1, <1>1, <1>4, <1>8 DEF Shows
<1>20. /\ ~(f > 0 /\ h > 0 /\ k > 0 /\ m > 0) /\ ~(f < 0 /\ h < 0 /\ k < 0 /\ m < 0)
  <2>1. ~OneSide(Orientation(c, d, g), Orientation(c, d, e))
    BY EndsStraddle
  <2>2. /\ f > 0 /\ h > 0 /\ k > 0 /\ m > 0 => Orientation(c, d, g) > 0
        /\ f < 0 /\ h < 0 /\ k < 0 /\ m < 0 => Orientation(c, d, g) < 0
    <3>1. QuadSigned(Orientation(c, d, w), Orientation(c, d, x), Orientation(c, d, y),
                     Orientation(c, d, z), Orientation(c, d, g))
      BY InQuad
    <3> QED
      BY <3>1, <1>1, <1>2, <1>3, <1>4 DEF QuadSigned
  <2>3. /\ f > 0 /\ h > 0 /\ k > 0 /\ m > 0 => Orientation(c, d, e) > 0
        /\ f < 0 /\ h < 0 /\ k < 0 /\ m < 0 => Orientation(c, d, e) < 0
    <3>1. QuadSigned(Orientation(c, d, w), Orientation(c, d, x), Orientation(c, d, y),
                     Orientation(c, d, z), Orientation(c, d, e))
      BY InQuad
    <3> QED
      BY <3>1, <1>1, <1>2, <1>3, <1>4 DEF QuadSigned
  <2> QED
    BY <2>1, <2>2, <2>3 DEF OneSide
<1>21. /\ Orientation(y, w, c) = -E /\ Orientation(z, x, c) = -F
       /\ Orientation(w, z, c) = -D /\ Orientation(x, w, c) = -A
       /\ Orientation(w, x, z) = o4 /\ Orientation(w, y, z) = o3
       /\ Orientation(x, z, w) = o4 /\ Orientation(x, y, w) = o1
  <2>1. /\ Orientation(y, w, c) = -E /\ Orientation(z, x, c) = -F
        /\ Orientation(w, z, c) = -D /\ Orientation(x, w, c) = -A
    BY TurnsAgree, <1>5, <1>8, <1>9, <1>10
  <2>2. /\ Orientation(w, x, z) = o4 /\ Orientation(w, y, z) = o3
        /\ Orientation(x, z, w) = o4 /\ Orientation(x, y, w) = o1
    BY TurnsAgree, <1>11, <1>13, <1>14
  <2> QED
    BY <2>1, <2>2
<1>22. B * f - E * h + A * k = 0
  <2>1. B * f + (-E) * h + A * k = 0
    BY WallOnTriangle, <1>1, <1>2, <1>3, <1>5, <1>6, <1>21
  <2> QED
    BY <2>1
<1>23. C * f + D * k + E * m = 0
  <2>1. Orientation(y, z, c) * Orientation(c, d, w)
             + Orientation(z, w, c) * Orientation(c, d, y)
             + Orientation(w, y, c) * Orientation(c, d, z) = 0
    BY WallOnTriangle
  <2> QED
    BY <2>1, <1>1, <1>3, <1>4, <1>7, <1>8, <1>9
<1>24. F * f + D * h + A * m = 0
  <2>1. Orientation(x, z, c) * Orientation(c, d, w)
             + Orientation(z, w, c) * Orientation(c, d, x)
             + Orientation(w, x, c) * Orientation(c, d, z) = 0
    BY WallOnTriangle
  <2> QED
    BY <2>1, <1>1, <1>2, <1>4, <1>5, <1>8, <1>10
<1>25. C * h - F * k + B * m = 0
  <2>1. C * h + (-F) * k + B * m = 0
    <3>1. Orientation(y, z, c) * Orientation(c, d, x)
             + Orientation(z, x, c) * Orientation(c, d, y)
             + Orientation(x, y, c) * Orientation(c, d, z) = 0
      BY WallOnTriangle
    <3> QED
      BY <3>1, <1>2, <1>3, <1>4, <1>6, <1>7, <1>21
  <2> QED
    BY <2>1
<1>26. o4 * E = o3 * A - o1 * D
  <2>1. o4 * E = o3 * A + o1 * (-D)
    <3>1. Orientation(w, x, z) * Orientation(w, y, c)
              = Orientation(w, y, z) * Orientation(w, x, c)
                + Orientation(w, x, y) * Orientation(w, z, c)
      BY RaysBalance
    <3> QED
      BY <3>1, <1>5, <1>9, <1>11, <1>21
  <2> QED
    BY <2>1
<1>27. o1 * F = o4 * B - o2 * A
  <2>1. o1 * F = o4 * B + o2 * (-A)
    <3>1. Orientation(x, y, w) * Orientation(x, z, c)
              = Orientation(x, z, w) * Orientation(x, y, c)
                + Orientation(x, y, z) * Orientation(x, w, c)
      BY RaysBalance
    <3> QED
      BY <3>1, <1>6, <1>10, <1>12, <1>21
  <2> QED
    BY <2>1
<1>28. CASE f > 0 /\ h > 0
  <2>1. WallAtQuad(f, h, k, m, A, B, C, D, E, F, o1, o2, o3, o4)
    BY <1>15, <1>17, <1>18, <1>19, <1>20, <1>22, <1>23, <1>24, <1>25, <1>26, <1>27, <1>28
       DEF WallAtQuad
  <2>2. A > 0
    BY <2>1, QuadNumbers
  <2> QED
    BY <2>2, <1>5
<1>29. CASE f < 0 /\ h < 0
  <2>1. Shows(-h, -k, B) /\ Shows(-k, -m, C) /\ Shows(-m, -f, D)
    BY <1>17, <1>18, <1>19 DEF Shows, OneSide
  <2>2. B * (-f) - E * (-h) + A * (-k) = 0
    BY <1>22
  <2>3. C * (-f) + D * (-k) + E * (-m) = 0
    BY <1>23
  <2>4. F * (-f) + D * (-h) + A * (-m) = 0
    BY <1>24
  <2>5. C * (-h) - F * (-k) + B * (-m) = 0
    BY <1>25
  <2>6. -f > 0 /\ -h > 0 /\ ~(-k > 0 /\ -m > 0)
    BY <1>20, <1>29
  <2>7. -f \in Int /\ -h \in Int /\ -k \in Int /\ -m \in Int
    OBVIOUS
  <2>8. PICK f1 \in Int : f1 = -f OBVIOUS
  <2>9. PICK h1 \in Int : h1 = -h OBVIOUS
  <2>10. PICK k1 \in Int : k1 = -k OBVIOUS
  <2>11. PICK m1 \in Int : m1 = -m OBVIOUS
  <2>12. WallAtQuad(f1, h1, k1, m1, A, B, C, D, E, F, o1, o2, o3, o4)
    BY <1>15, <1>26, <1>27, <2>1, <2>2, <2>3, <2>4, <2>5, <2>6, <2>8, <2>9, <2>10, <2>11
       DEF WallAtQuad
  <2>13. A > 0
    BY <2>12, QuadNumbers
  <2> QED
    BY <2>13, <1>5
<1> QED
  BY <1>16, <1>28, <1>29, <1>5 DEF Shows, OneSide

-----------------------------------------------------------------------------
(* A point left of all edges is inside: the ray from it to the right       *)
(* crosses one of them, the only one that leads up past it.                *)
LEMMA CrossesUpwards ==
    ASSUME NEW p \in Point, NEW a \in Point, NEW b \in Point, Orientation(a, b, p) > 0
    PROVE  Crosses(p, a, b) <=> a[2] <= p[2] /\ p[2] < b[2]
<1>1. PICK side \in Int : side = (p[1] - a[1]) * (b[2] - a[2]) - (p[2] - a[2]) * (b[1] - a[1])
  BY DEF Point
<1>2. side < 0
  <2>1. side = -Orientation(a, b, p)
    BY <1>1, TurnIs DEF Point
  <2> QED
    BY <2>1, TurnIs
<1>3. a[2] \in Int /\ b[2] \in Int /\ p[2] \in Int
  BY DEF Point
<1>4. Crosses(p, a, b) <=> /\ (a[2] > p[2]) # (b[2] > p[2])
                           /\ IF b[2] > a[2] THEN side < 0 ELSE side > 0
  BY <1>1 DEF Crosses
<1>5. CASE a[2] <= p[2] /\ p[2] < b[2]
  BY <1>2, <1>3, <1>4, <1>5
<1>6. CASE b[2] <= p[2] /\ p[2] < a[2]
  BY <1>2, <1>3, <1>4, <1>6
<1>7. CASE (a[2] <= p[2] /\ b[2] <= p[2]) \/ (a[2] > p[2] /\ b[2] > p[2])
  BY <1>2, <1>3, <1>4, <1>7
<1> QED
  BY <1>3, <1>5, <1>6, <1>7

(* Heights above a point, as sides of a level line.                        *)
LEMMA HeightIsSide ==
    ASSUME NEW p \in Point
    PROVE  \E u, v \in Point : \A q \in Point : Orientation(u, v, q) = q[2] - p[2]
<1>1. <<0, p[2]>> \in Point /\ <<1, p[2]>> \in Point
  BY DEF Point
<1>2. \A q \in Point : Orientation(<<0, p[2]>>, <<1, p[2]>>, q) = q[2] - p[2]
  BY DEF Point, Orientation, Cross, Minus
<1> QED
  BY <1>1, <1>2

LEMMA LevelIsNoTurn ==
    \A a, b, c \in Point : a[2] = b[2] /\ b[2] = c[2] => Orientation(a, b, c) = 0
  BY DEF Point, Orientation, Cross, Minus

LEMMA TriangleIsEntered ==
    ASSUME NEW a \in Point, NEW b \in Point, NEW c \in Point, NEW p \in Point,
           Orientation(a, b, p) > 0, Orientation(b, c, p) > 0, Orientation(c, a, p) > 0
    PROVE  InPolygon(p, <<a, b, c>>)
<1>1. PICK u, v \in Point : \A q \in Point : Orientation(u, v, q) = q[2] - p[2]
  BY HeightIsSide
<1>2. PICK f \in Int : f = a[2] - p[2] BY DEF Point
<1>3. PICK g \in Int : g = b[2] - p[2] BY DEF Point
<1>4. PICK h \in Int : h = c[2] - p[2] BY DEF Point
<1>5. PICK o1 \in Int : o1 = Orientation(b, c, p) BY TurnIs
<1>6. PICK o2 \in Int : o2 = Orientation(c, a, p) BY TurnIs
<1>7. PICK o3 \in Int : o3 = Orientation(a, b, p) BY TurnIs
<1>8. o1 > 0 /\ o2 > 0 /\ o3 > 0
  BY <1>5, <1>6, <1>7
<1>9. Orientation(a, b, c) = o1 + o2 + o3 /\ o1 * f + o2 * g + o3 * h = 0
  <2>1. /\ Orientation(u, v, a) = f /\ Orientation(u, v, b) = g /\ Orientation(u, v, c) = h
        /\ Orientation(u, v, p) = 0
    <3>1. p[2] - p[2] = 0
      BY DEF Point
    <3> QED
      BY <1>1, <1>2, <1>3, <1>4, <3>1
  <2>2. Blends(o1, o2, o3, f, g, h, 0)
    BY TriangleBlends, <2>1, <1>5, <1>6, <1>7
  <2>3. o1 + o2 + o3 = Orientation(a, b, c)
    BY TriangleBlends, <1>5, <1>6, <1>7
  <2>4. o1 * f + o2 * g + o3 * h = (o1 + o2 + o3) * 0
    BY <2>2 DEF Blends
  <2> QED
    BY <2>3, <2>4
<1>10. o1 * f \in Int /\ o2 * g \in Int /\ o3 * h \in Int
  OBVIOUS
<1>11. ~(f > 0 /\ g > 0 /\ h > 0)
  <2>1. SUFFICES ASSUME f > 0, g > 0, h > 0 PROVE FALSE
    OBVIOUS
  <2>2. o1 * f > 0 /\ o2 * g > 0 /\ o3 * h > 0
    BY <2>1, <1>8, Products
  <2> QED
    BY <2>2, <1>9, <1>10
<1>12. ~(f <= 0 /\ g <= 0 /\ h <= 0)
  <2>1. SUFFICES ASSUME f <= 0, g <= 0, h <= 0 PROVE FALSE
    OBVIOUS
  <2>2. o1 * f <= 0 /\ o2 * g <= 0 /\ o3 * h <= 0
    BY <2>1, <1>8, Products
  <2>3. o1 * f = 0 /\ o2 * g = 0 /\ o3 * h = 0
    BY <2>2, <1>9, <1>10
  <2>4. ~(f < 0) /\ ~(g < 0) /\ ~(h < 0)
    BY <2>3, <1>8, Products
  <2>5. f = 0 /\ g = 0 /\ h = 0
    BY <2>1, <2>4
  <2>6. a[2] = b[2] /\ b[2] = c[2]
    BY <2>5, <1>2, <1>3, <1>4 DEF Point
  <2>7. Orientation(a, b, c) = 0
    BY <2>6, LevelIsNoTurn
  <2> QED
    BY <2>7, <1>8, <1>9
<1>13. /\ Crosses(p, a, b) <=> f <= 0 /\ g > 0
       /\ Crosses(p, b, c) <=> g <= 0 /\ h > 0
       /\ Crosses(p, c, a) <=> h <= 0 /\ f > 0
  BY CrossesUpwards, <1>2, <1>3, <1>4 DEF Point
<1>14. DEFINE polygon == <<a, b, c>>
<1>15. /\ Len(polygon) = 3
       /\ Edge(polygon, 1) = <<a, b>> /\ Edge(polygon, 2) = <<b, c>> /\ Edge(polygon, 3) = <<c, a>>
  BY DEF Edge
<1>16. DEFINE C == {i \in 1..Len(polygon) : Crosses(p, Edge(polygon, i)[1], Edge(polygon, i)[2])}
<1>17. \A i : i \in C <=> \/ i = 1 /\ Crosses(p, a, b)
                          \/ i = 2 /\ Crosses(p, b, c)
                          \/ i = 3 /\ Crosses(p, c, a)
  <2>1. \A i : i \in 1..3 <=> i = 1 \/ i = 2 \/ i = 3
    OBVIOUS
  <2> HIDE DEF polygon
  <2> QED
    BY <2>1, <1>15
<1>18. \E i : C = {i}
  <2> HIDE DEF C
  <2>1. \/ \A j : j \in C <=> j = 1
        \/ \A j : j \in C <=> j = 2
        \/ \A j : j \in C <=> j = 3
    BY <1>11, <1>12, <1>13, <1>17
  <2>2. \A i : (\A j : j \in C <=> j = i) => C = {i}
    <3>1. SUFFICES ASSUME NEW i, \A j : j \in C <=> j = i PROVE C = {i}
      OBVIOUS
    <3>2. \A j : j \in C <=> j \in {i}
      BY <3>1
    <3> QED
      BY <3>2
  <2>3. CASE \A j : j \in C <=> j = 1
    <3>1. C = {1}
      BY <2>2, <2>3
    <3> QED
      BY <3>1
  <2>4. CASE \A j : j \in C <=> j = 2
    <3>1. C = {2}
      BY <2>2, <2>4
    <3> QED
      BY <3>1
  <2>5. CASE \A j : j \in C <=> j = 3
    <3>1. C = {3}
      BY <2>2, <2>5
    <3> QED
      BY <3>1
  <2> QED
    BY <2>1, <2>3, <2>4, <2>5
<1>19. Cardinality(C) = 1
  <2> HIDE DEF C
  <2> QED
    BY <1>18, FS_Singleton
<1> QED
  BY <1>19 DEF InPolygon

LEMMA QuadIsEntered ==
    ASSUME NEW a \in Point, NEW b \in Point, NEW c \in Point, NEW d \in Point, NEW p \in Point,
           Quad(a, b, c, d),
           Orientation(a, b, p) > 0, Orientation(b, c, p) > 0,
           Orientation(c, d, p) > 0, Orientation(d, a, p) > 0
    PROVE  InPolygon(p, <<a, b, c, d>>)
<1>1. PICK u, v \in Point : \A q \in Point : Orientation(u, v, q) = q[2] - p[2]
  BY HeightIsSide
<1>2. PICK f \in Int : f = a[2] - p[2] BY DEF Point
<1>3. PICK g \in Int : g = b[2] - p[2] BY DEF Point
<1>4. PICK h \in Int : h = c[2] - p[2] BY DEF Point
<1>5. PICK k \in Int : k = d[2] - p[2] BY DEF Point
<1>6. PICK o1 \in Int : o1 = Orientation(a, b, c) BY TurnIs
<1>7. PICK o2 \in Int : o2 = Orientation(b, c, d) BY TurnIs
<1>8. PICK o3 \in Int : o3 = Orientation(a, c, d) BY TurnIs
<1>9. PICK o4 \in Int : o4 = Orientation(a, b, d) BY TurnIs
<1>10. o1 > 0 /\ o2 > 0 /\ o3 > 0 /\ o4 > 0
  BY <1>6, <1>7, <1>8, <1>9, TurnsAgree DEF Quad
<1>11. /\ Orientation(u, v, a) = f /\ Orientation(u, v, b) = g
       /\ Orientation(u, v, c) = h /\ Orientation(u, v, d) = k
       /\ Orientation(u, v, p) = 0
  <2>1. p[2] - p[2] = 0
    BY DEF Point
  <2> QED
    BY <1>1, <1>2, <1>3, <1>4, <1>5, <2>1
<1>12. o2 * f + o4 * h = o3 * g + o1 * k
  <2>1. Balance(f, g, h, k, a, b, c, d)
    BY SidesBalance, <1>11
  <2> QED
    BY <2>1, <1>6, <1>7, <1>8, <1>9 DEF Balance
<1>13. o2 * f \in Int /\ o4 * h \in Int /\ o3 * g \in Int /\ o1 * k \in Int
  OBVIOUS
<1>14. ~(f > 0 /\ g > 0 /\ h > 0 /\ k > 0)
  <2>1. LeftOfQuad(p, a, b, c, d)
    BY TurnIs DEF LeftOfQuad
  <2>2. QuadSigned(f, g, h, k, 0)
    BY <2>1, <1>11, InQuad
  <2> QED
    BY <2>2 DEF QuadSigned
<1>15. ~(f <= 0 /\ h <= 0 /\ g > 0 /\ k > 0)
  <2>1. SUFFICES ASSUME f <= 0, h <= 0, g > 0, k > 0 PROVE FALSE
    OBVIOUS
  <2>2. o2 * f <= 0 /\ o4 * h <= 0 /\ o3 * g > 0 /\ o1 * k > 0
    BY <2>1, <1>10, Products
  <2> QED
    BY <2>2, <1>12, <1>13
<1>16. ~(f > 0 /\ h > 0 /\ g <= 0 /\ k <= 0)
  <2>1. SUFFICES ASSUME f > 0, h > 0, g <= 0, k <= 0 PROVE FALSE
    OBVIOUS
  <2>2. o2 * f > 0 /\ o4 * h > 0 /\ o3 * g <= 0 /\ o1 * k <= 0
    BY <2>1, <1>10, Products
  <2> QED
    BY <2>2, <1>12, <1>13
<1>17. ~(f <= 0 /\ g <= 0 /\ h <= 0 /\ k <= 0)
  <2>1. SUFFICES ASSUME f <= 0, g <= 0, h <= 0, k <= 0 PROVE FALSE
    OBVIOUS
  <2>2. f = 0 /\ h = 0
    <3>1. Orientation(c, a, p) = -Orientation(a, c, p) /\ Orientation(a, c, p) \in Int
      BY TurnsAgree, TurnIs
    <3>2. CASE Orientation(a, c, p) <= 0
      <4>1. PICK w1 \in Int : w1 = Orientation(b, c, p) BY TurnIs
      <4>2. PICK w2 \in Int : w2 = Orientation(c, a, p) BY TurnIs
      <4>3. PICK w3 \in Int : w3 = Orientation(a, b, p) BY TurnIs
      <4>4. Blends(w1, w2, w3, f, g, h, 0)
        BY TriangleBlends, <1>11, <4>1, <4>2, <4>3
      <4>5. w1 * f + w2 * g + w3 * h = 0
        BY <4>4 DEF Blends
      <4>6. w1 > 0 /\ w2 >= 0 /\ w3 > 0
        BY <3>1, <3>2, <4>1, <4>2, <4>3
      <4>7. w1 * f <= 0 /\ w2 * g <= 0 /\ w3 * h <= 0
        BY <2>1, <4>6, Products
      <4>8. w1 * f \in Int /\ w2 * g \in Int /\ w3 * h \in Int
        OBVIOUS
      <4>9. w1 * f = 0 /\ w3 * h = 0
        BY <4>5, <4>7, <4>8
      <4>10. ~(f < 0) /\ ~(h < 0)
        BY <4>6, <4>9, Products
      <4> QED
        BY <2>1, <4>10
    <3>3. CASE Orientation(a, c, p) >= 0
      <4>1. PICK w1 \in Int : w1 = Orientation(c, d, p) BY TurnIs
      <4>2. PICK w2 \in Int : w2 = Orientation(d, a, p) BY TurnIs
      <4>3. PICK w3 \in Int : w3 = Orientation(a, c, p) BY TurnIs
      <4>4. Blends(w1, w2, w3, f, h, k, 0)
        BY TriangleBlends, <1>11, <4>1, <4>2, <4>3
      <4>5. w1 * f + w2 * h + w3 * k = 0
        BY <4>4 DEF Blends
      <4>6. w1 > 0 /\ w2 > 0 /\ w3 >= 0
        BY <3>1, <3>3, <4>1, <4>2, <4>3
      <4>7. w1 * f <= 0 /\ w2 * h <= 0 /\ w3 * k <= 0
        BY <2>1, <4>6, Products
      <4>8. w1 * f \in Int /\ w2 * h \in Int /\ w3 * k \in Int
        OBVIOUS
      <4>9. w1 * f = 0 /\ w2 * h = 0
        BY <4>5, <4>7, <4>8
      <4>10. ~(f < 0) /\ ~(h < 0)
        BY <4>6, <4>9, Products
      <4> QED
        BY <2>1, <4>10
    <3> QED
      BY <3>1, <3>2, <3>3
  <2>3. o3 * g + o1 * k = 0
    BY <2>2, <1>12
  <2>4. o3 * g <= 0 /\ o1 * k <= 0
    BY <2>1, <1>10, Products
  <2>5. o3 * g = 0 /\ o1 * k = 0
    BY <2>3, <2>4, <1>13
  <2>6. ~(g < 0)
    BY <2>5, <1>10, Products
  <2>7. a[2] = b[2] /\ b[2] = c[2]
    BY <2>1, <2>2, <2>6, <1>2, <1>3, <1>4 DEF Point
  <2>8. Orientation(a, b, c) = 0
    BY <2>7, LevelIsNoTurn
  <2> QED
    BY <2>8, <1>6, <1>10
<1>18. /\ Crosses(p, a, b) <=> f <= 0 /\ g > 0
       /\ Crosses(p, b, c) <=> g <= 0 /\ h > 0
       /\ Crosses(p, c, d) <=> h <= 0 /\ k > 0
       /\ Crosses(p, d, a) <=> k <= 0 /\ f > 0
  BY CrossesUpwards, <1>2, <1>3, <1>4, <1>5 DEF Point
<1>19. DEFINE polygon == <<a, b, c, d>>
<1>20. /\ Len(polygon) = 4
       /\ Edge(polygon, 1) = <<a, b>> /\ Edge(polygon, 2) = <<b, c>>
       /\ Edge(polygon, 3) = <<c, d>> /\ Edge(polygon, 4) = <<d, a>>
  BY DEF Edge
<1>21. DEFINE C == {i \in 1..Len(polygon) : Crosses(p, Edge(polygon, i)[1], Edge(polygon, i)[2])}
<1>22. \A i : i \in C <=> \/ i = 1 /\ Crosses(p, a, b)
                          \/ i = 2 /\ Crosses(p, b, c)
                          \/ i = 3 /\ Crosses(p, c, d)
                          \/ i = 4 /\ Crosses(p, d, a)
  <2>1. \A i : i \in 1..4 <=> i = 1 \/ i = 2 \/ i = 3 \/ i = 4
    OBVIOUS
  <2> HIDE DEF polygon
  <2> QED
    BY <2>1, <1>20
<1>23. \E i : C = {i}
  <2> HIDE DEF C
  <2>1. \/ \A j : j \in C <=> j = 1
        \/ \A j : j \in C <=> j = 2
        \/ \A j : j \in C <=> j = 3
        \/ \A j : j \in C <=> j = 4
    BY <1>14, <1>15, <1>16, <1>17, <1>18, <1>22
  <2>2. \A i : (\A j : j \in C <=> j = i) => C = {i}
    <3>1. SUFFICES ASSUME NEW i, \A j : j \in C <=> j = i PROVE C = {i}
      OBVIOUS
    <3>2. \A j : j \in C <=> j \in {i}
      BY <3>1
    <3> QED
      BY <3>2
  <2>3. CASE \A j : j \in C <=> j = 1
    <3>1. C = {1}
      BY <2>2, <2>3
    <3> QED
      BY <3>1
  <2>4. CASE \A j : j \in C <=> j = 2
    <3>1. C = {2}
      BY <2>2, <2>4
    <3> QED
      BY <3>1
  <2>5. CASE \A j : j \in C <=> j = 3
    <3>1. C = {3}
      BY <2>2, <2>5
    <3> QED
      BY <3>1
  <2>6. CASE \A j : j \in C <=> j = 4
    <3>1. C = {4}
      BY <2>2, <2>6
    <3> QED
      BY <3>1
  <2> QED
    BY <2>1, <2>3, <2>4, <2>5, <2>6
<1>24. Cardinality(C) = 1
  <2> HIDE DEF C
  <2> QED
    BY <1>23, FS_Singleton
<1> QED
  BY <1>24 DEF InPolygon

-----------------------------------------------------------------------------
(* A hull that is a segment.                                               *)

On(a, b, p) == Orientation(a, b, p) = 0 /\ OnSegment(a, b, p)

LEMMA OneLine ==
    ASSUME NEW a \in Point, NEW b \in Point, a # b,
           NEW p \in Point, NEW q \in Point, NEW r \in Point,
           Orientation(a, b, p) = 0, Orientation(a, b, q) = 0, Orientation(a, b, r) = 0
    PROVE  Orientation(p, q, r) = 0
<1>1. PICK i \in 1..2 : a[i] # b[i]
  <2>1. a[1] # b[1] \/ a[2] # b[2]
    BY DEF Point
  <2> QED
    BY <2>1
<1>2. PICK D \in Int : D = b[i] - a[i] BY DEF Point
<1>3. D # 0
  BY <1>1, <1>2 DEF Point
<1>4. PICK f \in Int : f = Orientation(p, q, a) BY TurnIs
<1>5. PICK K \in Int : K = Orientation(p, q, b) - f BY TurnIs
<1>6. PICK h \in Int : h = Orientation(p, q, r) BY TurnIs
<1>7. PICK s \in Int : s = p[i] - a[i] BY DEF Point
<1>8. PICK t \in Int : t = q[i] - a[i] BY DEF Point
<1>9. PICK w \in Int : w = r[i] - a[i] BY DEF Point
<1>10. /\ D * (Orientation(p, q, p) - f) = s * K
       /\ D * (Orientation(p, q, q) - f) = t * K
       /\ D * (h - f) = w * K
  BY SideAlong, <1>2, <1>4, <1>5, <1>6, <1>7, <1>8, <1>9
<1>11. Orientation(p, q, p) = 0 /\ Orientation(p, q, q) = 0
  BY NoTurn
<1>12. D * (0 - f) = s * K /\ D * (0 - f) = t * K
  BY <1>10, <1>11
<1>13. CASE K = 0
  <2>1. D * (0 - f) = 0 /\ D * (h - f) = 0
    BY <1>10, <1>12, <1>13
  <2>2. f = 0 /\ h = 0
    BY <2>1, <1>3
  <2> QED
    BY <2>2, <1>6
<1>14. CASE K # 0
  <2>1. s = t
    BY <1>12, <1>14
  <2>2. p[i] = q[i]
    <3>1. p[i] \in Int /\ q[i] \in Int /\ a[i] \in Int
      BY DEF Point
    <3>2. p[i] - a[i] = q[i] - a[i]
      BY <2>1, <1>7, <1>8
    <3> QED
      BY <3>1, <3>2
  <2>3. p = q
    <3>1. PICK j \in 1..2 : j # i
      BY DEF Point
    <3>2. PICK e \in Int : e = b[j] - a[j]
      BY DEF Point
    <3>3. \A x \in Point : Orientation(a, b, x) = 0 => D * (x[j] - a[j]) = e * (x[i] - a[i])
      <4>1. SUFFICES ASSUME NEW x \in Point, Orientation(a, b, x) = 0
                     PROVE  D * (x[j] - a[j]) = e * (x[i] - a[i])
        OBVIOUS
      <4>2. (b[1] - a[1]) * (x[2] - a[2]) - (b[2] - a[2]) * (x[1] - a[1]) = 0
        BY <4>1, TurnIs
      <4>3. /\ (b[1] - a[1]) * (x[2] - a[2]) \in Int
            /\ (b[2] - a[2]) * (x[1] - a[1]) \in Int
        BY DEF Point
      <4>4. (b[1] - a[1]) * (x[2] - a[2]) = (b[2] - a[2]) * (x[1] - a[1])
        BY <4>2, <4>3
      <4>5. (i = 1 /\ j = 2) \/ (i = 2 /\ j = 1)
        BY <3>1
      <4> QED
        BY <4>4, <4>5, <1>2, <3>2
    <3>4. D * (p[j] - a[j]) = e * s /\ D * (q[j] - a[j]) = e * s
      BY <3>3, <1>7, <1>8, <2>1
    <3>5. p[j] - a[j] = q[j] - a[j]
      <4>1. \A x, y \in Int : D * x = D * y => x = y
        BY <1>3
      <4>2. p[j] - a[j] \in Int /\ q[j] - a[j] \in Int
        BY DEF Point
      <4>3. D * (p[j] - a[j]) = D * (q[j] - a[j])
        BY <3>4
      <4> QED
        BY <4>1, <4>2, <4>3
    <3>6. p[j] = q[j]
      BY <3>5 DEF Point
    <3> QED
      BY <2>2, <3>1, <3>6 DEF Point
  <2> QED
    BY <2>3, NoTurn
<1> QED
  BY <1>13, <1>14

(* On a line, places that agree in a coordinate that tells them apart.     *)
LEMMA LineHides ==
    ASSUME NEW a \in Point, NEW b \in Point, a # b,
           NEW g \in Point, NEW e \in Point, NEW c \in Point, NEW d \in Point,
           On(a, b, g), On(a, b, e), ~Contact(c, d, a, b)
    PROVE  ~Contact(g, e, c, d)
<1>1. SUFFICES ASSUME Contact(g, e, c, d) PROVE FALSE
  OBVIOUS
<1>2. CASE Orientation(a, b, c) = 0 /\ Orientation(a, b, d) = 0
  <2>1. PICK i \in 1..2 : a[i] # b[i]
    <3>1. a[1] # b[1] \/ a[2] # b[2]
      BY DEF Point
    <3> QED
      BY <3>1
  <2>2. Orientation(a, b, a) = 0 /\ Orientation(a, b, b) = 0
    BY NoTurn
  <2>3. Collinear(g, e, c, d) /\ Collinear(c, d, a, b)
    BY <1>2, <2>2, OneLine DEF Collinear, On
  <2>4. PICK p \in {g, e, c, d} : OnSegment(g, e, p) /\ OnSegment(c, d, p)
    BY <1>1, <2>3 DEF Contact
  <2>5. /\ a[i] \in Int /\ b[i] \in Int /\ c[i] \in Int /\ d[i] \in Int
        /\ g[i] \in Int /\ e[i] \in Int /\ p[i] \in Int
    BY <2>4 DEF Point
  <2>6. \A x, y, z \in Point : OnSegment(x, y, z) =>
           (x[i] <= z[i] /\ z[i] <= y[i]) \/ (y[i] <= z[i] /\ z[i] <= x[i])
    <3>1. \A x, y, z \in Point : /\ x[i] \in Int /\ y[i] \in Int /\ z[i] \in Int
      BY DEF Point
    <3> QED
      BY <3>1 DEF OnSegment, Lesser, Greater
  <2>7. /\ (a[i] <= g[i] /\ g[i] <= b[i]) \/ (b[i] <= g[i] /\ g[i] <= a[i])
        /\ (a[i] <= e[i] /\ e[i] <= b[i]) \/ (b[i] <= e[i] /\ e[i] <= a[i])
        /\ (g[i] <= p[i] /\ p[i] <= e[i]) \/ (e[i] <= p[i] /\ p[i] <= g[i])
        /\ (c[i] <= p[i] /\ p[i] <= d[i]) \/ (d[i] <= p[i] /\ p[i] <= c[i])
    <3>1. p \in Point
      BY <2>4
    <3> QED
      BY <2>4, <2>6, <3>1 DEF On
  <2>8. \A p1 \in {c, d, a, b} : ~(OnSegment(c, d, p1) /\ OnSegment(a, b, p1))
    BY <2>3 DEF Contact
  <2>9. \A q, r \in Point : OnSegment(q, r, q) /\ OnSegment(q, r, r)
    BY DEF OnSegment, Lesser, Greater, Point
  <2>10. ~OnSegment(a, b, c) /\ ~OnSegment(a, b, d) /\ ~OnSegment(c, d, a) /\ ~OnSegment(c, d, b)
    BY <2>8, <2>9
  <2>11. /\ ~((a[i] <= c[i] /\ c[i] <= b[i]) \/ (b[i] <= c[i] /\ c[i] <= a[i]))
         /\ ~((a[i] <= d[i] /\ d[i] <= b[i]) \/ (b[i] <= d[i] /\ d[i] <= a[i]))
    BY <1>2, <2>1, <2>10, BetweenIs
  <2>12. Orientation(c, d, a) = 0 /\ Orientation(c, d, b) = 0
    BY <2>3 DEF Collinear
  <2>13. c[i] # d[i] => ~((c[i] <= a[i] /\ a[i] <= d[i]) \/ (d[i] <= a[i] /\ a[i] <= c[i]))
    BY <2>10, <2>12, BetweenIs
  <2>14. PICK x1 \in Int : x1 = a[i] BY <2>5
  <2>15. PICK x2 \in Int : x2 = b[i] BY <2>5
  <2>16. PICK x3 \in Int : x3 = c[i] BY <2>5
  <2>17. PICK x4 \in Int : x4 = d[i] BY <2>5
  <2>18. PICK x5 \in Int : x5 = g[i] BY <2>5
  <2>19. PICK x6 \in Int : x6 = e[i] BY <2>5
  <2>20. PICK x7 \in Int : x7 = p[i] BY <2>5
  <2> QED
    BY <2>7, <2>11, <2>13, <2>14, <2>15, <2>16, <2>17, <2>18, <2>19, <2>20
<1>3. CASE ~(Orientation(a, b, c) = 0 /\ Orientation(a, b, d) = 0)
  <2>1. ~Collinear(c, d, a, b)
    BY <1>3 DEF Collinear
  <2>2. \/ OneSide(Orientation(c, d, a), Orientation(c, d, b))
        \/ OneSide(Orientation(a, b, c), Orientation(a, b, d))
    BY <2>1 DEF Contact
  <2>3. ~OneSide(Orientation(a, b, c), Orientation(a, b, d))
    <3>1. Orientation(a, b, g) >= 0 /\ Orientation(a, b, e) >= 0
      BY DEF On
    <3>2. ~(Orientation(a, b, c) < 0 /\ Orientation(a, b, d) < 0)
      BY <1>1, <3>1, Apart
    <3>3. /\ Orientation(b, a, g) >= 0 /\ Orientation(b, a, e) >= 0
          /\ Orientation(b, a, c) = -Orientation(a, b, c)
          /\ Orientation(b, a, d) = -Orientation(a, b, d)
      <4>1. \A q \in Point : /\ Orientation(b, a, q) = -Orientation(a, b, q)
                             /\ Orientation(a, b, q) \in Int
        BY TurnsAgree, TurnIs
      <4> QED
        BY <4>1 DEF On
    <3>4. ~(Orientation(b, a, c) < 0 /\ Orientation(b, a, d) < 0)
      BY <1>1, <3>3, Apart
    <3>5. Orientation(a, b, c) \in Int /\ Orientation(a, b, d) \in Int
      BY TurnIs
    <3> QED
      BY <3>2, <3>3, <3>4, <3>5 DEF OneSide
  <2>4. ~OneSide(Orientation(c, d, g), Orientation(c, d, e))
    BY <1>1, EndsStraddle
  <2>5. \A q \in {g, e} :
           /\ Orientation(c, d, a) > 0 /\ Orientation(c, d, b) > 0 => Orientation(c, d, q) > 0
           /\ Orientation(c, d, a) < 0 /\ Orientation(c, d, b) < 0 => Orientation(c, d, q) < 0
    <3>1. SUFFICES ASSUME NEW q \in Point, On(a, b, q)
                   PROVE  /\ Orientation(c, d, a) > 0 /\ Orientation(c, d, b) > 0
                                => Orientation(c, d, q) > 0
                          /\ Orientation(c, d, a) < 0 /\ Orientation(c, d, b) < 0
                                => Orientation(c, d, q) < 0
      OBVIOUS
    <3>2. PICK k, l \in Nat : /\ k + l > 0
                              /\ \A x, y \in Point : Mixes(k, l, Orientation(x, y, q),
                                    Orientation(x, y, a), Orientation(x, y, b))
      BY <3>1, SegmentMixes DEF On
    <3>3. Mixes(k, l, Orientation(c, d, q), Orientation(c, d, a), Orientation(c, d, b))
      BY <3>2
    <3>4. /\ Orientation(c, d, q) \in Int /\ Orientation(c, d, a) \in Int
          /\ Orientation(c, d, b) \in Int
      BY TurnIs, <3>1
    <3> QED
      BY <3>2, <3>3, <3>4, MixSigns
  <2> QED
    BY <2>2, <2>3, <2>4, <2>5 DEF OneSide
<1> QED
  BY <1>2, <1>3

-----------------------------------------------------------------------------
(* The shapes of an envelope, and what it hides.                           *)

(* The hull of points is a point, a segment, a triangle or a quadrangle,   *)
(* and all of the points are in it.                                        *)
Around(hull, points) ==
    \/ \E a \in points : hull = <<a>> /\ points = {a}
    \/ \E a, b \in points : hull = <<a, b>> /\ a # b /\ \A p \in points : On(a, b, p)
    \/ \E a, b, c \in points : /\ hull = <<a, b, c>> /\ Orientation(a, b, c) > 0
                               /\ \A p \in points : LeftOfTriangle(p, a, b, c)
    \/ \E a, b, c, d \in points : /\ hull = <<a, b, c, d>> /\ Quad(a, b, c, d)
                                  /\ \A p \in points : LeftOfQuad(p, a, b, c, d)

(* In the span of two points: what is true of the segment.                 *)
LEMMA SpanIsLeft ==
    ASSUME NEW p \in Point, NEW q \in Point, NEW g \in Point, On(p, q, g),
           NEW a \in Point, NEW b \in Point,
           Orientation(a, b, p) >= 0, Orientation(a, b, q) >= 0
    PROVE  Orientation(a, b, g) >= 0
<1>1. PICK k, l \in Nat : /\ k + l > 0
                          /\ \A x, y \in Point : Mixes(k, l, Orientation(x, y, g),
                                Orientation(x, y, p), Orientation(x, y, q))
  BY SegmentMixes DEF On
<1>2. Mixes(k, l, Orientation(a, b, g), Orientation(a, b, p), Orientation(a, b, q))
  BY <1>1
<1> QED
  BY <1>1, <1>2, MixSigns, TurnIs

LEMMA SpanIsOn ==
    ASSUME NEW p \in Point, NEW q \in Point, NEW g \in Point, On(p, q, g),
           NEW a \in Point, NEW b \in Point, On(a, b, p), On(a, b, q)
    PROVE  On(a, b, g)
<1>1. PICK k, l \in Nat : /\ k + l > 0
                          /\ \A x, y \in Point : Mixes(k, l, Orientation(x, y, g),
                                Orientation(x, y, p), Orientation(x, y, q))
  BY SegmentMixes DEF On
<1>2. Mixes(k, l, Orientation(a, b, g), 0, 0)
  BY <1>1 DEF On
<1>3. Orientation(a, b, g) = 0
  <2>1. PICK f \in Int : f = Orientation(a, b, g) BY TurnIs
  <2>2. PICK n \in Nat : n = k + l OBVIOUS
  <2>3. n * f = k * 0 + l * 0
    BY <1>2, <2>1, <2>2 DEF Mixes
  <2>4. n * f = 0 /\ n > 0
    BY <1>1, <2>2, <2>3
  <2>5. f = 0
    BY <2>4
  <2> QED
    BY <2>1, <2>5
<1>4. OnSegment(a, b, g)
  <2>1. \A x \in Point : x[1] \in Int /\ x[2] \in Int
    BY DEF Point
  <2> QED
    BY <2>1 DEF On, OnSegment, Lesser, Greater
<1> QED
  BY <1>3, <1>4 DEF On

LEMMA EnvelopeHides ==
    ASSUME NEW points \in SUBSET Point, Around(ConvexHull(points), points),
           NEW c \in Point, NEW d \in Point, ~MeetsEnvelope(<<c, d>>, points),
           NEW p1 \in points, NEW q1 \in points, NEW g \in Point, On(p1, q1, g),
           NEW p2 \in points, NEW q2 \in points, NEW e \in Point, On(p2, q2, e)
    PROVE  ~Contact(g, e, c, d)
<1>1. PICK hull : hull = ConvexHull(points) OBVIOUS
<1>2. /\ ~(Len(hull) >= 3 /\ InPolygon(c, hull))
      /\ \A i \in 1..Len(hull) : ~Contact(c, d, Edge(hull, i)[1], Edge(hull, i)[2])
  BY <1>1 DEF MeetsEnvelope
<1>3. ASSUME NEW a \in points, hull = <<a>>, points = {a} PROVE ~Contact(g, e, c, d)
  <2>1. g = a /\ e = a
    <3>1. p1 = a /\ q1 = a /\ p2 = a /\ q2 = a
      BY <1>3
    <3>2. \A x, y \in Point : OnSegment(x, x, y) => y = x
      <4>1. \A x, y \in Point : OnSegment(x, x, y) => y[1] = x[1] /\ y[2] = x[2]
        BY DEF OnSegment, Lesser, Greater, Point
      <4> QED
        BY <4>1 DEF Point
    <3> QED
      BY <3>1, <3>2 DEF On
  <2>2. Len(hull) = 1 /\ Edge(hull, 1) = <<a, a>>
    BY <1>3 DEF Edge
  <2>3. ~Contact(c, d, a, a)
    BY <1>2, <2>2
  <2> QED
    BY <2>1, <2>3, ContactIsMutual
<1>4. ASSUME NEW a \in points, NEW b \in points, hull = <<a, b>>, a # b,
             \A p \in points : On(a, b, p)
      PROVE  ~Contact(g, e, c, d)
  <2>1. Len(hull) = 2 /\ Edge(hull, 1) = <<a, b>>
    BY <1>4 DEF Edge
  <2>2. ~Contact(c, d, a, b)
    BY <1>2, <2>1
  <2>3. On(a, b, g) /\ On(a, b, e)
    BY <1>4, SpanIsOn
  <2> QED
    BY <1>4, <2>2, <2>3, LineHides
<1>5. ASSUME NEW x \in points, NEW y \in points, NEW z \in points, hull = <<x, y, z>>,
             Orientation(x, y, z) > 0, \A p \in points : LeftOfTriangle(p, x, y, z)
      PROVE  ~Contact(g, e, c, d)
  <2>1. /\ Len(hull) = 3 /\ Edge(hull, 1) = <<x, y>> /\ Edge(hull, 2) = <<y, z>>
        /\ Edge(hull, 3) = <<z, x>>
    BY <1>5 DEF Edge
  <2>2. ~Contact(c, d, x, y) /\ ~Contact(c, d, y, z) /\ ~Contact(c, d, z, x)
    BY <1>2, <2>1
  <2>3. LeftOfTriangle(g, x, y, z) /\ LeftOfTriangle(e, x, y, z)
    BY <1>5, SpanIsLeft DEF LeftOfTriangle
  <2>4. SUFFICES ASSUME Contact(g, e, c, d) PROVE FALSE
    OBVIOUS
  <2>5. Orientation(x, y, c) > 0
    BY <1>5, <2>2, <2>3, <2>4, TriangleSide
  <2>6. /\ Orientation(y, z, x) > 0 /\ Orientation(z, x, y) > 0
        /\ LeftOfTriangle(g, y, z, x) /\ LeftOfTriangle(e, y, z, x)
        /\ LeftOfTriangle(g, z, x, y) /\ LeftOfTriangle(e, z, x, y)
    BY <1>5, <2>3, TurnsAgree DEF LeftOfTriangle
  <2>7. Orientation(y, z, c) > 0
    BY <2>2, <2>4, <2>6, TriangleSide
  <2>8. Orientation(z, x, c) > 0
    BY <2>2, <2>4, <2>6, TriangleSide
  <2>9. InPolygon(c, hull)
    BY <1>5, <2>5, <2>7, <2>8, TriangleIsEntered
  <2> QED
    BY <2>1, <2>9, <1>2
<1>6. ASSUME NEW w \in points, NEW x \in points, NEW y \in points, NEW z \in points,
             hull = <<w, x, y, z>>, Quad(w, x, y, z), \A p \in points : LeftOfQuad(p, w, x, y, z)
      PROVE  ~Contact(g, e, c, d)
  <2>1. /\ Len(hull) = 4 /\ Edge(hull, 1) = <<w, x>> /\ Edge(hull, 2) = <<x, y>>
        /\ Edge(hull, 3) = <<y, z>> /\ Edge(hull, 4) = <<z, w>>
    BY <1>6 DEF Edge
  <2>2. /\ ~Contact(c, d, w, x) /\ ~Contact(c, d, x, y) /\ ~Contact(c, d, y, z)
        /\ ~Contact(c, d, z, w)
    BY <1>2, <2>1
  <2>3. LeftOfQuad(g, w, x, y, z) /\ LeftOfQuad(e, w, x, y, z)
    BY <1>6, SpanIsLeft DEF LeftOfQuad
  <2>4. SUFFICES ASSUME Contact(g, e, c, d) PROVE FALSE
    OBVIOUS
  <2>5. /\ Quad(x, y, z, w) /\ LeftOfQuad(g, x, y, z, w) /\ LeftOfQuad(e, x, y, z, w)
        /\ Quad(y, z, w, x) /\ LeftOfQuad(g, y, z, w, x) /\ LeftOfQuad(e, y, z, w, x)
        /\ Quad(z, w, x, y) /\ LeftOfQuad(g, z, w, x, y) /\ LeftOfQuad(e, z, w, x, y)
    BY <1>6, <2>3 DEF Quad, LeftOfQuad
  <2>6. Orientation(w, x, c) > 0
    BY <1>6, <2>2, <2>3, <2>4, QuadSide
  <2>7. Orientation(x, y, c) > 0
    BY <2>2, <2>4, <2>5, QuadSide
  <2>8. Orientation(y, z, c) > 0
    BY <2>2, <2>4, <2>5, QuadSide
  <2>9. Orientation(z, w, c) > 0
    BY <2>2, <2>4, <2>5, QuadSide
  <2>10. InPolygon(c, hull)
    BY <1>6, <2>6, <2>7, <2>8, <2>9, QuadIsEntered
  <2> QED
    BY <2>1, <2>10, <1>2
<1> QED
  BY <1>1, <1>3, <1>4, <1>5, <1>6 DEF Around

-----------------------------------------------------------------------------
(* Sorted points.                                                          *)

LEMMA LeftBelowOrders ==
    \A p, q, r \in Point :
        /\ ~LeftBelow(p, p)
        /\ LeftBelow(p, q) /\ LeftBelow(q, r) => LeftBelow(p, r)
        /\ p # q => LeftBelow(p, q) \/ LeftBelow(q, p)
<1>1. \A p \in Point : p[1] \in Int /\ p[2] \in Int
  BY DEF Point
<1>2. \A p, q \in Point : p # q => p[1] # q[1] \/ p[2] # q[2]
  BY DEF Point
<1> QED
  BY <1>1, <1>2 DEF LeftBelow

LEMMA SortedIs ==
    ASSUME NEW points \in SUBSET Point, IsFiniteSet(points)
    PROVE  LET n == Cardinality(points)
               s == Sorted(points)
           IN  /\ n \in Nat
               /\ s \in [1..n -> points]
               /\ \A p \in points : \E i \in 1..n : s[i] = p
               /\ \A i, j \in 1..n : i < j => LeftBelow(s[i], s[j])
<1>1. PICK n \in Nat : n = Cardinality(points)
  BY FS_CardinalityType
<1> DEFINE Before(p) == {q \in points : LeftBelow(q, p)}
           rank == [p \in points |-> Cardinality(Before(p))]
<1>2. \A p \in points : /\ Before(p) \subseteq points \ {p}
                        /\ IsFiniteSet(Before(p))
                        /\ Cardinality(Before(p)) \in 0..(n - 1)
  <2>1. SUFFICES ASSUME NEW p \in points
                 PROVE  /\ Before(p) \subseteq points \ {p}
                        /\ IsFiniteSet(Before(p))
                        /\ Cardinality(Before(p)) \in 0..(n - 1)
    OBVIOUS
  <2>2. Before(p) \subseteq points \ {p}
    BY LeftBelowOrders
  <2>3. IsFiniteSet(points \ {p}) /\ Cardinality(points \ {p}) = n - 1
    BY FS_RemoveElement, <1>1
  <2>4. IsFiniteSet(Before(p)) /\ Cardinality(Before(p)) <= n - 1
    BY <2>2, <2>3, FS_Subset
  <2>5. Cardinality(Before(p)) \in Nat
    BY <2>4, FS_CardinalityType
  <2> QED
    BY <2>2, <2>4, <2>5
<1>3. \A p, q \in points : LeftBelow(p, q) => rank[p] < rank[q]
  <2>1. SUFFICES ASSUME NEW p \in points, NEW q \in points, LeftBelow(p, q)
                 PROVE  rank[p] < rank[q]
    OBVIOUS
  <2>2. Before(p) \subseteq Before(q)
    BY <2>1, LeftBelowOrders
  <2>3. p \in Before(q) /\ p \notin Before(p)
    BY <2>1, LeftBelowOrders
  <2>4. /\ Cardinality(Before(p)) <= Cardinality(Before(q))
        /\ Cardinality(Before(p)) # Cardinality(Before(q))
    BY <1>2, <2>2, <2>3, FS_Subset
  <2>5. rank[p] = Cardinality(Before(p)) /\ rank[q] = Cardinality(Before(q))
    OBVIOUS
  <2>6. Cardinality(Before(p)) \in Int /\ Cardinality(Before(q)) \in Int
    <3>1. IsFiniteSet(Before(p)) /\ IsFiniteSet(Before(q))
      BY <1>2
    <3> QED
      BY <3>1, FS_CardinalityType
  <2> HIDE DEF rank
  <2> QED
    BY <2>4, <2>5, <2>6
<1>4. rank \in [points -> 0..(n - 1)]
  BY <1>2
<1> HIDE DEF rank
<1>5. \A p, q \in points : rank[p] = rank[q] => p = q
  <2>1. \A p \in points : rank[p] \in Int
    BY <1>4
  <2> QED
    BY <1>3, <2>1, LeftBelowOrders
<1>6. rank \in Injection(points, 0..(n - 1))
  BY <1>4, <1>5 DEF Injection, IsInjective
<1>7. IsFiniteSet(0..(n - 1)) /\ Cardinality(0..(n - 1)) = n
  <2>1. n - 1 \in Int /\ 0 \in Int
    BY <1>1
  <2>2. /\ IsFiniteSet(0..(n - 1))
        /\ Cardinality(0..(n - 1)) = IF 0 > n - 1 THEN 0 ELSE (n - 1) - 0 + 1
    BY <2>1, FS_Interval
  <2> QED
    BY <2>2, <1>1
<1>8. rank \in Surjection(points, 0..(n - 1))
  BY <1>1, <1>6, <1>7, FS_Injection
<1>9. \A k \in 0..(n - 1) : \E p \in points : rank[p] = k
  BY <1>8 DEF Surjection
<1>10. PICK s : s = Sorted(points) OBVIOUS
<1> DEFINE at(i) == CHOOSE p \in points : Cardinality({q \in points : LeftBelow(q, p)}) = i - 1
<1>11. s = [i \in 1..n |-> CHOOSE p \in points : rank[p] = i - 1]
  <2>1. \A i \in 1..n, p \in points : Cardinality({q \in points : LeftBelow(q, p)}) = rank[p]
    BY DEF rank
  <2>2. \A i \in 1..n : at(i) = (CHOOSE p \in points : rank[p] = i - 1)
    BY <2>1
  <2>3. Sorted(points) = [i \in 1..n |-> at(i)]
    BY <1>1 DEF Sorted
  <2> HIDE DEF at
  <2>4. [i \in 1..n |-> at(i)] = [i \in 1..n |-> CHOOSE p \in points : rank[p] = i - 1]
    BY <2>2
  <2> QED
    BY <1>10, <2>3, <2>4
<1>12. \A i \in 1..n : s[i] \in points /\ rank[s[i]] = i - 1
  <2>1. SUFFICES ASSUME NEW i \in 1..n PROVE s[i] \in points /\ rank[s[i]] = i - 1
    OBVIOUS
  <2>2. i - 1 \in 0..(n - 1)
    OBVIOUS
  <2>3. \E p \in points : rank[p] = i - 1
    BY <1>9, <2>2
  <2> QED
    BY <1>11, <2>3
<1>13. s \in [1..n -> points]
  BY <1>11, <1>12
<1>14. \A p \in points : \E i \in 1..n : s[i] = p
  <2>1. SUFFICES ASSUME NEW p \in points PROVE \E i \in 1..n : s[i] = p
    OBVIOUS
  <2>2. rank[p] + 1 \in 1..n /\ (rank[p] + 1) - 1 = rank[p]
    BY <1>4
  <2>3. s[rank[p] + 1] = p
    BY <1>5, <1>12, <2>2
  <2> QED
    BY <2>2, <2>3
<1>15. \A i, j \in 1..n : i < j => LeftBelow(s[i], s[j])
  <2>1. SUFFICES ASSUME NEW i \in 1..n, NEW j \in 1..n, i < j PROVE LeftBelow(s[i], s[j])
    OBVIOUS
  <2>2. s[i] \in points /\ s[j] \in points /\ rank[s[i]] < rank[s[j]] /\ rank[s[i]] # rank[s[j]]
        /\ ~(rank[s[j]] < rank[s[i]])
    BY <1>12, <2>1
  <2> QED
    BY <2>2, <1>3, LeftBelowOrders
<1> QED
  BY <1>1, <1>10, <1>13, <1>14, <1>15

-----------------------------------------------------------------------------
(* Chains of up to four points.                                            *)

StaysAt(chain, p, k) == k < 2 \/ Orientation(chain[k - 1], chain[k], p) > 0

LEMMA PoppedTo ==
    ASSUME NEW chain, NEW p, Len(chain) \in Nat, NEW m \in 0..Len(chain), StaysAt(chain, p, m),
           \A j \in (m + 1)..Len(chain) : ~StaysAt(chain, p, j)
    PROVE  Popped(chain, p) = SubSeq(chain, 1, m)
<1> DEFINE Final(k) == StaysAt(chain, p, k) /\ \A j \in (k + 1)..Len(chain) : ~StaysAt(chain, p, j)
<1>1. \A k \in 0..Len(chain) : Final(k) => k = m
  <2>1. SUFFICES ASSUME NEW k \in 0..Len(chain), Final(k) PROVE k = m
    OBVIOUS
  <2>2. ~(k < m)
    <3>1. k < m => m \in (k + 1)..Len(chain)
      OBVIOUS
    <3> QED
      BY <2>1, <3>1
  <2>3. ~(m < k)
    <3>1. m < k => k \in (m + 1)..Len(chain)
      OBVIOUS
    <3> QED
      BY <2>1, <3>1
  <2> QED
    BY <2>2, <2>3
<1>2. Final(m)
  OBVIOUS
<1>3. (CHOOSE k \in 0..Len(chain) : Final(k)) = m
  BY <1>1, <1>2
<1> QED
  BY <1>3 DEF Popped, StaysAt

LEMMA Prefix ==
    ASSUME NEW s \in Seq(Point), NEW t \in Seq(Point), NEW m \in Nat, Len(t) = m, m <= Len(s),
           \A i \in 1..m : s[i] = t[i]
    PROVE  SubSeq(s, 1, m) = t
<1>1. /\ SubSeq(s, 1, m) \in Seq(Point) /\ Len(SubSeq(s, 1, m)) = m
      /\ \A i \in 1..m : SubSeq(s, 1, m)[i] = s[i]
  OBVIOUS
<1>2. \A u \in Seq(Point) : Len(u) = Len(t) /\ (\A i \in 1..Len(u) : u[i] = t[i]) => u = t
  OBVIOUS
<1> QED
  BY <1>1, <1>2

LEMMA PoppedShort ==
    ASSUME NEW a \in Point, NEW b \in Point, NEW c \in Point, NEW p \in Point
    PROVE  /\ Popped(<<>>, p) = <<>>
           /\ Popped(<<a>>, p) = <<a>>
           /\ Popped(<<a, b>>, p) = IF Orientation(a, b, p) > 0 THEN <<a, b>> ELSE <<a>>
           /\ Popped(<<a, b, c>>, p) = IF Orientation(b, c, p) > 0 THEN <<a, b, c>>
                                       ELSE IF Orientation(a, b, p) > 0 THEN <<a, b>> ELSE <<a>>
<1>1. PICK one \in Seq(Point) : one = <<a>>
  <2>1. <<a>> \in Seq(Point)
    OBVIOUS
  <2> QED
    BY <2>1
<1>2. PICK two \in Seq(Point) : two = <<a, b>>
  <2>1. <<a, b>> \in Seq(Point)
    OBVIOUS
  <2> QED
    BY <2>1
<1>3. PICK three \in Seq(Point) : three = <<a, b, c>>
  <2>1. <<a, b, c>> \in Seq(Point)
    OBVIOUS
  <2> QED
    BY <2>1
<1>4. /\ Len(one) = 1 /\ one[1] = a
      /\ Len(two) = 2 /\ two[1] = a /\ two[2] = b
      /\ Len(three) = 3 /\ three[1] = a /\ three[2] = b /\ three[3] = c
  BY <1>1, <1>2, <1>3
<1>5. /\ SubSeq(one, 1, 1) = one
      /\ SubSeq(two, 1, 1) = one /\ SubSeq(two, 1, 2) = two
      /\ SubSeq(three, 1, 1) = one /\ SubSeq(three, 1, 2) = two /\ SubSeq(three, 1, 3) = three
  BY <1>4, Prefix
<1>6. Popped(<<>>, p) = <<>>
  <2>1. /\ Len(<<>>) = 0 /\ Len(<<>>) \in Nat /\ StaysAt(<<>>, p, 0) /\ 0 \in 0..Len(<<>>)
        /\ \A j \in (0 + 1)..Len(<<>>) : FALSE
    BY DEF StaysAt
  <2>2. Popped(<<>>, p) = SubSeq(<<>>, 1, 0)
    BY <2>1, PoppedTo
  <2> QED
    BY <2>2
<1>7. Popped(one, p) = one
  <2>1. /\ Len(one) \in Nat /\ StaysAt(one, p, 1) /\ 1 \in 0..Len(one)
        /\ \A j \in (1 + 1)..Len(one) : FALSE
    BY <1>4 DEF StaysAt
  <2>2. Popped(one, p) = SubSeq(one, 1, 1)
    BY <2>1, PoppedTo
  <2> QED
    BY <2>2, <1>5
<1>8. Popped(two, p) = IF Orientation(a, b, p) > 0 THEN two ELSE one
  <2>1. /\ Len(two) \in Nat /\ 1 \in 0..Len(two) /\ 2 \in 0..Len(two)
        /\ \A j \in (2 + 1)..Len(two) : FALSE
        /\ \A j \in (1 + 1)..Len(two) : j = 2
    BY <1>4
  <2>2. StaysAt(two, p, 1) /\ (StaysAt(two, p, 2) <=> Orientation(a, b, p) > 0)
    BY <1>4 DEF StaysAt
  <2>3. CASE Orientation(a, b, p) > 0
    <3>1. Popped(two, p) = SubSeq(two, 1, 2)
      BY <2>1, <2>2, <2>3, PoppedTo
    <3> QED
      BY <3>1, <1>5, <2>3
  <2>4. CASE ~(Orientation(a, b, p) > 0)
    <3>1. \A j \in (1 + 1)..Len(two) : ~StaysAt(two, p, j)
      BY <2>1, <2>2, <2>4
    <3>2. Popped(two, p) = SubSeq(two, 1, 1)
      BY <2>1, <2>2, <3>1, PoppedTo
    <3> QED
      BY <3>2, <1>5, <2>4
  <2> QED
    BY <2>3, <2>4
<1>9. Popped(three, p) = IF Orientation(b, c, p) > 0 THEN three
                         ELSE IF Orientation(a, b, p) > 0 THEN two ELSE one
  <2>1. /\ Len(three) \in Nat /\ 1 \in 0..Len(three) /\ 2 \in 0..Len(three) /\ 3 \in 0..Len(three)
        /\ \A j \in (3 + 1)..Len(three) : FALSE
        /\ \A j \in (2 + 1)..Len(three) : j = 3
        /\ \A j \in (1 + 1)..Len(three) : j = 2 \/ j = 3
    BY <1>4
  <2>2. /\ StaysAt(three, p, 1)
        /\ StaysAt(three, p, 2) <=> Orientation(a, b, p) > 0
        /\ StaysAt(three, p, 3) <=> Orientation(b, c, p) > 0
    BY <1>4 DEF StaysAt
  <2>3. CASE Orientation(b, c, p) > 0
    <3>1. Popped(three, p) = SubSeq(three, 1, 3)
      BY <2>1, <2>2, <2>3, PoppedTo
    <3> QED
      BY <3>1, <1>5, <2>3
  <2>4. CASE ~(Orientation(b, c, p) > 0) /\ Orientation(a, b, p) > 0
    <3>1. \A j \in (2 + 1)..Len(three) : ~StaysAt(three, p, j)
      BY <2>1, <2>2, <2>4
    <3>2. Popped(three, p) = SubSeq(three, 1, 2)
      BY <2>1, <2>2, <2>4, <3>1, PoppedTo
    <3> QED
      BY <3>2, <1>5, <2>4
  <2>5. CASE ~(Orientation(b, c, p) > 0) /\ ~(Orientation(a, b, p) > 0)
    <3>1. \A j \in (1 + 1)..Len(three) : ~StaysAt(three, p, j)
      BY <2>1, <2>2, <2>5
    <3>2. Popped(three, p) = SubSeq(three, 1, 1)
      BY <2>1, <2>2, <3>1, PoppedTo
    <3> QED
      BY <3>2, <1>5, <2>5
  <2> QED
    BY <2>3, <2>4, <2>5
<1> QED
  BY <1>1, <1>2, <1>3, <1>6, <1>7, <1>8, <1>9

ChainRule(s, chain, n) ==
    IF n = 0 THEN <<>> ELSE Append(Popped(chain[n - 1], s[n]), s[n])

LEMMA ChainExists ==
    ASSUME NEW s, NEW n \in Nat
    PROVE  \E chain : chain = [k \in 0..n |-> ChainRule(s, chain, k)]
<1> DEFINE Good(m) == \E chain : chain = [k \in 0..m |-> ChainRule(s, chain, k)]
           Bad == {m \in Nat : ~Good(m)}
<1>1. SUFFICES ASSUME Bad # {} PROVE FALSE
  BY <1>1
<1>2. PICK m \in Bad : \A y \in Bad : m <= y
  BY <1>1, LeastNumber
<1>3. m # 0
  <2>1. [k \in 0..0 |-> <<>>] = [k \in 0..0 |-> ChainRule(s, [j \in 0..0 |-> <<>>], k)]
    <3>1. \A k \in 0..0 : ChainRule(s, [j \in 0..0 |-> <<>>], k) = <<>>
      BY DEF ChainRule
    <3> QED
      BY <3>1
  <2>2. Good(0)
    BY <2>1
  <2> QED
    BY <2>2, <1>2
<1>4. m - 1 \in Nat /\ m \in Nat /\ ~(m <= m - 1)
  BY <1>2, <1>3
<1>5. Good(m - 1)
  BY <1>2, <1>4
<1>6. PICK f : f = [k \in 0..(m - 1) |-> ChainRule(s, f, k)]
  BY <1>5
<1> DEFINE g == [k \in 0..m |-> IF k < m THEN f[k] ELSE ChainRule(s, f, m)]
<1>7. \A k \in 0..m : g[k] = ChainRule(s, g, k)
  <2>1. SUFFICES ASSUME NEW k \in 0..m PROVE g[k] = ChainRule(s, g, k)
    OBVIOUS
  <2>2. g[k] = ChainRule(s, f, k)
    <3>1. CASE k < m
      <4>1. k \in 0..(m - 1)
        BY <1>4, <3>1
      <4> QED
        BY <3>1, <4>1, <1>6
    <3>2. CASE k = m
      BY <3>2, <1>4
    <3> QED
      BY <3>1, <3>2, <1>4
  <2>3. k # 0 => g[k - 1] = f[k - 1]
    BY <1>4
  <2> QED
    BY <2>2, <2>3 DEF ChainRule
<1>8. g = [k \in 0..m |-> ChainRule(s, g, k)]
  BY <1>7
<1> HIDE DEF g
<1>9. Good(m)
  BY <1>8
<1> QED
  BY <1>9, <1>2

LEMMA ChainSteps ==
    ASSUME NEW s, Len(s) \in Nat
    PROVE  \E chain : /\ Chain(s) = chain[Len(s)]
                      /\ chain[0] = <<>>
                      /\ \A n \in 1..Len(s) :
                            chain[n] = Append(Popped(chain[n - 1], s[n]), s[n])
<1> DEFINE f == CHOOSE chain : chain = [n \in 0..Len(s) |-> ChainRule(s, chain, n)]
<1>1. f = [n \in 0..Len(s) |-> ChainRule(s, f, n)]
  BY ChainExists
<1>2. Chain(s) = f[Len(s)]
  BY DEF Chain, ChainRule
<1> HIDE DEF f
<1>3. \A n \in 0..Len(s) : f[n] = ChainRule(s, f, n)
  BY <1>1
<1>4. f[0] = <<>>
  BY <1>3 DEF ChainRule
<1>5. \A n \in 1..Len(s) : f[n] = Append(Popped(f[n - 1], s[n]), s[n])
  <2>1. SUFFICES ASSUME NEW n \in 1..Len(s)
                 PROVE  f[n] = Append(Popped(f[n - 1], s[n]), s[n])
    OBVIOUS
  <2>2. f[n] = ChainRule(s, f, n)
    BY <1>3
  <2> QED
    BY <2>2 DEF ChainRule
<1> QED
  BY <1>2, <1>4, <1>5

LEMMA Appends ==
    ASSUME NEW a \in Point, NEW b \in Point, NEW c \in Point, NEW d \in Point
    PROVE  /\ Append(<<>>, a) = <<a>> /\ Append(<<a>>, b) = <<a, b>>
           /\ Append(<<a, b>>, c) = <<a, b, c>> /\ Append(<<a, b, c>>, d) = <<a, b, c, d>>
<1>1. /\ <<>> \in Seq(Point) /\ <<a>> \in Seq(Point) /\ <<a, b>> \in Seq(Point)
      /\ <<a, b, c>> \in Seq(Point) /\ <<a, b, c, d>> \in Seq(Point)
  OBVIOUS
<1>2. ASSUME NEW s \in Seq(Point), NEW e \in Point, NEW t \in Seq(Point),
             Len(t) = Len(s) + 1, \A i \in 1..Len(s) : s[i] = t[i], t[Len(s) + 1] = e
      PROVE  Append(s, e) = t
  <2>1. Append(s, e) \in Seq(Point) /\ Len(Append(s, e)) = Len(t)
    BY <1>2
  <2>2. \A i \in 1..Len(t) : Append(s, e)[i] = t[i]
    BY <1>2
  <2>3. \A u \in Seq(Point) : Len(u) = Len(t) /\ (\A i \in 1..Len(u) : u[i] = t[i]) => u = t
    OBVIOUS
  <2> QED
    BY <2>1, <2>2, <2>3
<1>3. Append(<<>>, a) = <<a>>
  OBVIOUS
<1>4. PICK one \in Seq(Point) : one = <<a>>
  BY <1>1
<1>5. PICK two \in Seq(Point) : two = <<a, b>>
  BY <1>1
<1>6. PICK three \in Seq(Point) : three = <<a, b, c>>
  BY <1>1
<1>7. PICK four \in Seq(Point) : four = <<a, b, c, d>>
  BY <1>1
<1>8. /\ Len(one) = 1 /\ one[1] = a
      /\ Len(two) = 2 /\ two[1] = a /\ two[2] = b
      /\ Len(three) = 3 /\ three[1] = a /\ three[2] = b /\ three[3] = c
      /\ Len(four) = 4 /\ four[1] = a /\ four[2] = b /\ four[3] = c /\ four[4] = d
  BY <1>4, <1>5, <1>6, <1>7
<1>9. Append(one, b) = two /\ Append(two, c) = three /\ Append(three, d) = four
  <2>1. Append(one, b) = two
    <3>1. /\ Len(two) = Len(one) + 1 /\ \A i \in 1..Len(one) : one[i] = two[i]
          /\ two[Len(one) + 1] = b
      BY <1>8
    <3> QED
      BY <1>2, <3>1
  <2>2. Append(two, c) = three
    <3>1. /\ Len(three) = Len(two) + 1 /\ \A i \in 1..Len(two) : two[i] = three[i]
          /\ three[Len(two) + 1] = c
      BY <1>8
    <3> QED
      BY <1>2, <3>1
  <2>3. Append(three, d) = four
    <3>1. /\ Len(four) = Len(three) + 1 /\ \A i \in 1..Len(three) : three[i] = four[i]
          /\ four[Len(three) + 1] = d
      BY <1>8
    <3> QED
      BY <1>2, <3>1
  <2> QED
    BY <2>1, <2>2, <2>3
<1> QED
  BY <1>3, <1>4, <1>5, <1>6, <1>7, <1>9

LEMMA ChainShort ==
    ASSUME NEW s \in Seq(Point)
    PROVE  /\ Len(s) = 2 => Chain(s) = <<s[1], s[2]>>
           /\ Len(s) = 3 => Chain(s) = IF Orientation(s[1], s[2], s[3]) > 0
                                       THEN <<s[1], s[2], s[3]>> ELSE <<s[1], s[3]>>
           /\ Len(s) = 4 =>
                Chain(s) = IF Orientation(s[1], s[2], s[3]) > 0
                           THEN IF Orientation(s[2], s[3], s[4]) > 0
                                THEN <<s[1], s[2], s[3], s[4]>>
                                ELSE IF Orientation(s[1], s[2], s[4]) > 0
                                     THEN <<s[1], s[2], s[4]>> ELSE <<s[1], s[4]>>
                           ELSE IF Orientation(s[1], s[3], s[4]) > 0
                                THEN <<s[1], s[3], s[4]>> ELSE <<s[1], s[4]>>
<1>1. PICK chain : /\ Chain(s) = chain[Len(s)]
                   /\ chain[0] = <<>>
                   /\ \A n \in 1..Len(s) : chain[n] = Append(Popped(chain[n - 1], s[n]), s[n])
  BY ChainSteps
<1>2. \A a, b, c, d \in Point :
         /\ Append(<<>>, a) = <<a>> /\ Append(<<a>>, b) = <<a, b>>
         /\ Append(<<a, b>>, c) = <<a, b, c>> /\ Append(<<a, b, c>>, d) = <<a, b, c, d>>
  BY Appends
<1>3. \A i \in 1..Len(s) : s[i] \in Point
  OBVIOUS
<1>4. 1 <= Len(s) => chain[1] = <<s[1]>>
  <2>1. SUFFICES ASSUME 1 <= Len(s) PROVE chain[1] = <<s[1]>>
    OBVIOUS
  <2>2. 1 \in 1..Len(s) /\ 1 - 1 = 0
    BY <2>1
  <2>3. chain[1] = Append(Popped(<<>>, s[1]), s[1])
    BY <1>1, <2>2
  <2>4. Popped(<<>>, s[1]) = <<>> /\ Append(<<>>, s[1]) = <<s[1]>>
    BY <2>2, <1>2, <1>3, PoppedShort
  <2> QED
    BY <2>3, <2>4
<1>5. 2 <= Len(s) => chain[2] = <<s[1], s[2]>>
  <2>1. SUFFICES ASSUME 2 <= Len(s) PROVE chain[2] = <<s[1], s[2]>>
    OBVIOUS
  <2>2. 2 \in 1..Len(s) /\ 1 \in 1..Len(s) /\ 2 - 1 = 1
    BY <2>1
  <2>3. chain[2] = Append(Popped(chain[1], s[2]), s[2])
    BY <1>1, <2>2
  <2>4. chain[1] = <<s[1]>>
    BY <2>1, <1>4
  <2>5. Popped(<<s[1]>>, s[2]) = <<s[1]>>
    BY <2>2, <1>3, PoppedShort
  <2>6. Append(<<s[1]>>, s[2]) = <<s[1], s[2]>>
    BY <2>2, <1>2, <1>3
  <2> QED
    BY <2>3, <2>4, <2>5, <2>6
<1>6. 3 <= Len(s) => chain[3] = IF Orientation(s[1], s[2], s[3]) > 0
                                THEN <<s[1], s[2], s[3]>> ELSE <<s[1], s[3]>>
  <2>1. SUFFICES ASSUME 3 <= Len(s)
                 PROVE  chain[3] = IF Orientation(s[1], s[2], s[3]) > 0
                                   THEN <<s[1], s[2], s[3]>> ELSE <<s[1], s[3]>>
    OBVIOUS
  <2>2. 3 \in 1..Len(s) /\ 2 \in 1..Len(s) /\ 1 \in 1..Len(s) /\ 3 - 1 = 2
    BY <2>1
  <2>3. chain[3] = Append(Popped(chain[2], s[3]), s[3]) /\ chain[2] = <<s[1], s[2]>>
    BY <1>1, <1>5, <2>1, <2>2
  <2>4. Popped(<<s[1], s[2]>>, s[3]) = IF Orientation(s[1], s[2], s[3]) > 0
                                       THEN <<s[1], s[2]>> ELSE <<s[1]>>
    BY <2>2, <1>3, PoppedShort
  <2>5. /\ Append(<<s[1]>>, s[3]) = <<s[1], s[3]>>
        /\ Append(<<s[1], s[2]>>, s[3]) = <<s[1], s[2], s[3]>>
    BY <2>2, <1>2, <1>3
  <2> QED
    BY <2>3, <2>4, <2>5
<1>7. ASSUME Len(s) = 4
      PROVE  Chain(s) = IF Orientation(s[1], s[2], s[3]) > 0
                        THEN IF Orientation(s[2], s[3], s[4]) > 0
                             THEN <<s[1], s[2], s[3], s[4]>>
                             ELSE IF Orientation(s[1], s[2], s[4]) > 0
                                  THEN <<s[1], s[2], s[4]>> ELSE <<s[1], s[4]>>
                        ELSE IF Orientation(s[1], s[3], s[4]) > 0
                             THEN <<s[1], s[3], s[4]>> ELSE <<s[1], s[4]>>
  <2>2. /\ 4 \in 1..Len(s) /\ 3 \in 1..Len(s) /\ 2 \in 1..Len(s) /\ 1 \in 1..Len(s)
        /\ 4 - 1 = 3 /\ 3 <= Len(s)
    BY <1>7
  <2>3. Chain(s) = Append(Popped(chain[3], s[4]), s[4])
    BY <1>1, <1>7, <2>2
  <2>4. CASE Orientation(s[1], s[2], s[3]) > 0
    <3>1. chain[3] = <<s[1], s[2], s[3]>>
      BY <2>2, <2>4, <1>6
    <3>2. Popped(<<s[1], s[2], s[3]>>, s[4])
             = IF Orientation(s[2], s[3], s[4]) > 0 THEN <<s[1], s[2], s[3]>>
               ELSE IF Orientation(s[1], s[2], s[4]) > 0 THEN <<s[1], s[2]>> ELSE <<s[1]>>
      BY <2>2, <1>3, PoppedShort
    <3>3. Append(<<s[1]>>, s[4]) = <<s[1], s[4]>>
      BY <2>2, <1>2, <1>3
    <3>4. Append(<<s[1], s[2]>>, s[4]) = <<s[1], s[2], s[4]>>
      BY <2>2, <1>2, <1>3
    <3>5. Append(<<s[1], s[2], s[3]>>, s[4]) = <<s[1], s[2], s[3], s[4]>>
      BY <2>2, <1>2, <1>3, ZenonT(60)
    <3> QED
      BY <3>1, <3>2, <3>3, <3>4, <3>5, <2>3, <2>4
  <2>5. CASE ~(Orientation(s[1], s[2], s[3]) > 0)
    <3>1. chain[3] = <<s[1], s[3]>>
      BY <2>2, <2>5, <1>6
    <3>2. Popped(<<s[1], s[3]>>, s[4])
             = IF Orientation(s[1], s[3], s[4]) > 0 THEN <<s[1], s[3]>> ELSE <<s[1]>>
      BY <2>2, <1>3, PoppedShort
    <3>3. /\ Append(<<s[1]>>, s[4]) = <<s[1], s[4]>>
          /\ Append(<<s[1], s[3]>>, s[4]) = <<s[1], s[3], s[4]>>
      BY <2>2, <1>2, <1>3
    <3> QED
      BY <3>1, <3>2, <3>3, <2>3, <2>5
  <2> QED
    BY <2>4, <2>5
<1>8. Len(s) = 2 => Chain(s) = <<s[1], s[2]>>
  BY <1>1, <1>5
<1>9. Len(s) = 3 => Chain(s) = IF Orientation(s[1], s[2], s[3]) > 0
                               THEN <<s[1], s[2], s[3]>> ELSE <<s[1], s[3]>>
  BY <1>1, <1>6
<1> QED
  BY <1>7, <1>8, <1>9

-----------------------------------------------------------------------------
(* The hull of up to four points.                                          *)

(* z has the sign of x and y where they agree.                             *)
Pulls(x, y, z) ==
    /\ x >= 0 /\ y >= 0 => z >= 0 /\ (x > 0 \/ y > 0 => z > 0)
    /\ x <= 0 /\ y <= 0 => z <= 0 /\ (x < 0 \/ y < 0 => z < 0)

LEMMA WeightedPulls ==
    ASSUME NEW x \in Int, NEW y \in Int, NEW z \in Int,
           NEW p \in Nat, NEW q \in Nat, NEW r \in Nat, p > 0, q > 0, r > 0,
           z * r = x * p + y * q
    PROVE  Pulls(x, y, z)
<1>1. PICK X \in Int : X = x * p OBVIOUS
<1>2. PICK Y \in Int : Y = y * q OBVIOUS
<1>3. PICK Z \in Int : Z = z * r OBVIOUS
<1>4. (x > 0 => X > 0) /\ (x < 0 => X < 0) /\ (x = 0 => X = 0)
  <2>1. x > 0 => X > 0
    BY <1>1
  <2>2. x < 0 => X < 0
    BY <1>1
  <2>3. x = 0 => X = 0
    BY <1>1
  <2> QED
    BY <2>1, <2>2, <2>3
<1>5. (y > 0 => Y > 0) /\ (y < 0 => Y < 0) /\ (y = 0 => Y = 0)
  <2>1. y > 0 => Y > 0
    BY <1>2
  <2>2. y < 0 => Y < 0
    BY <1>2
  <2>3. y = 0 => Y = 0
    BY <1>2
  <2> QED
    BY <2>1, <2>2, <2>3
<1>6. (Z > 0 => z > 0) /\ (Z < 0 => z < 0) /\ (Z = 0 => z = 0)
  <2>1. z > 0 => Z > 0
    BY <1>3
  <2>2. z < 0 => Z < 0
    BY <1>3
  <2>3. z = 0 => Z = 0
    BY <1>3
  <2> QED
    BY <2>1, <2>2, <2>3
<1>7. Z = X + Y
  BY <1>1, <1>2, <1>3
<1> QED
  BY <1>4, <1>5, <1>6, <1>7 DEF Pulls

(* Four points from left to right: a direction in which all of them are    *)
(* apart.                                                                  *)
LEMMA Heights ==
    ASSUME NEW a \in Point, NEW b \in Point, NEW c \in Point, NEW d \in Point,
           LeftBelow(a, b), LeftBelow(b, c), LeftBelow(c, d)
    PROVE  \E f, g, h, k \in Int : f < g /\ g < h /\ h < k /\ Balance(f, g, h, k, a, b, c, d)
<1>0. \A p \in Point : p[1] \in Int /\ p[2] \in Int
  BY DEF Point
<1>1. \A p \in Point : \E m \in Nat : -m <= p[2] /\ p[2] <= m
  <2>1. SUFFICES ASSUME NEW p \in Point PROVE \E m \in Nat : -m <= p[2] /\ p[2] <= m
    OBVIOUS
  <2>2. CASE p[2] >= 0
    BY <2>2, <1>0
  <2>3. CASE p[2] < 0
    <3>1. -p[2] \in Nat /\ -(-p[2]) <= p[2] /\ p[2] <= -p[2]
      BY <2>3, <1>0
    <3> QED
      BY <3>1
  <2> QED
    BY <2>2, <2>3, <1>0
<1>2. PICK ma \in Nat : -ma <= a[2] /\ a[2] <= ma BY <1>1
<1>3. PICK mb \in Nat : -mb <= b[2] /\ b[2] <= mb BY <1>1
<1>4. PICK mc \in Nat : -mc <= c[2] /\ c[2] <= mc BY <1>1
<1>5. PICK md \in Nat : -md <= d[2] /\ d[2] <= md BY <1>1
<1>6. PICK M \in Nat : M = 1 + ma + mb + mc + md
  OBVIOUS
<1>7. PICK u \in Point : u = <<0, 0>>
  <2>1. <<0, 0>> \in Point
    BY DEF Point
  <2> QED
    BY <2>1
<1>8. PICK v \in Point : v = <<1, -M>>
  <2>1. <<1, -M>> \in Point
    BY DEF Point
  <2> QED
    BY <2>1
<1>9. \A p \in Point : Orientation(u, v, p) = p[2] + M * p[1]
  <2>1. SUFFICES ASSUME NEW p \in Point PROVE Orientation(u, v, p) = p[2] + M * p[1]
    OBVIOUS
  <2>2. Orientation(u, v, p) = (v[1] - u[1]) * (p[2] - u[2]) - (v[2] - u[2]) * (p[1] - u[1])
    BY TurnIs
  <2>3. u[1] = 0 /\ u[2] = 0 /\ v[1] = 1 /\ v[2] = -M
    BY <1>7, <1>8
  <2> QED
    BY <2>2, <2>3, <1>0
<1>10. \A p, q \in Point : LeftBelow(p, q) /\ p[2] - q[2] < M
                              => Orientation(u, v, p) < Orientation(u, v, q)
  <2>1. SUFFICES ASSUME NEW p \in Point, NEW q \in Point, LeftBelow(p, q), p[2] - q[2] < M
                 PROVE  p[2] + M * p[1] < q[2] + M * q[1]
    BY <1>9
  <2>2. PICK s \in Int : s = q[1] - p[1] BY <1>0
  <2>3. M * q[1] = M * p[1] + M * s
    BY <2>2, <1>0
  <2>4. CASE s >= 1
    <3>1. PICK X \in Int : X = M * p[1] BY <1>0
    <3>2. PICK Y \in Int : Y = M * s OBVIOUS
    <3>3. PICK Z \in Int : Z = M * q[1] BY <1>0
    <3>4. Z = X + Y
      BY <2>3, <3>1, <3>2, <3>3
    <3>5. Y >= M
      BY <2>4, <3>2
    <3>6. p[2] + X < q[2] + Z
      BY <2>1, <3>4, <3>5, <1>0
    <3> QED
      BY <3>1, <3>3, <3>6
  <2>5. CASE s = 0
    <3>1. p[2] < q[2]
      BY <2>1, <2>2, <2>5, <1>0 DEF LeftBelow
    <3> QED
      BY <2>3, <2>5, <3>1, <1>0
  <2> QED
    BY <2>1, <2>2, <2>4, <2>5, <1>0 DEF LeftBelow
<1>11. /\ a[2] - b[2] < M /\ b[2] - c[2] < M /\ c[2] - d[2] < M
  BY <1>0, <1>2, <1>3, <1>4, <1>5, <1>6
<1>12. /\ Orientation(u, v, a) < Orientation(u, v, b)
       /\ Orientation(u, v, b) < Orientation(u, v, c)
       /\ Orientation(u, v, c) < Orientation(u, v, d)
  BY <1>10, <1>11
<1>13. Balance(Orientation(u, v, a), Orientation(u, v, b), Orientation(u, v, c),
               Orientation(u, v, d), a, b, c, d)
  BY SidesBalance
<1>14. \A p \in Point : Orientation(u, v, p) \in Int
  BY TurnIs
<1> QED
  BY <1>12, <1>13, <1>14

SortedPulls(o1, o2, o3, o4) ==
    /\ Pulls(o1, o3, o2) /\ Pulls(o2, o4, o3) /\ Pulls(o1, o4, o2) /\ Pulls(o1, o4, o3)

LEMMA SortedTurns ==
    ASSUME NEW a \in Point, NEW b \in Point, NEW c \in Point, NEW d \in Point,
           LeftBelow(a, b), LeftBelow(b, c), LeftBelow(c, d)
    PROVE  SortedPulls(Orientation(a, b, c), Orientation(a, b, d),
                       Orientation(a, c, d), Orientation(b, c, d))
<1>1. PICK f, g, h, k \in Int : f < g /\ g < h /\ h < k /\ Balance(f, g, h, k, a, b, c, d)
  BY Heights
<1>2. PICK o1 \in Int : o1 = Orientation(a, b, c) BY TurnIs
<1>3. PICK o2 \in Int : o2 = Orientation(a, b, d) BY TurnIs
<1>4. PICK o3 \in Int : o3 = Orientation(a, c, d) BY TurnIs
<1>5. PICK o4 \in Int : o4 = Orientation(b, c, d) BY TurnIs
<1>6. o4 * f + o2 * h = o3 * g + o1 * k
  BY <1>1, <1>2, <1>3, <1>4, <1>5 DEF Balance
<1>7. o1 + o3 = o2 + o4
  BY <1>2, <1>3, <1>4, <1>5, FourTurns
<1>8. PICK p \in Nat : p = g - f BY <1>1
<1>9. PICK q \in Nat : q = h - g BY <1>1
<1>10. PICK r \in Nat : r = k - h BY <1>1
<1>11. p > 0 /\ q > 0 /\ r > 0
  BY <1>1, <1>8, <1>9, <1>10
<1>12. g = f + p /\ h = f + p + q /\ k = f + p + q + r
  BY <1>8, <1>9, <1>10
<1>13. PICK pq \in Nat : pq = p + q OBVIOUS
<1>14. PICK qr \in Nat : qr = q + r OBVIOUS
<1>15. PICK pqr \in Nat : pqr = p + q + r OBVIOUS
<1>16. o2 * pq = o1 * pqr + o3 * p
  <2>1. o4 = o1 + o3 - o2
    BY <1>7
  <2> QED
    BY <1>6, <1>12, <1>13, <1>15, <2>1
<1>17. o3 * qr = o2 * r + o4 * pqr
  <2>1. o1 = o2 + o4 - o3
    BY <1>7
  <2> QED
    BY <1>6, <1>12, <1>14, <1>15, <2>1
<1>18. o2 * q = o1 * qr + o4 * p
  <2>1. o3 = o2 + o4 - o1
    BY <1>7
  <2> QED
    BY <1>6, <1>12, <1>14, <2>1
<1>19. o3 * q = o1 * r + o4 * pq
  <2>1. o2 = o1 + o3 - o4
    BY <1>7
  <2> QED
    BY <1>6, <1>12, <1>13, <2>1
<1>20. pq > 0 /\ qr > 0 /\ pqr > 0
  BY <1>11, <1>13, <1>14, <1>15
<1>21. Pulls(o1, o3, o2)
  BY <1>11, <1>16, <1>20, WeightedPulls
<1>22. Pulls(o2, o4, o3)
  BY <1>11, <1>17, <1>20, WeightedPulls
<1>23. Pulls(o1, o4, o2)
  BY <1>11, <1>18, <1>20, WeightedPulls
<1>24. Pulls(o1, o4, o3)
  BY <1>11, <1>19, <1>20, WeightedPulls
<1> QED
  BY <1>2, <1>3, <1>4, <1>5, <1>21, <1>22, <1>23, <1>24 DEF SortedPulls

LEMMA SortedOnLine ==
    ASSUME NEW a \in Point, NEW b \in Point, NEW c \in Point,
           LeftBelow(a, b), LeftBelow(b, c), Orientation(a, b, c) = 0
    PROVE  On(a, c, b)
<1>0. \A p \in Point : p[1] \in Int /\ p[2] \in Int
  BY DEF Point
<1>1. PICK P \in Int : P = b[1] - a[1] BY <1>0
<1>2. PICK Q \in Int : Q = c[1] - b[1] BY <1>0
<1>3. PICK y \in Int : y = b[2] - a[2] BY <1>0
<1>4. PICK z \in Int : z = c[2] - b[2] BY <1>0
<1>5. P * z = y * Q
  <2>1. Orientation(a, b, c) = (b[1] - a[1]) * (c[2] - a[2]) - (b[2] - a[2]) * (c[1] - a[1])
    BY TurnIs
  <2>2. c[2] - a[2] = y + z /\ c[1] - a[1] = P + Q
    BY <1>0, <1>1, <1>2, <1>3, <1>4
  <2>3. P * (y + z) - y * (P + Q) = 0
    BY <2>1, <2>2, <1>1, <1>3
  <2> QED
    BY <2>3
<1>6. P >= 0 /\ Q >= 0 /\ (P = 0 => y > 0) /\ (Q = 0 => z > 0)
  BY <1>0, <1>1, <1>2, <1>3, <1>4 DEF LeftBelow
<1>7. (y >= 0 /\ z >= 0) \/ (y <= 0 /\ z <= 0)
  <2>1. SUFFICES ASSUME ~((y >= 0 /\ z >= 0) \/ (y <= 0 /\ z <= 0)) PROVE FALSE
    OBVIOUS
  <2>2. CASE y > 0 /\ z < 0
    <3>1. y * Q >= 0
      BY <2>2, <1>6
    <3>2. Q > 0
      BY <2>2, <1>6
    <3>3. y * Q > 0
      BY <2>2, <3>2
    <3>4. P * z <= 0
      BY <2>2, <1>6
    <3> QED
      BY <3>3, <3>4, <1>5
  <2>3. CASE y < 0 /\ z > 0
    <3>1. P > 0
      BY <2>3, <1>6
    <3>2. P * z > 0
      BY <2>3, <3>1
    <3>3. y * Q <= 0
      BY <2>3, <1>6
    <3> QED
      BY <3>2, <3>3, <1>5
  <2> QED
    BY <2>1, <2>2, <2>3
<1>8. OnSegment(a, c, b)
  BY <1>0, <1>1, <1>2, <1>3, <1>4, <1>6, <1>7 DEF OnSegment, Lesser, Greater
<1> QED
  BY <1>8, TurnsAgree DEF On

LEMMA SequencesMeet ==
    ASSUME NEW s \in Seq(Point), NEW t \in Seq(Point), Len(s) = Len(t),
           \A i \in 1..Len(s) : s[i] = t[i]
    PROVE  s = t
  OBVIOUS

LEMMA Fronts ==
    ASSUME NEW s \in Seq(Point), NEW t \in Seq(Point), Len(s) = Len(t) + 1,
           \A i \in 1..Len(t) : s[i] = t[i]
    PROVE  Front(s) = t
<1>1. Len(s) - 1 = Len(t) /\ Len(t) \in Nat /\ Len(t) <= Len(s)
  OBVIOUS
<1>2. SubSeq(s, 1, Len(t)) = t
  BY <1>1, Prefix
<1> QED
  BY <1>1, <1>2 DEF Front

LEMMA Joins ==
    ASSUME NEW s \in Seq(Point), NEW t \in Seq(Point), NEW u \in Seq(Point),
           Len(u) = Len(s) + Len(t),
           \A i \in 1..Len(s) : u[i] = s[i], \A i \in 1..Len(t) : u[Len(s) + i] = t[i]
    PROVE  s \o t = u
<1>1. s \o t \in Seq(Point) /\ Len(s \o t) = Len(u)
  OBVIOUS
<1>2. \A i \in 1..Len(u) : (s \o t)[i] = u[i]
  <2>1. SUFFICES ASSUME NEW i \in 1..Len(u) PROVE (s \o t)[i] = u[i]
    OBVIOUS
  <2>2. CASE i <= Len(s)
    <3>1. i \in 1..Len(s)
      BY <2>2
    <3> QED
      BY <3>1
  <2>3. CASE i > Len(s)
    <3>1. i - Len(s) \in 1..Len(t) /\ Len(s) + (i - Len(s)) = i
      BY <2>3
    <3>2. u[i] = t[i - Len(s)]
      BY <3>1
    <3> QED
      BY <3>1, <3>2, <2>3
  <2> QED
    BY <2>2, <2>3
<1> QED
  BY <1>1, <1>2, SequencesMeet

(* The two chains of an outline: l from left to right, u back.             *)
Outline(l, u) == Front(l) \o Front(u)

Outlined(a, b, c, d) ==
    /\ Outline(<<a, d>>, <<d, a>>) = <<a, d>>
    /\ Outline(<<a, d>>, <<d, b, a>>) = <<a, d, b>>
    /\ Outline(<<a, b, d>>, <<d, a>>) = <<a, b, d>>
    /\ Outline(<<a, d>>, <<d, c, b, a>>) = <<a, d, c, b>>
    /\ Outline(<<a, b, d>>, <<d, c, a>>) = <<a, b, d, c>>
    /\ Outline(<<a, b, c, d>>, <<d, a>>) = <<a, b, c, d>>

LEMMA Outlines ==
    ASSUME NEW a \in Point, NEW b \in Point, NEW c \in Point, NEW d \in Point
    PROVE  Outlined(a, b, c, d)
<1>1. /\ <<a>> \in Seq(Point) /\ <<a, d>> \in Seq(Point) /\ <<a, b>> \in Seq(Point)
      /\ <<a, b, d>> \in Seq(Point) /\ <<a, b, c>> \in Seq(Point) /\ <<a, b, c, d>> \in Seq(Point)
      /\ <<d>> \in Seq(Point) /\ <<d, a>> \in Seq(Point) /\ <<d, b>> \in Seq(Point)
      /\ <<d, b, a>> \in Seq(Point) /\ <<d, c, b, a>> \in Seq(Point) /\ <<d, c, b>> \in Seq(Point)
      /\ <<d, c, a>> \in Seq(Point) /\ <<d, c>> \in Seq(Point)
      /\ <<a, d, b>> \in Seq(Point) /\ <<a, d, c, b>> \in Seq(Point) /\ <<a, b, d, c>> \in Seq(Point)
  OBVIOUS

<1>2. Outline(<<a, d>>, <<d, a>>) = <<a, d>>
  <2>1. PICK l \in Seq(Point) : l = <<a, d>> BY <1>1
  <2>2. PICK u \in Seq(Point) : u = <<d, a>> BY <1>1
  <2>3. PICK f \in Seq(Point) : f = <<a>> BY <1>1
  <2>4. PICK g \in Seq(Point) : g = <<d>> BY <1>1
  <2>5. PICK h \in Seq(Point) : h = <<a, d>> BY <1>1
  <2>6. /\ Len(l) = 2 /\ l[1] = a /\ l[2] = d
        /\ Len(u) = 2 /\ u[1] = d /\ u[2] = a
        /\ Len(f) = 1 /\ f[1] = a
        /\ Len(g) = 1 /\ g[1] = d
        /\ Len(h) = 2 /\ h[1] = a /\ h[2] = d
    BY <2>1, <2>2, <2>3, <2>4, <2>5
  <2>7. Front(l) = f
    <3>1. Len(l) = Len(f) + 1 /\ \A i \in 1..Len(f) : l[i] = f[i]
      BY <2>6
    <3> QED
      BY <3>1, Fronts
  <2>8. Front(u) = g
    <3>1. Len(u) = Len(g) + 1 /\ \A i \in 1..Len(g) : u[i] = g[i]
      BY <2>6
    <3> QED
      BY <3>1, Fronts
  <2>9. f \o g = h
    <3>1. Len(h) = Len(f) + Len(g)
      BY <2>6
    <3>2. \A i \in 1..Len(f) : h[i] = f[i]
      BY <2>6
    <3>3. \A i \in 1..Len(g) : h[Len(f) + i] = g[i]
      BY <2>6
    <3> QED
      BY <3>1, <3>2, <3>3, Joins
  <2> QED
    BY <2>1, <2>2, <2>5, <2>7, <2>8, <2>9 DEF Outline
<1>3. Outline(<<a, d>>, <<d, b, a>>) = <<a, d, b>>
  <2>1. PICK l \in Seq(Point) : l = <<a, d>> BY <1>1
  <2>2. PICK u \in Seq(Point) : u = <<d, b, a>> BY <1>1
  <2>3. PICK f \in Seq(Point) : f = <<a>> BY <1>1
  <2>4. PICK g \in Seq(Point) : g = <<d, b>> BY <1>1
  <2>5. PICK h \in Seq(Point) : h = <<a, d, b>> BY <1>1
  <2>6. /\ Len(l) = 2 /\ l[1] = a /\ l[2] = d
        /\ Len(u) = 3 /\ u[1] = d /\ u[2] = b /\ u[3] = a
        /\ Len(f) = 1 /\ f[1] = a
        /\ Len(g) = 2 /\ g[1] = d /\ g[2] = b
        /\ Len(h) = 3 /\ h[1] = a /\ h[2] = d /\ h[3] = b
    BY <2>1, <2>2, <2>3, <2>4, <2>5
  <2>7. Front(l) = f
    <3>1. Len(l) = Len(f) + 1 /\ \A i \in 1..Len(f) : l[i] = f[i]
      BY <2>6
    <3> QED
      BY <3>1, Fronts
  <2>8. Front(u) = g
    <3>1. Len(u) = Len(g) + 1 /\ \A i \in 1..Len(g) : u[i] = g[i]
      BY <2>6
    <3> QED
      BY <3>1, Fronts
  <2>9. f \o g = h
    <3>1. Len(h) = Len(f) + Len(g)
      BY <2>6
    <3>2. \A i \in 1..Len(f) : h[i] = f[i]
      BY <2>6
    <3>3. \A i \in 1..Len(g) : h[Len(f) + i] = g[i]
      BY <2>6
    <3> QED
      BY <3>1, <3>2, <3>3, Joins
  <2> QED
    BY <2>1, <2>2, <2>5, <2>7, <2>8, <2>9 DEF Outline
<1>4. Outline(<<a, b, d>>, <<d, a>>) = <<a, b, d>>
  <2>1. PICK l \in Seq(Point) : l = <<a, b, d>> BY <1>1
  <2>2. PICK u \in Seq(Point) : u = <<d, a>> BY <1>1
  <2>3. PICK f \in Seq(Point) : f = <<a, b>> BY <1>1
  <2>4. PICK g \in Seq(Point) : g = <<d>> BY <1>1
  <2>5. PICK h \in Seq(Point) : h = <<a, b, d>> BY <1>1
  <2>6. /\ Len(l) = 3 /\ l[1] = a /\ l[2] = b /\ l[3] = d
        /\ Len(u) = 2 /\ u[1] = d /\ u[2] = a
        /\ Len(f) = 2 /\ f[1] = a /\ f[2] = b
        /\ Len(g) = 1 /\ g[1] = d
        /\ Len(h) = 3 /\ h[1] = a /\ h[2] = b /\ h[3] = d
    BY <2>1, <2>2, <2>3, <2>4, <2>5
  <2>7. Front(l) = f
    <3>1. Len(l) = Len(f) + 1 /\ \A i \in 1..Len(f) : l[i] = f[i]
      BY <2>6
    <3> QED
      BY <3>1, Fronts
  <2>8. Front(u) = g
    <3>1. Len(u) = Len(g) + 1 /\ \A i \in 1..Len(g) : u[i] = g[i]
      BY <2>6
    <3> QED
      BY <3>1, Fronts
  <2>9. f \o g = h
    <3>1. Len(h) = Len(f) + Len(g)
      BY <2>6
    <3>2. \A i \in 1..Len(f) : h[i] = f[i]
      BY <2>6
    <3>3. \A i \in 1..Len(g) : h[Len(f) + i] = g[i]
      BY <2>6
    <3> QED
      BY <3>1, <3>2, <3>3, Joins
  <2> QED
    BY <2>1, <2>2, <2>5, <2>7, <2>8, <2>9 DEF Outline
<1>5. Outline(<<a, d>>, <<d, c, b, a>>) = <<a, d, c, b>>
  <2>1. PICK l \in Seq(Point) : l = <<a, d>> BY <1>1
  <2>2. PICK u \in Seq(Point) : u = <<d, c, b, a>> BY <1>1
  <2>3. PICK f \in Seq(Point) : f = <<a>> BY <1>1
  <2>4. PICK g \in Seq(Point) : g = <<d, c, b>> BY <1>1
  <2>5. PICK h \in Seq(Point) : h = <<a, d, c, b>> BY <1>1
  <2>6. /\ Len(l) = 2 /\ l[1] = a /\ l[2] = d
        /\ Len(u) = 4 /\ u[1] = d /\ u[2] = c /\ u[3] = b /\ u[4] = a
        /\ Len(f) = 1 /\ f[1] = a
        /\ Len(g) = 3 /\ g[1] = d /\ g[2] = c /\ g[3] = b
        /\ Len(h) = 4 /\ h[1] = a /\ h[2] = d /\ h[3] = c /\ h[4] = b
    BY <2>1, <2>2, <2>3, <2>4, <2>5
  <2>7. Front(l) = f
    <3>1. Len(l) = Len(f) + 1 /\ \A i \in 1..Len(f) : l[i] = f[i]
      BY <2>6
    <3> QED
      BY <3>1, Fronts
  <2>8. Front(u) = g
    <3>1. Len(u) = Len(g) + 1 /\ \A i \in 1..Len(g) : u[i] = g[i]
      BY <2>6
    <3> QED
      BY <3>1, Fronts
  <2>9. f \o g = h
    <3>1. Len(h) = Len(f) + Len(g)
      BY <2>6
    <3>2. \A i \in 1..Len(f) : h[i] = f[i]
      BY <2>6
    <3>3. \A i \in 1..Len(g) : h[Len(f) + i] = g[i]
      BY <2>6
    <3> QED
      BY <3>1, <3>2, <3>3, Joins
  <2> QED
    BY <2>1, <2>2, <2>5, <2>7, <2>8, <2>9 DEF Outline
<1>6. Outline(<<a, b, d>>, <<d, c, a>>) = <<a, b, d, c>>
  <2>1. PICK l \in Seq(Point) : l = <<a, b, d>> BY <1>1
  <2>2. PICK u \in Seq(Point) : u = <<d, c, a>> BY <1>1
  <2>3. PICK f \in Seq(Point) : f = <<a, b>> BY <1>1
  <2>4. PICK g \in Seq(Point) : g = <<d, c>> BY <1>1
  <2>5. PICK h \in Seq(Point) : h = <<a, b, d, c>> BY <1>1
  <2>6. /\ Len(l) = 3 /\ l[1] = a /\ l[2] = b /\ l[3] = d
        /\ Len(u) = 3 /\ u[1] = d /\ u[2] = c /\ u[3] = a
        /\ Len(f) = 2 /\ f[1] = a /\ f[2] = b
        /\ Len(g) = 2 /\ g[1] = d /\ g[2] = c
        /\ Len(h) = 4 /\ h[1] = a /\ h[2] = b /\ h[3] = d /\ h[4] = c
    BY <2>1, <2>2, <2>3, <2>4, <2>5
  <2>7. Front(l) = f
    <3>1. Len(l) = Len(f) + 1 /\ \A i \in 1..Len(f) : l[i] = f[i]
      BY <2>6
    <3> QED
      BY <3>1, Fronts
  <2>8. Front(u) = g
    <3>1. Len(u) = Len(g) + 1 /\ \A i \in 1..Len(g) : u[i] = g[i]
      BY <2>6
    <3> QED
      BY <3>1, Fronts
  <2>9. f \o g = h
    <3>1. Len(h) = Len(f) + Len(g)
      BY <2>6
    <3>2. \A i \in 1..Len(f) : h[i] = f[i]
      BY <2>6
    <3>3. \A i \in 1..Len(g) : h[Len(f) + i] = g[i]
      BY <2>6
    <3> QED
      BY <3>1, <3>2, <3>3, Joins
  <2> QED
    BY <2>1, <2>2, <2>5, <2>7, <2>8, <2>9 DEF Outline
<1>7. Outline(<<a, b, c, d>>, <<d, a>>) = <<a, b, c, d>>
  <2>1. PICK l \in Seq(Point) : l = <<a, b, c, d>> BY <1>1
  <2>2. PICK u \in Seq(Point) : u = <<d, a>> BY <1>1
  <2>3. PICK f \in Seq(Point) : f = <<a, b, c>> BY <1>1
  <2>4. PICK g \in Seq(Point) : g = <<d>> BY <1>1
  <2>5. PICK h \in Seq(Point) : h = <<a, b, c, d>> BY <1>1
  <2>6. /\ Len(l) = 4 /\ l[1] = a /\ l[2] = b /\ l[3] = c /\ l[4] = d
        /\ Len(u) = 2 /\ u[1] = d /\ u[2] = a
        /\ Len(f) = 3 /\ f[1] = a /\ f[2] = b /\ f[3] = c
        /\ Len(g) = 1 /\ g[1] = d
        /\ Len(h) = 4 /\ h[1] = a /\ h[2] = b /\ h[3] = c /\ h[4] = d
    BY <2>1, <2>2, <2>3, <2>4, <2>5
  <2>7. Front(l) = f
    <3>1. Len(l) = Len(f) + 1 /\ \A i \in 1..Len(f) : l[i] = f[i]
      BY <2>6
    <3> QED
      BY <3>1, Fronts
  <2>8. Front(u) = g
    <3>1. Len(u) = Len(g) + 1 /\ \A i \in 1..Len(g) : u[i] = g[i]
      BY <2>6
    <3> QED
      BY <3>1, Fronts
  <2>9. f \o g = h
    <3>1. Len(h) = Len(f) + Len(g)
      BY <2>6
    <3>2. \A i \in 1..Len(f) : h[i] = f[i]
      BY <2>6
    <3>3. \A i \in 1..Len(g) : h[Len(f) + i] = g[i]
      BY <2>6
    <3> QED
      BY <3>1, <3>2, <3>3, Joins
  <2> QED
    BY <2>1, <2>2, <2>5, <2>7, <2>8, <2>9 DEF Outline
<1> QED
  BY <1>2, <1>3, <1>4, <1>5, <1>6, <1>7 DEF Outlined

LEMMA OutlineOfThree ==
    ASSUME NEW points \in SUBSET Point, NEW a \in points, NEW b \in points, NEW c \in points,
           \A p \in points : p = a \/ p = b \/ p = c, LeftBelow(a, b), LeftBelow(b, c)
    PROVE  Around(Outline(IF Orientation(a, b, c) > 0 THEN <<a, b, c>> ELSE <<a, c>>,
                          IF Orientation(c, b, a) > 0 THEN <<c, b, a>> ELSE <<c, a>>), points)
<1>0. a \in Point /\ b \in Point /\ c \in Point
  OBVIOUS
<1>1. PICK o \in Int : o = Orientation(a, b, c) BY TurnIs
<1>2. /\ Orientation(c, b, a) = -o /\ Orientation(a, c, b) = -o /\ Orientation(b, c, a) = o
      /\ Orientation(c, a, b) = o /\ Orientation(b, a, c) = -o
  BY <1>1, TurnsAgree
<1>3. \A x, y \in Point : Orientation(x, y, x) = 0 /\ Orientation(x, y, y) = 0
  BY NoTurn
<1>7. Outlined(a, b, c, c) /\ Outlined(a, b, b, c)
  BY Outlines
<1>4. CASE o > 0
  <2>1. LeftOfTriangle(a, a, b, c) /\ LeftOfTriangle(b, a, b, c) /\ LeftOfTriangle(c, a, b, c)
    BY <1>1, <1>2, <1>3, <1>4 DEF LeftOfTriangle
  <2>2. Around(<<a, b, c>>, points)
    BY <2>1, <1>1, <1>4 DEF Around
  <2>3. Outline(<<a, b, c>>, <<c, a>>) = <<a, b, c>>
    BY <1>7 DEF Outlined
  <2> QED
    BY <2>2, <2>3, <1>1, <1>2, <1>4
<1>5. CASE o < 0
  <2>1. LeftOfTriangle(a, a, c, b) /\ LeftOfTriangle(b, a, c, b) /\ LeftOfTriangle(c, a, c, b)
    BY <1>1, <1>2, <1>3, <1>5, TurnsAgree DEF LeftOfTriangle
  <2>2. Around(<<a, c, b>>, points)
    <3>1. \A p \in points : LeftOfTriangle(p, a, c, b)
      BY <2>1
    <3>2. Orientation(a, c, b) > 0
      BY <1>2, <1>5
    <3> QED
      BY <3>1, <3>2 DEF Around
  <2>3. Outline(<<a, c>>, <<c, b, a>>) = <<a, c, b>>
    BY <1>7 DEF Outlined
  <2> QED
    BY <2>2, <2>3, <1>1, <1>2, <1>5
<1>6. CASE o = 0
  <2>1. On(a, c, b)
    BY <1>1, <1>6, SortedOnLine
  <2>2. a # c
    BY LeftBelowOrders
  <2>3. \A x, y \in Point : On(x, y, x) /\ On(x, y, y)
    <3>1. \A x \in Point : x[1] \in Int /\ x[2] \in Int
      BY DEF Point
    <3> QED
      BY <1>3, <3>1 DEF On, OnSegment, Lesser, Greater
  <2>4. Around(<<a, c>>, points)
    <3>1. \A p \in points : On(a, c, p)
      BY <2>1, <2>3
    <3> QED
      BY <3>1, <2>2 DEF Around
  <2>5. Outline(<<a, c>>, <<c, a>>) = <<a, c>>
    BY <1>7 DEF Outlined
  <2> QED
    BY <2>4, <2>5, <1>1, <1>2, <1>6
<1> QED
  BY <1>4, <1>5, <1>6

(* The lower and the upper chain of four points a, b, c, d.                *)
Under(a, b, c, d) ==
    IF Orientation(a, b, c) > 0
    THEN IF Orientation(b, c, d) > 0 THEN <<a, b, c, d>>
         ELSE IF Orientation(a, b, d) > 0 THEN <<a, b, d>> ELSE <<a, d>>
    ELSE IF Orientation(a, c, d) > 0 THEN <<a, c, d>> ELSE <<a, d>>

LEMMA OutlineOfFour ==
    ASSUME NEW points \in SUBSET Point,
           NEW a \in points, NEW b \in points, NEW c \in points, NEW d \in points,
           \A p \in points : p = a \/ p = b \/ p = c \/ p = d,
           LeftBelow(a, b), LeftBelow(b, c), LeftBelow(c, d)
    PROVE  Around(Outline(Under(a, b, c, d), Under(d, c, b, a)), points)
<1>0. a \in Point /\ b \in Point /\ c \in Point /\ d \in Point
  OBVIOUS
<1>1. PICK o1 \in Int : o1 = Orientation(a, b, c) BY TurnIs
<1>2. PICK o2 \in Int : o2 = Orientation(a, b, d) BY TurnIs
<1>3. PICK o3 \in Int : o3 = Orientation(a, c, d) BY TurnIs
<1>4. PICK o4 \in Int : o4 = Orientation(b, c, d) BY TurnIs
<1>5. /\ Pulls(o1, o3, o2) /\ Pulls(o2, o4, o3) /\ Pulls(o1, o4, o2) /\ Pulls(o1, o4, o3)
      /\ o1 + o3 = o2 + o4
  BY <1>1, <1>2, <1>3, <1>4, SortedTurns, FourTurns DEF SortedPulls
<1>6. /\ Orientation(b, c, a) = o1 /\ Orientation(c, a, b) = o1
      /\ Orientation(b, a, c) = -o1 /\ Orientation(a, c, b) = -o1 /\ Orientation(c, b, a) = -o1
  BY <1>1, TurnsAgree
<1>7. /\ Orientation(b, d, a) = o2 /\ Orientation(d, a, b) = o2
      /\ Orientation(b, a, d) = -o2 /\ Orientation(a, d, b) = -o2 /\ Orientation(d, b, a) = -o2
  BY <1>2, TurnsAgree
<1>8. /\ Orientation(c, d, a) = o3 /\ Orientation(d, a, c) = o3
      /\ Orientation(c, a, d) = -o3 /\ Orientation(a, d, c) = -o3 /\ Orientation(d, c, a) = -o3
  BY <1>3, TurnsAgree
<1>9. /\ Orientation(c, d, b) = o4 /\ Orientation(d, b, c) = o4
      /\ Orientation(c, b, d) = -o4 /\ Orientation(b, d, c) = -o4 /\ Orientation(d, c, b) = -o4
  BY <1>4, TurnsAgree
<1>10. \A x, y \in Point : Orientation(x, y, x) = 0 /\ Orientation(x, y, y) = 0
  BY NoTurn
<1>11. Under(a, b, c, d) = IF o1 > 0 THEN IF o4 > 0 THEN <<a, b, c, d>>
                                          ELSE IF o2 > 0 THEN <<a, b, d>> ELSE <<a, d>>
                           ELSE IF o3 > 0 THEN <<a, c, d>> ELSE <<a, d>>
  BY <1>1, <1>2, <1>3, <1>4 DEF Under
<1>12. Under(d, c, b, a) = IF o4 < 0 THEN IF o1 < 0 THEN <<d, c, b, a>>
                                          ELSE IF o3 < 0 THEN <<d, c, a>> ELSE <<d, a>>
                           ELSE IF o2 < 0 THEN <<d, b, a>> ELSE <<d, a>>
  <2>1. /\ Orientation(d, c, b) > 0 <=> o4 < 0
        /\ Orientation(c, b, a) > 0 <=> o1 < 0
        /\ Orientation(d, c, a) > 0 <=> o3 < 0
        /\ Orientation(d, b, a) > 0 <=> o2 < 0
    BY <1>6, <1>7, <1>8, <1>9
  <2> QED
    BY <2>1 DEF Under
<1>22. Outlined(a, b, c, d) /\ Outlined(a, c, b, d)
  BY <1>0, Outlines
<1> HIDE DEF Under
<1>13. CASE o1 > 0 /\ o4 > 0
  <2>1. o2 > 0 /\ o3 > 0
    BY <1>5, <1>13 DEF Pulls
  <2>2. Outline(Under(a, b, c, d), Under(d, c, b, a)) = <<a, b, c, d>>
    <3>1. Under(a, b, c, d) = <<a, b, c, d>>
      BY <1>11, <1>12, <1>13, <2>1
    <3>2. Under(d, c, b, a) = <<d, a>>
      BY <1>11, <1>12, <1>13, <2>1
    <3>3. Outline(<<a, b, c, d>>, <<d, a>>) = <<a, b, c, d>>
      BY <1>22 DEF Outlined
    <3> QED
      BY <3>1, <3>2, <3>3
  <2>3. Quad(a, b, c, d)
    BY <1>1, <1>4, <1>7, <1>8, <1>13, <2>1 DEF Quad
  <2>4. /\ LeftOfQuad(a, a, b, c, d) /\ LeftOfQuad(b, a, b, c, d)
        /\ LeftOfQuad(c, a, b, c, d) /\ LeftOfQuad(d, a, b, c, d)
    BY <1>0, <1>1, <1>2, <1>3, <1>4, <1>6, <1>7, <1>8, <1>9, <1>10, <1>13, <2>1 DEF LeftOfQuad
  <2> QED
    BY <2>2, <2>3, <2>4 DEF Around
<1>14. CASE o1 > 0 /\ o4 < 0 /\ o2 > 0 /\ o3 < 0
  <2>1. Outline(Under(a, b, c, d), Under(d, c, b, a)) = <<a, b, d, c>>
    <3>1. Under(a, b, c, d) = <<a, b, d>>
      BY <1>11, <1>12, <1>14
    <3>2. Under(d, c, b, a) = <<d, c, a>>
      BY <1>11, <1>12, <1>14
    <3>3. Outline(<<a, b, d>>, <<d, c, a>>) = <<a, b, d, c>>
      BY <1>22 DEF Outlined
    <3> QED
      BY <3>1, <3>2, <3>3
  <2>2. Quad(a, b, d, c)
    BY <1>2, <1>6, <1>8, <1>9, <1>14 DEF Quad
  <2>3. /\ LeftOfQuad(a, a, b, d, c) /\ LeftOfQuad(b, a, b, d, c)
        /\ LeftOfQuad(c, a, b, d, c) /\ LeftOfQuad(d, a, b, d, c)
    BY <1>0, <1>1, <1>2, <1>3, <1>4, <1>6, <1>7, <1>8, <1>9, <1>10, <1>14 DEF LeftOfQuad
  <2> QED
    BY <2>1, <2>2, <2>3 DEF Around
<1>15. CASE o1 > 0 /\ o4 <= 0 /\ o2 > 0 /\ o3 >= 0
  <2>1. Outline(Under(a, b, c, d), Under(d, c, b, a)) = <<a, b, d>>
    <3>1. Under(a, b, c, d) = <<a, b, d>>
      BY <1>11, <1>12, <1>15
    <3>2. Under(d, c, b, a) = <<d, a>>
      BY <1>11, <1>12, <1>15
    <3>3. Outline(<<a, b, d>>, <<d, a>>) = <<a, b, d>>
      BY <1>22 DEF Outlined
    <3> QED
      BY <3>1, <3>2, <3>3
  <2>2. Orientation(a, b, d) > 0
    BY <1>2, <1>15
  <2>3. /\ LeftOfTriangle(a, a, b, d) /\ LeftOfTriangle(b, a, b, d)
        /\ LeftOfTriangle(c, a, b, d) /\ LeftOfTriangle(d, a, b, d)
    BY <1>0, <1>1, <1>2, <1>3, <1>4, <1>6, <1>7, <1>8, <1>9, <1>10, <1>15 DEF LeftOfTriangle
  <2> QED
    BY <2>1, <2>2, <2>3 DEF Around
<1>16. CASE o1 >= 0 /\ o4 < 0 /\ o2 <= 0
  <2>1. o3 < 0
    BY <1>5, <1>16
  <2>2. Outline(Under(a, b, c, d), Under(d, c, b, a)) = <<a, d, c>>
    <3>1. Under(a, b, c, d) = <<a, d>>
      BY <1>11, <1>12, <1>16, <2>1
    <3>2. Under(d, c, b, a) = <<d, c, a>>
      BY <1>11, <1>12, <1>16, <2>1
    <3>3. Outline(<<a, d>>, <<d, c, a>>) = <<a, d, c>>
      BY <1>22 DEF Outlined
    <3> QED
      BY <3>1, <3>2, <3>3
  <2>3. Orientation(a, d, c) > 0
    BY <1>8, <2>1
  <2>4. /\ LeftOfTriangle(a, a, d, c) /\ LeftOfTriangle(b, a, d, c)
        /\ LeftOfTriangle(c, a, d, c) /\ LeftOfTriangle(d, a, d, c)
    BY <1>0, <1>1, <1>2, <1>3, <1>4, <1>6, <1>7, <1>8, <1>9, <1>10, <1>16, <2>1 DEF LeftOfTriangle
  <2> QED
    BY <2>2, <2>3, <2>4 DEF Around
<1>17. CASE o1 < 0 /\ o4 < 0
  <2>1. o2 < 0 /\ o3 < 0
    BY <1>5, <1>17 DEF Pulls
  <2>2. Outline(Under(a, b, c, d), Under(d, c, b, a)) = <<a, d, c, b>>
    <3>1. Under(a, b, c, d) = <<a, d>>
      BY <1>11, <1>12, <1>17, <2>1
    <3>2. Under(d, c, b, a) = <<d, c, b, a>>
      BY <1>11, <1>12, <1>17, <2>1
    <3>3. Outline(<<a, d>>, <<d, c, b, a>>) = <<a, d, c, b>>
      BY <1>22 DEF Outlined
    <3> QED
      BY <3>1, <3>2, <3>3
  <2>3. Quad(a, d, c, b)
    BY <1>6, <1>7, <1>8, <1>9, <1>17, <2>1 DEF Quad
  <2>4. /\ LeftOfQuad(a, a, d, c, b) /\ LeftOfQuad(b, a, d, c, b)
        /\ LeftOfQuad(c, a, d, c, b) /\ LeftOfQuad(d, a, d, c, b)
    BY <1>0, <1>1, <1>2, <1>3, <1>4, <1>6, <1>7, <1>8, <1>9, <1>10, <1>17, <2>1 DEF LeftOfQuad
  <2> QED
    BY <2>2, <2>3, <2>4 DEF Around
<1>18. CASE o1 <= 0 /\ o4 >= 0 /\ o3 <= 0 /\ o2 < 0
  <2>1. Outline(Under(a, b, c, d), Under(d, c, b, a)) = <<a, d, b>>
    <3>1. Under(a, b, c, d) = <<a, d>>
      BY <1>11, <1>12, <1>18
    <3>2. Under(d, c, b, a) = <<d, b, a>>
      BY <1>11, <1>12, <1>18
    <3>3. Outline(<<a, d>>, <<d, b, a>>) = <<a, d, b>>
      BY <1>22 DEF Outlined
    <3> QED
      BY <3>1, <3>2, <3>3
  <2>2. Orientation(a, d, b) > 0
    BY <1>7, <1>18
  <2>3. /\ LeftOfTriangle(a, a, d, b) /\ LeftOfTriangle(b, a, d, b)
        /\ LeftOfTriangle(c, a, d, b) /\ LeftOfTriangle(d, a, d, b)
    BY <1>0, <1>1, <1>2, <1>3, <1>4, <1>6, <1>7, <1>8, <1>9, <1>10, <1>18 DEF LeftOfTriangle
  <2> QED
    BY <2>1, <2>2, <2>3 DEF Around
<1>19. CASE o1 = 0 /\ o2 = 0 /\ o3 = 0 /\ o4 = 0
  <2>1. Outline(Under(a, b, c, d), Under(d, c, b, a)) = <<a, d>>
    <3>1. Under(a, b, c, d) = <<a, d>>
      BY <1>11, <1>12, <1>19
    <3>2. Under(d, c, b, a) = <<d, a>>
      BY <1>11, <1>12, <1>19
    <3>3. Outline(<<a, d>>, <<d, a>>) = <<a, d>>
      BY <1>22 DEF Outlined
    <3> QED
      BY <3>1, <3>2, <3>3
  <2>2. LeftBelow(a, d) /\ LeftBelow(a, c) /\ LeftBelow(b, d) /\ a # d
    BY <1>0, LeftBelowOrders
  <2>3. On(a, d, b) /\ On(a, d, c)
    BY <1>0, <1>2, <1>3, <1>19, <2>2, SortedOnLine
  <2>4. On(a, d, a) /\ On(a, d, d)
    <3>1. \A x \in Point : x[1] \in Int /\ x[2] \in Int
      BY DEF Point
    <3> QED
      BY <1>0, <1>10, <3>1 DEF On, OnSegment, Lesser, Greater
  <2>5. \A p \in points : On(a, d, p)
    BY <2>3, <2>4
  <2> QED
    BY <2>1, <2>2, <2>5 DEF Around
<1>20. CASE o1 < 0 /\ o3 > 0 /\ o4 > 0 /\ o2 < 0
  <2>1. Outline(Under(a, b, c, d), Under(d, c, b, a)) = <<a, c, d, b>>
    <3>1. Under(a, b, c, d) = <<a, c, d>>
      BY <1>11, <1>12, <1>20
    <3>2. Under(d, c, b, a) = <<d, b, a>>
      BY <1>11, <1>12, <1>20
    <3>3. Outline(<<a, c, d>>, <<d, b, a>>) = <<a, c, d, b>>
      BY <1>22 DEF Outlined
    <3> QED
      BY <3>1, <3>2, <3>3
  <2>2. Quad(a, c, d, b)
    BY <1>3, <1>6, <1>7, <1>9, <1>20 DEF Quad
  <2>3. /\ LeftOfQuad(a, a, c, d, b) /\ LeftOfQuad(b, a, c, d, b)
        /\ LeftOfQuad(c, a, c, d, b) /\ LeftOfQuad(d, a, c, d, b)
    BY <1>0, <1>1, <1>2, <1>3, <1>4, <1>6, <1>7, <1>8, <1>9, <1>10, <1>20 DEF LeftOfQuad
  <2> QED
    BY <2>1, <2>2, <2>3 DEF Around
<1>21. CASE o1 <= 0 /\ o3 > 0 /\ o4 >= 0 /\ o2 >= 0
  <2>1. Outline(Under(a, b, c, d), Under(d, c, b, a)) = <<a, c, d>>
    <3>1. Under(a, b, c, d) = <<a, c, d>>
      BY <1>11, <1>12, <1>21
    <3>2. Under(d, c, b, a) = <<d, a>>
      BY <1>11, <1>12, <1>21
    <3>3. Outline(<<a, c, d>>, <<d, a>>) = <<a, c, d>>
      BY <1>22 DEF Outlined
    <3> QED
      BY <3>1, <3>2, <3>3
  <2>2. Orientation(a, c, d) > 0
    BY <1>3, <1>21
  <2>3. /\ LeftOfTriangle(a, a, c, d) /\ LeftOfTriangle(b, a, c, d)
        /\ LeftOfTriangle(c, a, c, d) /\ LeftOfTriangle(d, a, c, d)
    BY <1>0, <1>1, <1>2, <1>3, <1>4, <1>6, <1>7, <1>8, <1>9, <1>10, <1>21 DEF LeftOfTriangle
  <2> QED
    BY <2>1, <2>2, <2>3 DEF Around
<1> QED
  BY <1>5, <1>13, <1>14, <1>15, <1>16, <1>17, <1>18, <1>19, <1>20, <1>21 DEF Pulls

LEMMA HullIsAround ==
    ASSUME NEW points \in SUBSET Point, IsFiniteSet(points), points # {},
           Cardinality(points) <= 4
    PROVE  Around(ConvexHull(points), points)
<1>1. PICK n \in Nat : n = Cardinality(points)
  BY FS_CardinalityType
<1>2. PICK s : s = Sorted(points) OBVIOUS
<1>3. /\ s \in [1..n -> points]
      /\ \A p \in points : \E i \in 1..n : s[i] = p
      /\ \A i, j \in 1..n : i < j => LeftBelow(s[i], s[j])
  BY <1>1, <1>2, SortedIs
<1>4. n \in 1..4
  <2>1. n # 0
    BY <1>1, FS_EmptySet
  <2> QED
    BY <2>1, <1>1
<1>5. s \in Seq(Point) /\ Len(s) = n /\ \A i \in 1..n : s[i] \in points
  BY <1>3, <1>4
<1>6. PICK r : r = Reverse(s) OBVIOUS
<1>7. r \in Seq(Point) /\ Len(r) = n /\ \A i \in 1..n : r[i] = s[(n - i) + 1]
  <2>1. r = [i \in 1..n |-> s[(n - i) + 1]]
    BY <1>5, <1>6 DEF Reverse
  <2>2. \A i \in 1..n : s[(n - i) + 1] \in Point
    <3>1. \A i \in 1..n : (n - i) + 1 \in 1..n
      BY <1>4
    <3> QED
      BY <3>1, <1>5
  <2>3. r \in [1..n -> Point]
    BY <2>1, <2>2
  <2> QED
    BY <2>1, <2>3, <1>4
<1>8. ConvexHull(points) = IF n = 1 THEN s ELSE Outline(Chain(s), Chain(r))
  BY <1>2, <1>5, <1>6 DEF ConvexHull, Outline
<1>9. CASE n = 1
  <2>1. s[1] \in points /\ \A p \in points : p = s[1]
    BY <1>3, <1>5, <1>9
  <2>2. <<s[1]>> \in Seq(Point) /\ Len(<<s[1]>>) = 1 /\ <<s[1]>>[1] = s[1]
    BY <2>1
  <2>3. s = <<s[1]>>
    BY <2>2, <1>5, <1>9, SequencesMeet
  <2>4. points = {s[1]}
    BY <2>1
  <2> QED
    BY <2>1, <2>3, <2>4, <1>8, <1>9 DEF Around
<1>10. CASE n = 2
  <2>1. PICK a \in points : a = s[1] BY <1>5, <1>10
  <2>2. PICK b \in points : b = s[2] BY <1>5, <1>10
  <2>3. r[1] = b /\ r[2] = a
    BY <1>7, <1>10, <2>1, <2>2
  <2>4. LeftBelow(a, b) /\ \A p \in points : p = a \/ p = b
    BY <1>3, <1>10, <2>1, <2>2
  <2>5. Chain(s) = <<a, b>> /\ Chain(r) = <<b, a>>
    BY <1>5, <1>7, <1>10, <2>1, <2>2, <2>3, ChainShort
  <2>6. ConvexHull(points) = <<a, b>>
    <3>1. Outlined(a, a, a, b)
      BY Outlines
    <3>2. Outline(<<a, b>>, <<b, a>>) = <<a, b>>
      BY <3>1 DEF Outlined
    <3> QED
      BY <1>8, <1>10, <2>5, <3>2
  <2>7. a # b
    BY <2>4, LeftBelowOrders
  <2>8. On(a, b, a) /\ On(a, b, b)
    <3>1. \A x \in Point : x[1] \in Int /\ x[2] \in Int
      BY DEF Point
    <3> QED
      BY <3>1, NoTurn DEF On, OnSegment, Lesser, Greater
  <2>9. \A p \in points : On(a, b, p)
    BY <2>4, <2>8
  <2> QED
    BY <2>6, <2>7, <2>9 DEF Around
<1>11. CASE n = 3
  <2>1. PICK a \in points : a = s[1] BY <1>5, <1>11
  <2>2. PICK b \in points : b = s[2] BY <1>5, <1>11
  <2>3. PICK c \in points : c = s[3] BY <1>5, <1>11
  <2>4. r[1] = c /\ r[2] = b /\ r[3] = a
    BY <1>7, <1>11, <2>1, <2>2, <2>3
  <2>5. LeftBelow(a, b) /\ LeftBelow(b, c) /\ \A p \in points : p = a \/ p = b \/ p = c
    BY <1>3, <1>11, <2>1, <2>2, <2>3
  <2>6. /\ Chain(s) = IF Orientation(a, b, c) > 0 THEN <<a, b, c>> ELSE <<a, c>>
        /\ Chain(r) = IF Orientation(c, b, a) > 0 THEN <<c, b, a>> ELSE <<c, a>>
    BY <1>5, <1>7, <1>11, <2>1, <2>2, <2>3, <2>4, ChainShort
  <2> QED
    BY <1>8, <1>11, <2>5, <2>6, OutlineOfThree
<1>12. CASE n = 4
  <2>1. PICK a \in points : a = s[1] BY <1>5, <1>12
  <2>2. PICK b \in points : b = s[2] BY <1>5, <1>12
  <2>3. PICK c \in points : c = s[3] BY <1>5, <1>12
  <2>4. PICK d \in points : d = s[4] BY <1>5, <1>12
  <2>5. r[1] = d /\ r[2] = c /\ r[3] = b /\ r[4] = a
    BY <1>7, <1>12, <2>1, <2>2, <2>3, <2>4
  <2>6. /\ LeftBelow(a, b) /\ LeftBelow(b, c) /\ LeftBelow(c, d)
        /\ \A p \in points : p = a \/ p = b \/ p = c \/ p = d
    BY <1>3, <1>12, <2>1, <2>2, <2>3, <2>4
  <2>7. Chain(s) = Under(a, b, c, d) /\ Chain(r) = Under(d, c, b, a)
    BY <1>5, <1>7, <1>12, <2>1, <2>2, <2>3, <2>4, <2>5, ChainShort DEF Under
  <2> QED
    BY <1>8, <1>12, <2>6, <2>7, OutlineOfFour
<1> QED
  BY <1>4, <1>9, <1>10, <1>11, <1>12

-----------------------------------------------------------------------------
(* Powers of two: the first n of them, and then all.                       *)
PowerRule(p, n) == IF n = 0 THEN 1 ELSE 2 * p[n - 1]

LEMMA PowersUpTo ==
    ASSUME NEW n \in Nat
    PROVE  \E p \in [0..n -> Nat] : \A k \in 0..n : p[k] = PowerRule(p, k)
<1> DEFINE Good(m) == \E p \in [0..m -> Nat] : \A k \in 0..m : p[k] = PowerRule(p, k)
           Bad == {m \in Nat : ~Good(m)}
<1>1. SUFFICES ASSUME Bad # {} PROVE FALSE
  BY <1>1
<1>2. PICK m \in Bad : \A y \in Bad : m <= y
  BY <1>1, LeastNumber
<1>3. m # 0
  <2> DEFINE p == [k \in 0..0 |-> 1]
  <2>1. p \in [0..0 -> Nat] /\ \A k \in 0..0 : p[k] = PowerRule(p, k)
    BY DEF PowerRule
  <2> HIDE DEF p
  <2>2. Good(0)
    BY <2>1
  <2> QED
    BY <1>2, <2>2
<1>4. m - 1 \in Nat /\ Good(m - 1)
  <2>1. m \in Nat /\ m - 1 \in Nat /\ ~(m <= m - 1)
    BY <1>2, <1>3
  <2>2. m - 1 \notin Bad
    <3> HIDE DEF Bad
    <3> QED
      BY <1>2, <2>1
  <2> QED
    BY <2>1, <2>2
<1>5. PICK p \in [0..(m - 1) -> Nat] : \A k \in 0..(m - 1) : p[k] = PowerRule(p, k)
  BY <1>4
<1> DEFINE q == [k \in 0..m |-> IF k = m THEN 2 * p[m - 1] ELSE p[k]]
<1>6. q \in [0..m -> Nat]
  <2>1. \A k \in 0..m : k # m => k \in 0..(m - 1)
    BY <1>4
  <2>2. m - 1 \in 0..(m - 1)
    BY <1>4
  <2> QED
    BY <1>5, <2>1, <2>2
<1>7. ASSUME NEW k \in 0..m PROVE q[k] = PowerRule(q, k)
  <2>1. CASE k = m
    <3>1. m - 1 \in 0..m /\ m - 1 # m
      BY <1>4
    <3>2. q[m - 1] = p[m - 1] /\ q[m] = 2 * p[m - 1]
      BY <2>1, <3>1
    <3> HIDE DEF q
    <3> QED
      BY <1>3, <2>1, <3>2 DEF PowerRule
  <2>2. CASE k # m
    <3>1. k \in 0..(m - 1) /\ (k # 0 => k - 1 \in 0..m /\ k - 1 # m)
      BY <1>4, <2>2
    <3>2. q[k] = p[k] /\ (k # 0 => q[k - 1] = p[k - 1])
      BY <2>2, <3>1
    <3> HIDE DEF q
    <3> QED
      BY <1>5, <3>1, <3>2 DEF PowerRule
  <2> QED
    BY <2>1, <2>2
<1> HIDE DEF q
<1>8. Good(m)
  BY <1>6, <1>7
<1> QED
  BY <1>2, <1>8

LEMMA PowersAgree ==
    ASSUME NEW m \in Nat, NEW n \in Nat, m <= n,
           NEW p, NEW q,
           \A k \in 0..m : p[k] = PowerRule(p, k), \A k \in 0..n : q[k] = PowerRule(q, k)
    PROVE  p[m] = q[m]
<1> DEFINE Bad == {k \in 0..m : p[k] # q[k]}
<1>1. SUFFICES ASSUME Bad # {} PROVE FALSE
  OBVIOUS
<1>2. PICK k \in Bad : \A y \in Bad : k <= y
  <2>1. Bad \in SUBSET Nat
    OBVIOUS
  <2> QED
    BY <1>1, <2>1, LeastNumber
<1>3. k \in 0..m /\ k \in 0..n /\ p[k] # q[k]
  BY <1>2
<1>4. k # 0
  BY <1>3 DEF PowerRule
<1>5. k - 1 \in 0..m /\ ~(k <= k - 1)
  BY <1>3, <1>4
<1>6. p[k - 1] = q[k - 1]
  <2>1. k - 1 \notin Bad
    <3> HIDE DEF Bad
    <3> QED
      BY <1>2, <1>5
  <2> QED
    BY <1>5, <2>1
<1> QED
  BY <1>3, <1>4, <1>6 DEF PowerRule

Powers(n, p) == p \in [0..n -> Nat] /\ \A k \in 0..n : p[k] = PowerRule(p, k)
PowersOf(n) == CHOOSE p : Powers(n, p)

LEMMA PowersAre ==
    /\ TwoTo[0] = 1
    /\ \A n \in Nat : TwoTo[n] \in Nat
    /\ \A n \in Nat : TwoTo[n + 1] = 2 * TwoTo[n]
<1> DEFINE f == [n \in Nat |-> PowersOf(n)[n]]
<1>1. ASSUME NEW n \in Nat PROVE Powers(n, PowersOf(n))
  <2>1. \E p : Powers(n, p)
    BY PowersUpTo DEF Powers
  <2> QED
    BY <2>1 DEF PowersOf
<1>2. ASSUME NEW n \in Nat PROVE f[n] = PowerRule(f, n)
  <2>1. n \in 0..n /\ f[n] = PowersOf(n)[n]
    OBVIOUS
  <2>2. f[n] = PowerRule(PowersOf(n), n)
    BY <1>1, <2>1 DEF Powers
  <2>3. CASE n = 0
    BY <2>2, <2>3 DEF PowerRule
  <2>4. CASE n # 0
    <3>1. n - 1 \in Nat /\ n - 1 <= n
      BY <2>4
    <3>2. Powers(n, PowersOf(n)) /\ Powers(n - 1, PowersOf(n - 1))
      BY <1>1, <3>1
    <3>3. /\ \A k \in 0..n : PowersOf(n)[k] = PowerRule(PowersOf(n), k)
          /\ \A k \in 0..(n - 1) : PowersOf(n - 1)[k] = PowerRule(PowersOf(n - 1), k)
      BY <3>2 DEF Powers
    <3>4. PowersOf(n - 1)[n - 1] = PowersOf(n)[n - 1]
      BY <3>1, <3>3, PowersAgree
    <3>5. f[n - 1] = PowersOf(n - 1)[n - 1]
      BY <3>1
    <3> HIDE DEF f
    <3> QED
      BY <2>2, <2>4, <3>4, <3>5 DEF PowerRule
  <2> QED
    BY <2>3, <2>4
<1>3. f = [n \in Nat |-> f[n]] /\ \A n \in Nat : f[n] \in Nat
  <2>1. ASSUME NEW n \in Nat PROVE PowersOf(n)[n] \in Nat
    <3>1. n \in 0..n /\ PowersOf(n) \in [0..n -> Nat]
      BY <1>1 DEF Powers
    <3> QED
      BY <3>1
  <2> QED
    BY <2>1
<1> HIDE DEF f
<1>4. f = [n \in Nat |-> IF n = 0 THEN 1 ELSE 2 * f[n - 1]]
  BY <1>2, <1>3 DEF PowerRule
<1> DEFINE g == TwoTo
<1>5. g = [n \in Nat |-> IF n = 0 THEN 1 ELSE 2 * g[n - 1]]
  BY <1>4 DEF TwoTo
<1> HIDE DEF g
<1>6. g[0] = 1 /\ \A n \in Nat : g[n + 1] = 2 * g[n]
  <2>1. g[0] = 1
    BY <1>5
  <2>2. ASSUME NEW n \in Nat PROVE g[n + 1] = 2 * g[n]
    <3>1. n + 1 \in Nat /\ n + 1 # 0 /\ (n + 1) - 1 = n
      OBVIOUS
    <3> QED
      BY <1>5, <3>1
  <2> QED
    BY <2>1, <2>2
<1>7. \A n \in Nat : g[n] \in Nat
  <2> DEFINE Bad == {n \in Nat : g[n] \notin Nat}
  <2>1. SUFFICES ASSUME Bad # {} PROVE FALSE
    OBVIOUS
  <2>2. PICK n \in Bad : \A y \in Bad : n <= y
    BY <2>1, LeastNumber
  <2>3. n \in Nat /\ g[n] \notin Nat
    BY <2>2
  <2>4. n # 0
    BY <1>6, <2>3
  <2>5. n - 1 \in Nat /\ (n - 1) + 1 = n /\ ~(n <= n - 1)
    BY <2>3, <2>4
  <2>6. g[n - 1] \in Nat
    <3>1. n - 1 \notin Bad
      <4> HIDE DEF Bad
      <4> QED
        BY <2>2, <2>5
    <3> QED
      BY <2>5, <3>1
  <2>7. g[n] = 2 * g[n - 1]
    BY <1>6, <2>5
  <2> QED
    BY <2>3, <2>6, <2>7
<1> QED
  BY <1>6, <1>7 DEF g

LEMMA PowersDivide ==
    /\ \A n \in Nat : TwoTo[n] > 0
    /\ \A m \in Nat : \A n \in 0..m : TwoTo[n] * TwoTo[m - n] = TwoTo[m]
<1> DEFINE g == TwoTo
<1>1. /\ g[0] = 1 /\ \A k \in Nat : g[k] \in Nat /\ g[k + 1] = 2 * g[k]
  BY PowersAre
<1> HIDE DEF g
<1>2. \A n \in Nat : g[n] > 0
  <2> DEFINE Bad == {n \in Nat : ~(g[n] > 0)}
  <2>1. SUFFICES ASSUME Bad # {} PROVE FALSE
    OBVIOUS
  <2>2. PICK n \in Bad : \A y \in Bad : n <= y
    BY <2>1, LeastNumber
  <2>3. n # 0
    BY <1>1, <2>2
  <2>4. n - 1 \in Nat /\ (n - 1) + 1 = n /\ n - 1 \notin Bad
    <3>1. n - 1 \in Nat /\ (n - 1) + 1 = n /\ ~(n <= n - 1)
      BY <2>2, <2>3
    <3> HIDE DEF Bad
    <3> QED
      BY <2>2, <3>1
  <2>5. g[n - 1] > 0 /\ g[n] = 2 * g[n - 1] /\ g[n - 1] \in Nat
    BY <1>1, <2>4
  <2> QED
    BY <2>2, <2>5
<1>3. ASSUME NEW m \in Nat PROVE \A n \in 0..m : g[n] * g[m - n] = g[m]
  <2> DEFINE Bad == {n \in Nat : n <= m /\ g[n] * g[m - n] # g[m]}
  <2>1. SUFFICES ASSUME Bad # {} PROVE FALSE
    <3>1. \A n \in 0..m : n \in Nat /\ n <= m
      OBVIOUS
    <3> QED
      BY <3>1
  <2>2. PICK n \in Bad : \A y \in Bad : n <= y
    BY <2>1, LeastNumber
  <2>3. n \in Nat /\ n <= m /\ g[n] * g[m - n] # g[m]
    BY <2>2
  <2>4. n # 0
    <3>1. n = 0 => g[n] = 1 /\ m - n = m /\ g[m] \in Nat
      BY <1>1
    <3> QED
      BY <2>3, <3>1
  <2>5. n - 1 \in Nat /\ (n - 1) + 1 = n /\ n - 1 <= m /\ ~(n <= n - 1)
    BY <2>3, <2>4
  <2>6. g[n - 1] * g[m - (n - 1)] = g[m]
    <3>1. n - 1 \notin Bad
      <4> HIDE DEF Bad
      <4> QED
        BY <2>2, <2>5
    <3> QED
      BY <2>5, <3>1
  <2>7. m - n \in Nat /\ (m - n) + 1 = m - (n - 1)
    BY <2>3
  <2>8. PICK x \in Nat : x = g[n - 1] BY <1>1, <2>5
  <2>9. PICK y \in Nat : y = g[m - n] BY <1>1, <2>7
  <2>10. g[n] = 2 * x /\ g[m - (n - 1)] = 2 * y
    BY <1>1, <2>5, <2>7, <2>8, <2>9
  <2>11. x * (2 * y) = g[m] /\ (2 * x) * y # g[m]
    BY <2>3, <2>6, <2>8, <2>9, <2>10
  <2>12. x * (2 * y) = (2 * x) * y
    OBVIOUS
  <2> QED
    BY <2>11, <2>12
<1> QED
  BY <1>2, <1>3 DEF g

-----------------------------------------------------------------------------
(* Two robots on their ways.                                               *)

LEMMA WholeQuotient ==
    ASSUME NEW x \in Int, NEW n \in Nat \ {0}
    PROVE  (x * n) \div n = x
<1>1. PICK a \in Int : a = x * n OBVIOUS
<1>2. PICK q \in Int : q = a \div n OBVIOUS
<1>3. n * q <= a /\ a < n * (q + 1)
  BY <1>1, <1>2
<1>4. n * q <= n * x /\ n * x < n * (q + 1)
  BY <1>1, <1>3
<1>5. q <= x
  <2>1. q > x => n * q > n * x
    OBVIOUS
  <2> QED
    BY <2>1, <1>4
<1>6. x < q + 1
  <2>1. x >= q + 1 => n * x >= n * (q + 1)
    OBVIOUS
  <2> QED
    BY <2>1, <1>4
<1> QED
  BY <1>1, <1>2, <1>5, <1>6

LEMMA WholeParts ==
    ASSUME NEW p \in Int, NEW n \in Nat \ {0}, p % n = 0
    PROVE  \E x \in Int : p = x * n
<1>1. n \in Int /\ n > 0
  OBVIOUS
<1>2. p = n * (p \div n) /\ p \div n \in Int
  BY <1>1, SMT
<1>3. PICK q \in Int : q = p \div n
  BY <1>2
<1>4. p = q * n
  BY <1>2, <1>3
<1> QED
  BY <1>4

(* p + k * m                                                               *)
Along(p, m, k) == <<p[1] + m[1] * k, p[2] + m[2] * k>>

Whole(p, n) == p[1] % n = 0 /\ p[2] % n = 0

(* A way through whole points is run through evenly.                       *)
LEMMA WaysAreEven ==
    ASSUME NEW p \in Point, NEW q \in Point, NEW n \in Nat \ {0},
           Whole(p, n), Whole(q, n)
    PROVE  \E m \in Point : \A k \in Int : Interpolate(p, q, k, n) = Along(p, m, k)
<1>0. p[1] \in Int /\ p[2] \in Int /\ q[1] \in Int /\ q[2] \in Int
  BY DEF Point
<1>1. PICK a \in Int : p[1] = a * n BY <1>0, WholeParts DEF Whole
<1>2. PICK b \in Int : p[2] = b * n BY <1>0, WholeParts DEF Whole
<1>3. PICK c \in Int : q[1] = c * n BY <1>0, WholeParts DEF Whole
<1>4. PICK d \in Int : q[2] = d * n BY <1>0, WholeParts DEF Whole
<1>5. PICK x \in Int : x = c - a OBVIOUS
<1>6. PICK y \in Int : y = d - b OBVIOUS
<1>7. PICK m \in Point : m = <<x, y>>
  <2>1. <<x, y>> \in Point
    BY DEF Point
  <2> QED
    BY <2>1
<1>8. ASSUME NEW k \in Int
      PROVE  ((q[1] - p[1]) * k) \div n = x * k /\ ((q[2] - p[2]) * k) \div n = y * k
  <2>1. (q[1] - p[1]) * k = (x * k) * n
    BY <1>1, <1>3, <1>5
  <2>2. (q[2] - p[2]) * k = (y * k) * n
    BY <1>2, <1>4, <1>6
  <2>3. x * k \in Int /\ y * k \in Int
    OBVIOUS
  <2> QED
    BY <2>1, <2>2, <2>3, WholeQuotient
<1>9. m[1] = x /\ m[2] = y
  BY <1>7
<1> QED
  BY <1>8, <1>9 DEF Interpolate, Along

LEMMA AlongIsPoint ==
    ASSUME NEW p \in Point, NEW m \in Point, NEW k \in Int
    PROVE  Along(p, m, k) \in Point
  BY DEF Along, Point

LEMMA AlongIsOn ==
    ASSUME NEW p \in Point, NEW m \in Point, NEW s \in Int, NEW k \in Int, NEW e \in Int,
           s <= k, k <= e
    PROVE  On(Along(p, m, s), Along(p, m, e), Along(p, m, k))
<1>0. p[1] \in Int /\ p[2] \in Int /\ m[1] \in Int /\ m[2] \in Int
  BY DEF Point
<1>1. PICK x \in Int : x = m[1] BY <1>0
<1>2. PICK y \in Int : y = m[2] BY <1>0
<1>3. PICK h \in Nat : h = k - s OBVIOUS
<1>4. PICK l \in Nat : l = e - k OBVIOUS
<1>5. k = s + h /\ e = s + h + l
  BY <1>3, <1>4
<1>6. Orientation(Along(p, m, s), Along(p, m, e), Along(p, m, k)) = 0
  <2>1. /\ (p[1] + x * e) - (p[1] + x * s) = x * (h + l)
        /\ (p[2] + y * e) - (p[2] + y * s) = y * (h + l)
        /\ (p[1] + x * k) - (p[1] + x * s) = x * h
        /\ (p[2] + y * k) - (p[2] + y * s) = y * h
    BY <1>0, <1>5
  <2>2. (x * (h + l)) * (y * h) - (y * (h + l)) * (x * h) = 0
    OBVIOUS
  <2> QED
    BY <1>1, <1>2, <2>1, <2>2 DEF Orientation, Cross, Minus, Along
<1>7. ASSUME NEW z \in Int, NEW a \in Int
      PROVE  /\ Lesser(a + z * s, a + z * e) <= a + z * k
             /\ a + z * k <= Greater(a + z * s, a + z * e)
  <2>1. PICK S \in Int : S = z * s OBVIOUS
  <2>2. PICK H \in Int : H = z * h OBVIOUS
  <2>3. PICK L \in Int : L = z * l OBVIOUS
  <2>4. z * k = S + H /\ z * e = S + H + L
    BY <1>5, <2>1, <2>2, <2>3
  <2>5. (H >= 0 /\ L >= 0) \/ (H <= 0 /\ L <= 0)
    BY <2>2, <2>3, Products
  <2> QED
    BY <2>1, <2>4, <2>5 DEF Lesser, Greater
<1>8. OnSegment(Along(p, m, s), Along(p, m, e), Along(p, m, k))
  <2>1. /\ Lesser(p[1] + m[1] * s, p[1] + m[1] * e) <= p[1] + m[1] * k
        /\ p[1] + m[1] * k <= Greater(p[1] + m[1] * s, p[1] + m[1] * e)
    BY <1>0, <1>7
  <2>2. /\ Lesser(p[2] + m[2] * s, p[2] + m[2] * e) <= p[2] + m[2] * k
        /\ p[2] + m[2] * k <= Greater(p[2] + m[2] * s, p[2] + m[2] * e)
    BY <1>0, <1>7
  <2>3. \A x0 : /\ Along(p, m, x0)[1] = p[1] + m[1] * x0
                /\ Along(p, m, x0)[2] = p[2] + m[2] * x0
    BY DEF Along
  <2>4. \A i \in 1..2 : i = 1 \/ i = 2
    OBVIOUS
  <2> QED
    BY <2>1, <2>2, <2>3, <2>4 DEF OnSegment
<1> QED
  BY <1>6, <1>8 DEF On

LEMMA InstantsAre ==
    /\ Instants \in Nat \ {0}
    /\ Instants = 2 * TwoTo[Depth]
    /\ TwoTo[Depth] \in Nat /\ TwoTo[Depth] > 0
    /\ TwoTo[1] = 2
<1>1. Depth \in Nat
  BY GeometryAssumption
<1>2. PICK g : g = TwoTo OBVIOUS
<1>3. g[0] = 1 /\ (\A n \in Nat : g[n] \in Nat) /\ (\A n \in Nat : g[n + 1] = 2 * g[n])
  BY <1>2, PowersAre
<1>4. \A n \in Nat : g[n] > 0
  BY <1>2, PowersDivide
<1>5. g[0 + 1] = 2 * g[0] /\ 0 + 1 = 1
  BY <1>3
<1>6. g[Depth + 1] = 2 * g[Depth] /\ g[Depth] \in Nat /\ g[Depth] > 0
  BY <1>1, <1>3, <1>4
<1> QED
  BY <1>2, <1>3, <1>5, <1>6 DEF Instants

LEMMA RobotsMove ==
    ASSUME NEW d \in Duels
    PROVE  \E p, m, q, n \in Point : \A k \in Int :
              GuardianAt(d, k) = Along(p, m, k) /\ ExplorerAt(d, k) = Along(q, n, k)
<1>1. d \in DuelType /\ Instants \in Nat \ {0}
  BY GeometryAssumption, InstantsAre
<1>2. d.g0 \in Point /\ d.g1 \in Point /\ d.e0 \in Point /\ d.e1 \in Point
  BY <1>1 DEF DuelType
<1>3. /\ Whole(d.g0, Instants) /\ Whole(d.g1, Instants)
      /\ Whole(d.e0, Instants) /\ Whole(d.e1, Instants)
  <2>1. \A p \in {d.g0, d.g1, d.e0, d.e1} : p[1] % Instants = 0 /\ p[2] % Instants = 0
    BY GeometryAssumption
  <2> QED
    BY <2>1 DEF Whole
<1>4. PICK m \in Point : \A k \in Int :
         Interpolate(d.g0, d.g1, k, Instants) = Along(d.g0, m, k)
  BY <1>1, <1>2, <1>3, WaysAreEven
<1>5. PICK n \in Point : \A k \in Int :
         Interpolate(d.e0, d.e1, k, Instants) = Along(d.e0, n, k)
  BY <1>1, <1>2, <1>3, WaysAreEven
<1> QED
  BY <1>2, <1>4, <1>5 DEF GuardianAt, ExplorerAt

LEMMA CornersAreFew ==
    \A a, b, c, d : /\ IsFiniteSet({a, b, c, d})
                    /\ Cardinality({a, b, c, d}) <= 4
<1>1. SUFFICES ASSUME NEW a, NEW b, NEW c, NEW d
               PROVE  IsFiniteSet({a, b, c, d}) /\ Cardinality({a, b, c, d}) <= 4
  OBVIOUS
<1>2. PICK f \in [1..4 -> {a, b, c, d}] : f = <<a, b, c, d>>
  <2>1. <<a, b, c, d>> \in [1..4 -> {a, b, c, d}]
    OBVIOUS
  <2> QED
    BY <2>1
<1>3. f \in Surjection(1..4, {a, b, c, d})
  <2>1. f[1] = a /\ f[2] = b /\ f[3] = c /\ f[4] = d
    BY <1>2
  <2>2. \A y \in {a, b, c, d} : \E x \in 1..4 : f[x] = y
    BY <2>1
  <2> QED
    BY <2>2 DEF Surjection
<1>4. IsFiniteSet(1..4) /\ Cardinality(1..4) = 4
  <2>1. 1 \in Int /\ 4 \in Int
    OBVIOUS
  <2>2. IsFiniteSet(1..4) /\ Cardinality(1..4) = IF 1 > 4 THEN 0 ELSE 4 - 1 + 1
    BY <2>1, FS_Interval, Zenon
  <2> QED
    BY <2>2
<1>5. IsFiniteSet({a, b, c, d}) /\ Cardinality({a, b, c, d}) <= Cardinality(1..4)
  BY <1>3, <1>4, FS_Surjection
<1> QED
  BY <1>4, <1>5

(* The certificate for the line of sight.                                  *)
LEMMA CertifiedSightIsFree ==
    ASSUME NEW d \in Duels, NEW i \in Int \X Int, SightCertified(d, i),
           NEW k \in i[1]..i[2]
    PROVE  Sees(d, k)
<1>1. PICK p, m, q, n \in Point : \A j \in Int :
         GuardianAt(d, j) = Along(p, m, j) /\ ExplorerAt(d, j) = Along(q, n, j)
  BY RobotsMove
<1>2. i[1] \in Int /\ i[2] \in Int /\ k \in Int /\ i[1] <= k /\ k <= i[2]
  OBVIOUS
<1>3. PICK a \in Point : a = GuardianAt(d, i[1]) BY <1>1, <1>2, AlongIsPoint
<1>4. PICK b \in Point : b = GuardianAt(d, i[2]) BY <1>1, <1>2, AlongIsPoint
<1>5. PICK c \in Point : c = ExplorerAt(d, i[1]) BY <1>1, <1>2, AlongIsPoint
<1>6. PICK e \in Point : e = ExplorerAt(d, i[2]) BY <1>1, <1>2, AlongIsPoint
<1>7. PICK g \in Point : g = GuardianAt(d, k) BY <1>1, <1>2, AlongIsPoint
<1>8. PICK h \in Point : h = ExplorerAt(d, k) BY <1>1, <1>2, AlongIsPoint
<1>9. On(a, b, g) /\ On(c, e, h)
  <2>1. /\ a = Along(p, m, i[1]) /\ b = Along(p, m, i[2]) /\ g = Along(p, m, k)
        /\ c = Along(q, n, i[1]) /\ e = Along(q, n, i[2]) /\ h = Along(q, n, k)
    BY <1>1, <1>2, <1>3, <1>4, <1>5, <1>6, <1>7, <1>8
  <2> QED
    BY <1>2, <2>1, AlongIsOn
<1>10. PICK points : points = Corners(d, i) OBVIOUS
<1>11. points = {a, b, c, e}
  BY <1>3, <1>4, <1>5, <1>6, <1>10 DEF Corners
<1>12. points \in SUBSET Point /\ points # {}
  BY <1>11
<1>13. IsFiniteSet(points) /\ Cardinality(points) <= 4
  BY <1>11, CornersAreFew
<1>14. Around(ConvexHull(points), points)
  BY <1>12, <1>13, HullIsAround
<1>15. PICK x, y \in Point : d.wall = <<x, y>>
  <2>1. d.wall \in Point \X Point
    BY GeometryAssumption DEF DuelType
  <2> QED
    BY <2>1
<1>16. ~MeetsEnvelope(<<x, y>>, points)
  BY <1>10, <1>15 DEF SightCertified
<1>17. ~Contact(g, h, x, y)
  <2>1. a \in points /\ b \in points /\ c \in points /\ e \in points
    BY <1>11
  <2> QED
    BY <1>9, <1>12, <1>14, <1>16, <2>1, EnvelopeHides
<1> QED
  BY <1>7, <1>8, <1>15, <1>17 DEF Sees

-----------------------------------------------------------------------------
(* The search for a capture.                                               *)

LEMMA Squares == \A x \in Int : x * x \in Nat
<1>1. ASSUME NEW x \in Int PROVE x * x \in Int /\ x * x >= 0
  OBVIOUS
<1> QED
  BY <1>1

LEMMA DotIs ==
    \A p, q \in Point : /\ Dot(p, q) \in Int /\ Dot(p, p) \in Nat /\ Cross(p, q) \in Int
                        /\ Dot(p, q) = p[1] * q[1] + p[2] * q[2]
                        /\ Cross(p, q) = p[1] * q[2] - p[2] * q[1]
<1>1. \A p \in Point : p[1] \in Int /\ p[2] \in Int
  BY DEF Point
<1>2. \A p \in Point : p[1] * p[1] \in Nat /\ p[2] * p[2] \in Nat
  BY <1>1, Squares
<1> QED
  BY <1>1, <1>2 DEF Dot, Cross

(* Lagrange: what a vector is along and across another.                    *)
LEMMA Shares ==
    ASSUME NEW p \in Point, NEW q \in Point
    PROVE  Cross(p, q) * Cross(p, q) <= Dot(p, p) * Dot(q, q)
<1>1. PICK a \in Int : a = p[1] BY DEF Point
<1>2. PICK b \in Int : b = p[2] BY DEF Point
<1>3. PICK c \in Int : c = q[1] BY DEF Point
<1>4. PICK d \in Int : d = q[2] BY DEF Point
<1>5. PICK x \in Int : x = a * d - b * c OBVIOUS
<1>6. PICK y \in Int : y = a * c + b * d OBVIOUS
<1>7. x * x + y * y = (a * a + b * b) * (c * c + d * d)
  BY <1>5, <1>6
<1>8. y * y >= 0
  BY Squares
<1>9. PICK m \in Int : m = (a * a + b * b) * (c * c + d * d) OBVIOUS
<1>10. x * x <= m
  BY <1>7, <1>8, <1>9
<1>11. Cross(p, q) = x /\ Dot(p, p) = a * a + b * b /\ Dot(q, q) = c * c + d * d
  BY <1>1, <1>2, <1>3, <1>4, <1>5, DotIs
<1> QED
  BY <1>9, <1>10, <1>11

(* ComesClose, of the difference of the positions and its change.          *)
Nears(r, v) ==
    LET along == -Dot(r, v)
        length == Dot(v, v)
    IN  CASE along <= 0 -> Dot(r, r) < Reach * Reach
          [] along > 0 /\ along >= length ->
                LET w == <<r[1] + v[1], r[2] + v[2]>> IN Dot(w, w) < Reach * Reach
          [] OTHER -> Cross(r, v) * Cross(r, v) < Reach * Reach * length

LEMMA CloseIsNear ==
    ASSUME NEW r \in Point, NEW w \in Point, NEW t \in 0..2,
           Dot(Along(r, w, t), Along(r, w, t)) < Reach * Reach
    PROVE  Nears(r, Along(<<0, 0>>, w, 2))
<1>1. PICK a \in Int : a = r[1] BY DEF Point
<1>2. PICK b \in Int : b = r[2] BY DEF Point
<1>3. PICK c \in Int : c = w[1] BY DEF Point
<1>4. PICK d \in Int : d = w[2] BY DEF Point
<1>5. PICK C \in Nat : C = Reach * Reach
  BY GeometryAssumption, Squares
<1>6. PICK v \in Point : v = Along(<<0, 0>>, w, 2)
  <2>1. <<0, 0>> \in Point
    BY DEF Point
  <2> QED
    BY <2>1, AlongIsPoint
<1>7. v[1] = 2 * c /\ v[2] = 2 * d
  <2>1. v[1] = 0 + w[1] * 2 /\ v[2] = 0 + w[2] * 2
    BY <1>6 DEF Along
  <2> QED
    BY <2>1, <1>3, <1>4
<1>8. PICK x \in Point : x = Along(r, w, t) BY AlongIsPoint
<1>9. x[1] = a + c * t /\ x[2] = b + d * t
  BY <1>1, <1>2, <1>3, <1>4, <1>8 DEF Along
<1>10. PICK S \in Int : S = a * c + b * d OBVIOUS
<1>11. PICK L \in Nat : L = c * c + d * d
  <2>1. c * c \in Nat /\ d * d \in Nat
    BY Squares
  <2> QED
    BY <2>1
<1>12. PICK R \in Int : R = a * a + b * b OBVIOUS
<1>13. PICK X \in Nat : X = Dot(x, x) BY DotIs
<1>14. X < C
  BY <1>5, <1>8, <1>13
<1>15. X = R + 2 * t * S + t * t * L
  <2>1. X = (a + c * t) * (a + c * t) + (b + d * t) * (b + d * t)
    BY <1>9, <1>13, DotIs
  <2> QED
    BY <2>1, <1>10, <1>11, <1>12
<1>16. t = 0 \/ t = 1 \/ t = 2
  OBVIOUS
<1>17. (t = 0 => X = R) /\ (t = 1 => X = R + 2 * S + L) /\ (t = 2 => X = R + 4 * S + 4 * L)
  BY <1>15
<1>18. Dot(r, r) = R /\ Dot(r, v) = 2 * S /\ Dot(v, v) = 4 * L
  <2>1. Dot(r, r) = a * a + b * b
    BY <1>1, <1>2, DotIs
  <2>2. Dot(r, v) = a * (2 * c) + b * (2 * d)
    BY <1>1, <1>2, <1>7, DotIs
  <2>3. Dot(v, v) = (2 * c) * (2 * c) + (2 * d) * (2 * d)
    BY <1>7, DotIs
  <2> QED
    BY <2>1, <2>2, <2>3, <1>10, <1>11, <1>12
<1>19. PICK y \in Point : y = <<r[1] + v[1], r[2] + v[2]>>
  <2>1. r[1] + v[1] \in Int /\ r[2] + v[2] \in Int
    BY <1>1, <1>2, <1>7
  <2>2. <<r[1] + v[1], r[2] + v[2]>> \in Point
    BY <2>1 DEF Point
  <2> QED
    BY <2>2
<1>20. Dot(y, y) = R + 4 * S + 4 * L
  <2>1. y[1] = a + 2 * c /\ y[2] = b + 2 * d
    BY <1>1, <1>2, <1>7, <1>19
  <2>2. Dot(y, y) = (a + 2 * c) * (a + 2 * c) + (b + 2 * d) * (b + 2 * d)
    BY <2>1, DotIs
  <2> QED
    BY <2>2, <1>10, <1>11, <1>12
<1>21. CASE -(2 * S) <= 0
  <2>1. R < C
    BY <1>14, <1>16, <1>17, <1>21
  <2> QED
    BY <2>1, <1>5, <1>6, <1>18, <1>21 DEF Nears
<1>22. CASE -(2 * S) > 0 /\ -(2 * S) >= 4 * L
  <2>1. R + 4 * S + 4 * L < C
    BY <1>14, <1>16, <1>17, <1>22
  <2>2. ~(-(2 * S) <= 0)
    BY <1>22
  <2> QED
    BY <2>1, <2>2, <1>5, <1>6, <1>18, <1>19, <1>20, <1>22 DEF Nears
<1>23. CASE -(2 * S) > 0 /\ ~(-(2 * S) >= 4 * L)
  <2>1. L > 0
    BY <1>23
  <2>2. PICK K \in Int : K = Cross(x, w) BY DotIs
  <2>3. K * K <= X * L
    <3>1. Cross(x, w) * Cross(x, w) <= Dot(x, x) * Dot(w, w)
      BY Shares
    <3>2. Dot(w, w) = L
      BY <1>3, <1>4, <1>11, DotIs
    <3> QED
      BY <3>1, <3>2, <2>2, <1>13
  <2>4. X * L < C * L
    BY <2>1, <1>14
  <2>5. Cross(r, v) = 2 * K
    <3>1. Cross(r, v) = a * (2 * d) - b * (2 * c)
      BY <1>1, <1>2, <1>7, DotIs
    <3>2. K = (a + c * t) * d - (b + d * t) * c
      BY <2>2, <1>3, <1>4, <1>9, DotIs
    <3>3. (a + c * t) * d - (b + d * t) * c = a * d - b * c
      OBVIOUS
    <3> QED
      BY <3>1, <3>2, <3>3
  <2>6. PICK Q \in Int : Q = K * K OBVIOUS
  <2>7. PICK V \in Int : V = C * L OBVIOUS
  <2>8. Q < V
    BY <2>3, <2>4, <2>6, <2>7
  <2>9. Cross(r, v) * Cross(r, v) = 4 * Q /\ C * (4 * L) = 4 * V
    BY <2>5, <2>6, <2>7
  <2>10. Cross(r, v) * Cross(r, v) < C * (4 * L)
    BY <2>8, <2>9
  <2>11. ~(-(2 * S) <= 0)
    BY <1>23
  <2>12. Cross(r, v) * Cross(r, v) < Reach * Reach * Dot(v, v)
    BY <2>10, <1>5, <1>18
  <2> QED
    BY <2>11, <2>12, <1>6, <1>18, <1>23 DEF Nears
<1> QED
  BY <1>21, <1>22, <1>23

Differs(a, b, x, y, s, t) ==
    (a + x * (s + t)) - (b + y * (s + t)) = ((a + x * s) - (b + y * s)) + (x - y) * t

LEMMA DifferencesMove ==
    ASSUME NEW a \in Int, NEW b \in Int, NEW x \in Int, NEW y \in Int,
           NEW s \in Int, NEW t \in Int
    PROVE  Differs(a, b, x, y, s, t)
  BY DEF Differs

LEMMA ComesCloseIs ==
    ASSUME NEW d \in Duels, NEW s \in Int, NEW k \in s..(s + 2), Captured(d, k)
    PROVE  ComesClose(d, <<s, s + 2>>)
<1>1. PICK p, m, q, n \in Point : \A j \in Int :
         GuardianAt(d, j) = Along(p, m, j) /\ ExplorerAt(d, j) = Along(q, n, j)
  BY RobotsMove
<1>2. PICK t \in 0..2 : k = s + t
  <2>1. k - s \in 0..2 /\ k = s + (k - s)
    OBVIOUS
  <2> QED
    BY <2>1
<1>3. \A x \in Point : x[1] \in Int /\ x[2] \in Int
  BY DEF Point
<1>12. \A x, y \in Point : Minus(x, y) \in Point
  BY DEF Minus, Point
<1>4. PICK w \in Point : w = Minus(n, m)
  BY <1>12
<1>5. PICK r \in Point : r = Minus(Along(q, n, s), Along(p, m, s))
  BY <1>12, AlongIsPoint
<1>6. Minus(Along(q, n, k), Along(p, m, k)) = Along(r, w, t)
  <2>1. r[1] = (q[1] + n[1] * s) - (p[1] + m[1] * s) /\ r[2] = (q[2] + n[2] * s) - (p[2] + m[2] * s)
    BY <1>5 DEF Minus, Along
  <2>2. w[1] = n[1] - m[1] /\ w[2] = n[2] - m[2]
    BY <1>4 DEF Minus
  <2>4. (q[1] + n[1] * k) - (p[1] + m[1] * k) = r[1] + w[1] * t
    <3>1. Differs(q[1], p[1], n[1], m[1], s, t)
      <4>1. q[1] \in Int /\ p[1] \in Int /\ n[1] \in Int /\ m[1] \in Int /\ t \in Int
        BY <1>3
      <4> QED
        BY <4>1, DifferencesMove
    <3> QED
      BY <3>1, <2>1, <2>2, <1>2 DEF Differs
  <2>5. (q[2] + n[2] * k) - (p[2] + m[2] * k) = r[2] + w[2] * t
    <3>1. Differs(q[2], p[2], n[2], m[2], s, t)
      <4>1. q[2] \in Int /\ p[2] \in Int /\ n[2] \in Int /\ m[2] \in Int /\ t \in Int
        BY <1>3
      <4> QED
        BY <4>1, DifferencesMove
    <3> QED
      BY <3>1, <2>1, <2>2, <1>2 DEF Differs
  <2> QED
    BY <2>4, <2>5 DEF Minus, Along
<1>7. Minus(Minus(Along(q, n, s + 2), Along(p, m, s + 2)), r) = Along(<<0, 0>>, w, 2)
  <2>1. r[1] = (q[1] + n[1] * s) - (p[1] + m[1] * s) /\ r[2] = (q[2] + n[2] * s) - (p[2] + m[2] * s)
    BY <1>5 DEF Minus, Along
  <2>2. w[1] = n[1] - m[1] /\ w[2] = n[2] - m[2]
    BY <1>4 DEF Minus
  <2>4. ((q[1] + n[1] * (s + 2)) - (p[1] + m[1] * (s + 2))) - r[1] = 0 + w[1] * 2
    <3>1. Differs(q[1], p[1], n[1], m[1], s, 2)
      <4>1. q[1] \in Int /\ p[1] \in Int /\ n[1] \in Int /\ m[1] \in Int /\ 2 \in Int
        BY <1>3
      <4> QED
        BY <4>1, DifferencesMove
    <3>2. PICK a \in Int : a = q[1] BY <1>3
    <3>3. PICK b \in Int : b = p[1] BY <1>3
    <3>4. PICK x \in Int : x = n[1] BY <1>3
    <3>5. PICK y \in Int : y = m[1] BY <1>3
    <3>6. Differs(a, b, x, y, s, 2)
      BY <3>1, <3>2, <3>3, <3>4, <3>5
    <3>7. ((a + x * (s + 2)) - (b + y * (s + 2))) - ((a + x * s) - (b + y * s)) = 0 + (x - y) * 2
      BY <3>6 DEF Differs
    <3> QED
      BY <3>2, <3>3, <3>4, <3>5, <3>7, <2>1, <2>2
  <2>5. ((q[2] + n[2] * (s + 2)) - (p[2] + m[2] * (s + 2))) - r[2] = 0 + w[2] * 2
    <3>1. Differs(q[2], p[2], n[2], m[2], s, 2)
      <4>1. q[2] \in Int /\ p[2] \in Int /\ n[2] \in Int /\ m[2] \in Int /\ 2 \in Int
        BY <1>3
      <4> QED
        BY <4>1, DifferencesMove
    <3>2. PICK a \in Int : a = q[2] BY <1>3
    <3>3. PICK b \in Int : b = p[2] BY <1>3
    <3>4. PICK x \in Int : x = n[2] BY <1>3
    <3>5. PICK y \in Int : y = m[2] BY <1>3
    <3>6. Differs(a, b, x, y, s, 2)
      BY <3>1, <3>2, <3>3, <3>4, <3>5
    <3>7. ((a + x * (s + 2)) - (b + y * (s + 2))) - ((a + x * s) - (b + y * s)) = 0 + (x - y) * 2
      BY <3>6 DEF Differs
    <3> QED
      BY <3>2, <3>3, <3>4, <3>5, <3>7, <2>1, <2>2
  <2> QED
    BY <2>4, <2>5 DEF Minus, Along
<1>8. Dot(Along(r, w, t), Along(r, w, t)) < Reach * Reach
  <2>1. Minus(ExplorerAt(d, k), GuardianAt(d, k)) = Along(r, w, t)
    BY <1>1, <1>6
  <2> QED
    BY <2>1 DEF Captured
<1>9. Nears(r, Along(<<0, 0>>, w, 2))
  BY <1>8, CloseIsNear
<1>10. PICK i : i = <<s, s + 2>> OBVIOUS
<1>11. /\ Minus(ExplorerAt(d, i[1]), GuardianAt(d, i[1])) = r
       /\ Minus(Minus(ExplorerAt(d, i[2]), GuardianAt(d, i[2])), r) = Along(<<0, 0>>, w, 2)
  <2>1. i[1] = s /\ i[2] = s + 2 /\ s + 2 \in Int
    BY <1>10
  <2> QED
    BY <2>1, <1>1, <1>5, <1>7
<1> QED
  BY <1>9, <1>10, <1>11 DEF ComesClose, Nears

LEMMA IntervalsAre ==
    /\ Intervals \subseteq Int \X Int
    /\ \A i \in Intervals : /\ 0 <= i[1] /\ i[1] <= i[2] /\ i[2] <= Instants
                            /\ Looked(i) \subseteq 0..Instants
    /\ \A k \in 0..Instants : \E s \in Int : <<s, s + 2>> \in Intervals /\ k \in s..(s + 2)
<1>1. Depth \in Nat /\ Instants \in Nat \ {0} /\ TwoTo[Depth] \in Nat /\ TwoTo[Depth] > 0
  BY GeometryAssumption, InstantsAre
<1>2. PICK g : g = TwoTo OBVIOUS
<1>3. /\ \A n \in Nat : g[n] \in Nat /\ g[n] > 0
      /\ \A n \in 0..(Depth + 1) : g[n] * g[Depth + 1 - n] = Instants
  <2>1. PICK m \in Nat : m = Depth + 1
    BY <1>1
  <2>2. \A n \in 0..m : g[n] * g[m - n] = g[m]
    BY <1>2, PowersDivide
  <2>3. \A n \in Nat : g[n] \in Nat /\ g[n] > 0
    BY <1>2, PowersAre, PowersDivide
  <2>4. g[m] = Instants
    BY <1>2, <2>1 DEF Instants
  <2>5. \A n \in 0..(Depth + 1) : g[n] * g[Depth + 1 - n] = Instants
    <3>1. ASSUME NEW n \in 0..(Depth + 1) PROVE g[n] * g[Depth + 1 - n] = Instants
      <4>1. n \in 0..m /\ Depth + 1 - n = m - n
        BY <1>1, <2>1
      <4>2. g[n] * g[m - n] = g[m]
        BY <2>2, <4>1
      <4> QED
        BY <4>1, <4>2, <2>4
    <3> QED
      BY <3>1
  <2> QED
    BY <2>3, <2>5
<1>4. ASSUME NEW n \in 0..Depth, NEW j \in 0..(g[n] - 1),
             NEW i, i = <<j * g[Depth + 1 - n], (j + 1) * g[Depth + 1 - n]>>
      PROVE  /\ i \in Int \X Int /\ 0 <= i[1] /\ i[1] <= i[2] /\ i[2] <= Instants
             /\ Looked(i) \subseteq 0..Instants
  <2>1. n \in Nat /\ Depth + 1 - n \in Nat
    BY <1>1
  <2>2. PICK a \in Nat : a = g[n] BY <1>3, <2>1
  <2>3. PICK t \in Nat : t = g[Depth + 1 - n] BY <1>3, <2>1
  <2>4. a * t = Instants
    BY <1>1, <1>3, <2>2, <2>3
  <2>5. j \in Nat /\ j + 1 <= a
    BY <2>2
  <2>6. PICK x \in Int : x = j * t BY <2>5
  <2>7. (j + 1) * t = x + t
    BY <2>5, <2>6
  <2>8. 0 <= x /\ x + t <= Instants
    <3>1. 0 <= j * t
      BY <2>5
    <3>2. (j + 1) * t <= a * t
      BY <2>5
    <3> QED
      BY <3>1, <3>2, <2>4, <2>6, <2>7
  <2>9. i = <<x, x + t>>
    BY <1>4, <2>3, <2>6, <2>7
  <2>10. i[1] = x /\ i[2] = x + t
    BY <2>9
  <2>11. (x + (x + t)) \div 2 \in Int /\ x <= (x + (x + t)) \div 2 /\ (x + (x + t)) \div 2 <= x + t
    OBVIOUS
  <2>12. Looked(i) \subseteq 0..Instants
    <3>1. Looked(i) = {x, (x + (x + t)) \div 2, x + t}
      BY <2>10 DEF Looked
    <3>2. x \in 0..Instants /\ (x + (x + t)) \div 2 \in 0..Instants /\ x + t \in 0..Instants
      BY <2>8, <2>11, <1>1
    <3> QED
      BY <3>1, <3>2
  <2> QED
    BY <2>8, <2>9, <2>10, <2>12
<1>5. \A i : i \in Intervals <=> \E n \in 0..Depth : \E j \in 0..(g[n] - 1) :
                                    i = <<j * g[Depth + 1 - n], (j + 1) * g[Depth + 1 - n]>>
  BY <1>2 DEF Intervals
<1>6. ASSUME NEW k \in 0..Instants
      PROVE  \E s \in Int : <<s, s + 2>> \in Intervals /\ k \in s..(s + 2)
  <2>1. PICK a \in Nat : a = g[Depth] BY <1>1, <1>2
  <2>2. a > 0 /\ Instants = 2 * a /\ g[Depth + 1 - Depth] = 2
    <3>1. Depth + 1 - Depth = 1
      BY <1>1
    <3> QED
      BY <3>1, <1>2, <2>1, InstantsAre
  <2>3. \E j \in 0..(a - 1) : 2 * j <= k /\ k <= 2 * j + 2
    <3>1. CASE k = Instants
      <4>1. a - 1 \in 0..(a - 1) /\ 2 * (a - 1) <= k /\ k <= 2 * (a - 1) + 2
        BY <2>2, <3>1
      <4> QED
        BY <4>1
    <3>2. CASE k # Instants
      <4>1. k \div 2 \in Int /\ 2 * (k \div 2) <= k /\ k <= 2 * (k \div 2) + 1
        OBVIOUS
      <4>2. k \in Int /\ 0 <= k /\ k < 2 * a
        BY <2>2, <3>2
      <4>3. k \div 2 \in 0..(a - 1)
        BY <4>1, <4>2
      <4> QED
        BY <4>1, <4>2, <4>3
    <3> QED
      BY <3>1, <3>2
  <2>4. PICK j \in 0..(a - 1) : 2 * j <= k /\ k <= 2 * j + 2
    BY <2>3
  <2>5. <<j * 2, (j + 1) * 2>> \in Intervals
    <3>1. Depth \in 0..Depth
      BY <1>1
    <3>2. j \in 0..(g[Depth] - 1)
      BY <2>1
    <3> QED
      BY <3>1, <3>2, <2>2, <1>5
  <2>6. 2 * j \in Int /\ j * 2 = 2 * j /\ (j + 1) * 2 = 2 * j + 2 /\ k \in (2 * j)..(2 * j + 2)
    BY <2>4
  <2>7. <<2 * j, 2 * j + 2>> \in Intervals
    BY <2>5, <2>6
  <2> QED
    BY <2>6, <2>7
<1>7. \A i \in Intervals : /\ i \in Int \X Int /\ 0 <= i[1] /\ i[1] <= i[2] /\ i[2] <= Instants
                           /\ Looked(i) \subseteq 0..Instants
  BY <1>4, <1>5
<1> QED
  BY <1>6, <1>7

(* The search finds a capture exactly where an instant is one.             *)
LEMMA SearchMissesNone ==
    ASSUME NEW d \in Duels
    PROVE  CaptureFound(d) <=> \E k \in 0..Instants : Captured(d, k)
<1>1. ASSUME CaptureFound(d) PROVE \E k \in 0..Instants : Captured(d, k)
  BY <1>1, IntervalsAre DEF CaptureFound
<1>2. ASSUME NEW k \in 0..Instants, Captured(d, k) PROVE CaptureFound(d)
  <2>1. PICK s \in Int : <<s, s + 2>> \in Intervals /\ k \in s..(s + 2)
    BY IntervalsAre
  <2>2. ComesClose(d, <<s, s + 2>>)
    BY <1>2, <2>1, ComesCloseIs
  <2>3. k \in Looked(<<s, s + 2>>)
    <3>1. k = s \/ k = s + 1 \/ k = s + 2
      BY <2>1
    <3>2. (s + (s + 2)) \div 2 = s + 1
      OBVIOUS
    <3>3. Looked(<<s, s + 2>>) = {s, (s + (s + 2)) \div 2, s + 2}
      BY DEF Looked
    <3> QED
      BY <3>1, <3>2, <3>3
  <2> QED
    BY <1>2, <2>1, <2>2, <2>3 DEF CaptureFound
<1> QED
  BY <1>1, <1>2

SightInv ==
    scene.kind = "DUEL" =>
        /\ scene.of \in Duels
        /\ ruling.capture = CaptureFound(scene.of)
        /\ ruling.certified = {i \in Intervals : SightCertified(scene.of, i)}

LEMMA SightFollows == SightInv => SightIsSound
<1>1. SUFFICES ASSUME SightInv, scene.kind = "DUEL"
               PROVE  /\ \A i \in ruling.certified : \A k \in i[1]..i[2] : Sees(scene.of, k)
                      /\ ruling.capture <=> \E k \in 0..Instants : Captured(scene.of, k)
  BY DEF SightIsSound
<1>2. PICK d \in Duels : d = scene.of
  BY <1>1 DEF SightInv
<1>3. ruling.capture = CaptureFound(d) /\ ruling.certified = {i \in Intervals : SightCertified(d, i)}
  BY <1>1, <1>2 DEF SightInv
<1>4. \A i \in ruling.certified : \A k \in i[1]..i[2] : Sees(d, k)
  <2>1. SUFFICES ASSUME NEW i \in ruling.certified, NEW k \in i[1]..i[2] PROVE Sees(d, k)
    OBVIOUS
  <2>2. i \in Intervals /\ SightCertified(d, i)
    BY <1>3, <2>1
  <2>3. i \in Int \X Int
    BY <2>2, IntervalsAre
  <2> QED
    BY <2>1, <2>2, <2>3, CertifiedSightIsFree
<1> QED
  BY <1>2, <1>3, <1>4, SearchMissesNone

-----------------------------------------------------------------------------
(* Points of a way, and the order they come in.                            *)

Scaled(n, p) == <<n * p[1], n * p[2]>>

(* The point after k of n parts of the way from p to q, in n-th parts.     *)
PartOf(p, q, k, n) == <<n * p[1] + k * (q[1] - p[1]), n * p[2] + k * (q[2] - p[2])>>

Hits(p, q, k, n, a, b) == On(Scaled(n, a), Scaled(n, b), PartOf(p, q, k, n))

(* How far ahead x is on the way from p to q.                              *)
Ahead(p, q, x) == Dot(Minus(x, p), Minus(q, p))
Length(p, q) == Dot(Minus(q, p), Minus(q, p))

LEMMA ScaledIsPoint == \A p \in Point : \A n \in Int : Scaled(n, p) \in Point
  BY DEF Scaled, Point

LEMMA PartIsPoint ==
    \A p, q \in Point : \A k, n \in Int : PartOf(p, q, k, n) \in Point
  BY DEF PartOf, Point

LEMMA ScaledTurn ==
    ASSUME NEW a \in Point, NEW b \in Point, NEW c \in Point, NEW n \in Int
    PROVE  Orientation(Scaled(n, a), Scaled(n, b), Scaled(n, c)) = n * (n * Orientation(a, b, c))
<1>1. PICK x \in Int : x = b[1] - a[1] BY DEF Point
<1>2. PICK y \in Int : y = b[2] - a[2] BY DEF Point
<1>3. PICK z \in Int : z = c[1] - a[1] BY DEF Point
<1>4. PICK w \in Int : w = c[2] - a[2] BY DEF Point
<1>5. /\ n * b[1] - n * a[1] = n * x /\ n * b[2] - n * a[2] = n * y
      /\ n * c[1] - n * a[1] = n * z /\ n * c[2] - n * a[2] = n * w
  BY <1>1, <1>2, <1>3, <1>4 DEF Point
<1>6. Orientation(Scaled(n, a), Scaled(n, b), Scaled(n, c)) = (n * x) * (n * w) - (n * y) * (n * z)
  BY <1>5 DEF Orientation, Cross, Minus, Scaled
<1>7. Orientation(a, b, c) = x * w - y * z
  BY <1>1, <1>2, <1>3, <1>4, TurnIs
<1>8. (n * x) * (n * w) - (n * y) * (n * z) = n * (n * (x * w - y * z))
  OBVIOUS
<1> QED
  BY <1>6, <1>7, <1>8

LEMMA HitTurn ==
    ASSUME NEW p \in Point, NEW q \in Point, NEW a \in Point, NEW b \in Point,
           NEW k \in Int, NEW n \in Int
    PROVE  Orientation(Scaled(n, a), Scaled(n, b), PartOf(p, q, k, n))
              = n * (n * Orientation(a, b, p) + k * (Orientation(a, b, q) - Orientation(a, b, p)))
<1>1. PICK x \in Int : x = b[1] - a[1] BY DEF Point
<1>2. PICK y \in Int : y = b[2] - a[2] BY DEF Point
<1>3. PICK z \in Int : z = p[1] - a[1] BY DEF Point
<1>4. PICK w \in Int : w = p[2] - a[2] BY DEF Point
<1>5. PICK d \in Int : d = q[1] - p[1] BY DEF Point
<1>6. PICK e \in Int : e = q[2] - p[2] BY DEF Point
<1>7. /\ n * b[1] - n * a[1] = n * x /\ n * b[2] - n * a[2] = n * y
      /\ (n * p[1] + k * d) - n * a[1] = n * z + k * d
      /\ (n * p[2] + k * e) - n * a[2] = n * w + k * e
  BY <1>1, <1>2, <1>3, <1>4 DEF Point
<1>8. Orientation(Scaled(n, a), Scaled(n, b), PartOf(p, q, k, n))
         = (n * x) * (n * w + k * e) - (n * y) * (n * z + k * d)
  BY <1>5, <1>6, <1>7 DEF Orientation, Cross, Minus, Scaled, PartOf
<1>9. Orientation(a, b, p) = x * w - y * z
  BY <1>1, <1>2, <1>3, <1>4, TurnIs
<1>10. Orientation(a, b, q) - Orientation(a, b, p) = x * e - y * d
  <2>1. q[1] - a[1] = z + d /\ q[2] - a[2] = w + e
    BY <1>3, <1>4, <1>5, <1>6 DEF Point
  <2>2. Orientation(a, b, q) = x * (w + e) - y * (z + d)
    BY <2>1, <1>1, <1>2, TurnIs
  <2>3. x * (w + e) - y * (z + d) - (x * w - y * z) = x * e - y * d
    OBVIOUS
  <2> QED
    BY <2>2, <2>3, <1>9
<1>11. (n * x) * (n * w + k * e) - (n * y) * (n * z + k * d)
          = n * (n * (x * w - y * z) + k * (x * e - y * d))
  OBVIOUS
<1> QED
  BY <1>8, <1>9, <1>10, <1>11

LEMMA PartTurn ==
    ASSUME NEW p \in Point, NEW q \in Point, NEW k \in Int, NEW n \in Int
    PROVE  Orientation(Scaled(n, p), Scaled(n, q), PartOf(p, q, k, n)) = 0
<1>1. Orientation(p, q, p) = 0 /\ Orientation(p, q, q) = 0
  BY NoTurn
<1>2. Orientation(Scaled(n, p), Scaled(n, q), PartOf(p, q, k, n)) = n * (n * 0 + k * (0 - 0))
  BY <1>1, HitTurn
<1> QED
  BY <1>2

LEMMA Proportional ==
    ASSUME NEW d \in Int, NEW l \in Int, l > 0, NEW x \in Int, NEW y \in Int, d * y = l * x
    PROVE  /\ d > 0 => (x >= 0 <=> y >= 0) /\ (x <= 0 <=> y <= 0)
           /\ d < 0 => (x >= 0 <=> y <= 0) /\ (x <= 0 <=> y >= 0)
           /\ d = 0 => x = 0
<1>1. PICK m \in Int : m = d * y OBVIOUS
<1>2. (x > 0 => m > 0) /\ (x < 0 => m < 0) /\ (x = 0 => m = 0)
  <2>1. m = l * x
    BY <1>1
  <2> QED
    BY <2>1, Products
<1>3. /\ d > 0 => (y > 0 => m > 0) /\ (y < 0 => m < 0) /\ (y = 0 => m = 0)
      /\ d < 0 => (y > 0 => m < 0) /\ (y < 0 => m > 0) /\ (y = 0 => m = 0)
      /\ d = 0 => m = 0
  BY <1>1, Products
<1> QED
  BY <1>2, <1>3

(* On the line of a way, ahead is proportional to each coordinate.         *)
LEMMA AheadAlong ==
    ASSUME NEW p \in Point, NEW q \in Point, p # q,
           NEW x \in Point, NEW y \in Point, Orientation(p, q, x) = 0, Orientation(p, q, y) = 0,
           NEW i \in 1..2
    PROVE  /\ Length(p, q) \in Int /\ Length(p, q) > 0
           /\ Ahead(p, q, x) \in Int /\ Ahead(p, q, y) \in Int
           /\ (q[i] - p[i]) * (Ahead(p, q, y) - Ahead(p, q, x)) = Length(p, q) * (y[i] - x[i])
<1>1. PICK d \in Int : d = q[1] - p[1] BY DEF Point
<1>2. PICK e \in Int : e = q[2] - p[2] BY DEF Point
<1>3. PICK a \in Int : a = x[1] - p[1] BY DEF Point
<1>4. PICK b \in Int : b = x[2] - p[2] BY DEF Point
<1>5. PICK s \in Int : s = y[1] - p[1] BY DEF Point
<1>6. PICK t \in Int : t = y[2] - p[2] BY DEF Point
<1>7. d * b = e * a /\ d * t = e * s
  <2>1. Orientation(p, q, x) = d * b - e * a
    BY <1>1, <1>2, <1>3, <1>4, TurnIs
  <2>2. Orientation(p, q, y) = d * t - e * s
    BY <1>1, <1>2, <1>5, <1>6, TurnIs
  <2>3. d * b \in Int /\ e * a \in Int /\ d * t \in Int /\ e * s \in Int
    OBVIOUS
  <2> QED
    BY <2>1, <2>2, <2>3
<1>8. /\ Length(p, q) = d * d + e * e /\ Ahead(p, q, x) = a * d + b * e
      /\ Ahead(p, q, y) = s * d + t * e
  BY <1>1, <1>2, <1>3, <1>4, <1>5, <1>6 DEF Length, Ahead, Dot, Minus
<1>9. d * d + e * e > 0
  <2>1. d # 0 \/ e # 0
    BY <1>1, <1>2 DEF Point
  <2>2. (d # 0 => d * d > 0) /\ (e # 0 => e * e > 0) /\ d * d >= 0 /\ e * e >= 0
    BY Products
  <2> QED
    BY <2>1, <2>2
<1>10. d * ((s * d + t * e) - (a * d + b * e)) = (d * d + e * e) * (s - a)
  <2>1. (d * t) * e = (e * s) * e /\ (d * b) * e = (e * a) * e
    BY <1>7
  <2> QED
    BY <2>1
<1>11. e * ((s * d + t * e) - (a * d + b * e)) = (d * d + e * e) * (t - b)
  <2>1. (e * s) * d = (d * t) * d /\ (e * a) * d = (d * b) * d
    BY <1>7
  <2> QED
    BY <2>1
<1>12. y[1] - x[1] = s - a /\ y[2] - x[2] = t - b
  BY <1>3, <1>4, <1>5, <1>6 DEF Point
<1> QED
  BY <1>1, <1>2, <1>8, <1>9, <1>10, <1>11, <1>12

(* Between on the line is between ahead.                                   *)
Amid(f, g, h) == (f <= h /\ h <= g) \/ (g <= h /\ h <= f)

LEMMA LineOrder ==
    ASSUME NEW p \in Point, NEW q \in Point, p # q,
           NEW x \in Point, NEW y \in Point, NEW z \in Point,
           Orientation(p, q, x) = 0, Orientation(p, q, y) = 0, Orientation(p, q, z) = 0
    PROVE  OnSegment(x, y, z) <=> Amid(Ahead(p, q, x), Ahead(p, q, y), Ahead(p, q, z))
<1>1. PICK l \in Int : l = Length(p, q) /\ l > 0 BY AheadAlong
<1>2. PICK f \in Int : f = Ahead(p, q, x) BY AheadAlong
<1>3. PICK g \in Int : g = Ahead(p, q, y) BY AheadAlong
<1>4. PICK h \in Int : h = Ahead(p, q, z) BY AheadAlong
<1>5. \A i \in 1..2 : x[i] \in Int /\ y[i] \in Int /\ z[i] \in Int /\ p[i] \in Int /\ q[i] \in Int
  BY DEF Point
<1>6. \A i \in 1..2 : /\ (q[i] - p[i]) * (h - f) = l * (z[i] - x[i])
                      /\ (q[i] - p[i]) * (g - h) = l * (y[i] - z[i])
  BY <1>1, <1>2, <1>3, <1>4, AheadAlong
<1>7. ASSUME NEW i \in 1..2
      PROVE  /\ q[i] - p[i] > 0 => /\ z[i] - x[i] >= 0 <=> h - f >= 0
                                   /\ z[i] - x[i] <= 0 <=> h - f <= 0
                                   /\ y[i] - z[i] >= 0 <=> g - h >= 0
                                   /\ y[i] - z[i] <= 0 <=> g - h <= 0
             /\ q[i] - p[i] < 0 => /\ z[i] - x[i] >= 0 <=> h - f <= 0
                                   /\ z[i] - x[i] <= 0 <=> h - f >= 0
                                   /\ y[i] - z[i] >= 0 <=> g - h <= 0
                                   /\ y[i] - z[i] <= 0 <=> g - h >= 0
             /\ q[i] - p[i] = 0 => z[i] = x[i] /\ y[i] = z[i]
  <2>1. PICK d \in Int : d = q[i] - p[i] BY <1>5
  <2>2. PICK u \in Int : u = z[i] - x[i] BY <1>5
  <2>3. PICK v \in Int : v = y[i] - z[i] BY <1>5
  <2>4. PICK s \in Int : s = h - f OBVIOUS
  <2>5. PICK t \in Int : t = g - h OBVIOUS
  <2>6. d * s = l * u /\ d * t = l * v
    BY <1>6, <2>1, <2>2, <2>3, <2>4, <2>5
  <2>7. /\ d > 0 => (u >= 0 <=> s >= 0) /\ (u <= 0 <=> s <= 0)
        /\ d < 0 => (u >= 0 <=> s <= 0) /\ (u <= 0 <=> s >= 0)
        /\ d = 0 => u = 0
    BY <1>1, <2>6, Proportional
  <2>8. /\ d > 0 => (v >= 0 <=> t >= 0) /\ (v <= 0 <=> t <= 0)
        /\ d < 0 => (v >= 0 <=> t <= 0) /\ (v <= 0 <=> t >= 0)
        /\ d = 0 => v = 0
    BY <1>1, <2>6, Proportional
  <2>9. d = 0 => z[i] = x[i] /\ y[i] = z[i]
    BY <2>2, <2>3, <2>7, <2>8, <1>5
  <2> QED
    BY <2>1, <2>2, <2>3, <2>4, <2>5, <2>7, <2>8, <2>9
<1>8. \E i \in 1..2 : q[i] - p[i] # 0
  <2>1. p[1] # q[1] \/ p[2] # q[2]
    BY DEF Point
  <2>2. q[1] - p[1] # 0 \/ q[2] - p[2] # 0
    BY <2>1, <1>5
  <2> QED
    BY <2>2
<1>9. Amid(f, g, h) => OnSegment(x, y, z)
  <2>1. SUFFICES ASSUME Amid(f, g, h), NEW i \in 1..2
                 PROVE  Lesser(x[i], y[i]) <= z[i] /\ z[i] <= Greater(x[i], y[i])
    BY DEF OnSegment
  <2>2. PICK d \in Int : d = q[i] - p[i] BY <1>5
  <2>3. (x[i] <= z[i] /\ z[i] <= y[i]) \/ (y[i] <= z[i] /\ z[i] <= x[i])
    <3>1. CASE d > 0
      BY <2>1, <2>2, <3>1, <1>5, <1>7 DEF Amid
    <3>2. CASE d < 0
      BY <2>1, <2>2, <3>2, <1>5, <1>7 DEF Amid
    <3>3. CASE d = 0
      BY <2>2, <3>3, <1>5, <1>7
    <3> QED
      BY <3>1, <3>2, <3>3
  <2> QED
    BY <2>3, <1>5 DEF Lesser, Greater
<1>10. OnSegment(x, y, z) => Amid(f, g, h)
  <2>1. SUFFICES ASSUME OnSegment(x, y, z) PROVE Amid(f, g, h)
    OBVIOUS
  <2>2. PICK i \in 1..2 : q[i] - p[i] # 0
    BY <1>8
  <2>3. Lesser(x[i], y[i]) <= z[i] /\ z[i] <= Greater(x[i], y[i])
    BY <2>1 DEF OnSegment
  <2>4. (x[i] <= z[i] /\ z[i] <= y[i]) \/ (y[i] <= z[i] /\ z[i] <= x[i])
    BY <2>3, <1>5 DEF Lesser, Greater
  <2>5. PICK d \in Int : d = q[i] - p[i] BY <1>5
  <2>6. CASE d > 0
    BY <2>4, <2>5, <2>6, <1>5, <1>7 DEF Amid
  <2>7. CASE d < 0
    BY <2>4, <2>5, <2>7, <1>5, <1>7 DEF Amid
  <2> QED
    BY <2>2, <2>5, <2>6, <2>7
<1> QED
  BY <1>2, <1>3, <1>4, <1>9, <1>10

-----------------------------------------------------------------------------
(* Where a way meets an edge.                                              *)

LEMMA ScaledOn ==
    ASSUME NEW a \in Point, NEW b \in Point, NEW x \in Point, On(a, b, x), NEW n \in Nat
    PROVE  On(Scaled(n, a), Scaled(n, b), Scaled(n, x))
<1>1. Orientation(Scaled(n, a), Scaled(n, b), Scaled(n, x)) = 0
  <2>1. Orientation(Scaled(n, a), Scaled(n, b), Scaled(n, x)) = n * (n * 0)
    BY ScaledTurn DEF On
  <2> QED
    BY <2>1
<1>2. \A f, g, h \in Int : Lesser(f, g) <= h /\ h <= Greater(f, g)
                              => Lesser(n * f, n * g) <= n * h /\ n * h <= Greater(n * f, n * g)
  <2>1. SUFFICES ASSUME NEW f \in Int, NEW g \in Int, NEW h \in Int,
                        Lesser(f, g) <= h /\ h <= Greater(f, g)
                 PROVE  Lesser(n * f, n * g) <= n * h /\ n * h <= Greater(n * f, n * g)
    OBVIOUS
  <2>2. \A x1, x2 \in Int : x1 <= x2 => n * x1 <= n * x2
    OBVIOUS
  <2>3. n * f \in Int /\ n * g \in Int /\ n * h \in Int
    OBVIOUS
  <2>4. (f <= h /\ h <= g) \/ (g <= h /\ h <= f)
    BY <2>1 DEF Lesser, Greater
  <2>5. (n * f <= n * h /\ n * h <= n * g) \/ (n * g <= n * h /\ n * h <= n * f)
    BY <2>2, <2>4
  <2> QED
    BY <2>3, <2>5 DEF Lesser, Greater
<1>3. \A i \in 1..2 : a[i] \in Int /\ b[i] \in Int /\ x[i] \in Int
  BY DEF Point
<1>4. \A i \in 1..2 : /\ Scaled(n, a)[i] = n * a[i] /\ Scaled(n, b)[i] = n * b[i]
                      /\ Scaled(n, x)[i] = n * x[i]
  BY DEF Scaled
<1>5. OnSegment(Scaled(n, a), Scaled(n, b), Scaled(n, x))
  <2>1. SUFFICES ASSUME NEW i \in 1..2
                 PROVE  /\ Lesser(n * a[i], n * b[i]) <= n * x[i]
                        /\ n * x[i] <= Greater(n * a[i], n * b[i])
    BY <1>4 DEF OnSegment
  <2>2. Lesser(a[i], b[i]) <= x[i] /\ x[i] <= Greater(a[i], b[i])
    BY DEF On, OnSegment
  <2> QED
    BY <2>2, <1>2, <1>3
<1> QED
  BY <1>1, <1>5 DEF On

(* A way and an edge on two lines: where the lines meet.                   *)
LEMMA CrossingIs ==
    ASSUME NEW p \in Point, NEW q \in Point, NEW a \in Point, NEW b \in Point,
           ~Collinear(p, q, a, b), Contact(p, q, a, b)
    PROVE  LET f == ContactFraction(p, q, a, b)
               t == Orientation(a, b, p)
               r == Orientation(a, b, q)
           IN  /\ f[1] \in Int /\ f[2] \in Int /\ f[2] > 0 /\ 0 <= f[1] /\ f[1] <= f[2]
               /\ f[1] * (t - r) = t * f[2]
               /\ \/ f[1] = t /\ f[2] = t - r
                  \/ f[1] = -t /\ f[2] = -(t - r)
<1>1. PICK t \in Int : t = Orientation(a, b, p) BY TurnIs
<1>2. PICK r \in Int : r = Orientation(a, b, q) BY TurnIs
<1>3. PICK s \in Int : s = Orientation(p, q, a) BY TurnIs
<1>4. PICK u \in Int : u = Orientation(p, q, b) BY TurnIs
<1>5. ~OneSide(s, u) /\ ~OneSide(t, r)
  BY <1>1, <1>2, <1>3, <1>4 DEF Contact
<1>6. u - s = t - r
  BY <1>1, <1>2, <1>3, <1>4, FourTurns, TurnsAgree
<1>7. t - r # 0
  <2>1. SUFFICES ASSUME t = r PROVE FALSE
    OBVIOUS
  <2>2. s = 0 /\ u = 0 /\ t = 0 /\ r = 0
    BY <2>1, <1>5, <1>6 DEF OneSide
  <2> QED
    BY <2>2, <1>1, <1>2, <1>3, <1>4 DEF Collinear
<1>8. Cross(Minus(a, p), Minus(b, a)) = t
  <2>1. Cross(Minus(a, p), Minus(b, a)) = (a[1] - p[1]) * (b[2] - a[2]) - (a[2] - p[2]) * (b[1] - a[1])
    BY DEF Cross, Minus
  <2>2. t = (b[1] - a[1]) * (p[2] - a[2]) - (b[2] - a[2]) * (p[1] - a[1])
    BY <1>1, TurnIs
  <2>3. PICK x \in Int : x = b[1] - a[1] BY DEF Point
  <2>4. PICK y \in Int : y = b[2] - a[2] BY DEF Point
  <2>5. PICK z \in Int : z = p[1] - a[1] /\ a[1] - p[1] = -z BY DEF Point
  <2>6. PICK w \in Int : w = p[2] - a[2] /\ a[2] - p[2] = -w BY DEF Point
  <2>7. (-z) * y - (-w) * x = x * w - y * z
    OBVIOUS
  <2> QED
    BY <2>1, <2>2, <2>3, <2>4, <2>5, <2>6, <2>7
<1>9. Cross(Minus(q, p), Minus(b, a)) = t - r
  <2>1. Cross(Minus(q, p), Minus(b, a)) = (q[1] - p[1]) * (b[2] - a[2]) - (q[2] - p[2]) * (b[1] - a[1])
    BY DEF Cross, Minus
  <2>2. /\ t = (b[1] - a[1]) * (p[2] - a[2]) - (b[2] - a[2]) * (p[1] - a[1])
        /\ r = (b[1] - a[1]) * (q[2] - a[2]) - (b[2] - a[2]) * (q[1] - a[1])
    BY <1>1, <1>2, TurnIs
  <2>3. PICK x \in Int : x = b[1] - a[1] BY DEF Point
  <2>4. PICK y \in Int : y = b[2] - a[2] BY DEF Point
  <2>5. PICK z \in Int : z = p[1] - a[1] BY DEF Point
  <2>6. PICK w \in Int : w = p[2] - a[2] BY DEF Point
  <2>7. PICK d \in Int : d = q[1] - p[1] /\ q[1] - a[1] = z + d BY <2>5 DEF Point
  <2>8. PICK e \in Int : e = q[2] - p[2] /\ q[2] - a[2] = w + e BY <2>6 DEF Point
  <2>9. d * y - e * x = (x * w - y * z) - (x * (w + e) - y * (z + d))
    OBVIOUS
  <2> QED
    BY <2>1, <2>2, <2>3, <2>4, <2>5, <2>6, <2>7, <2>8, <2>9
<1>10. ContactFraction(p, q, a, b) = IF t - r > 0 THEN <<t, t - r>> ELSE <<-t, -(t - r)>>
  BY <1>8, <1>9 DEF ContactFraction
<1>11. CASE t - r > 0
  <2>1. t >= 0 /\ r <= 0
    BY <1>5, <1>11 DEF OneSide
  <2>2. t * (t - r) = t * (t - r)
    OBVIOUS
  <2> QED
    BY <2>1, <2>2, <1>1, <1>2, <1>10, <1>11
<1>12. CASE t - r < 0
  <2>1. t <= 0 /\ r >= 0
    BY <1>5, <1>12 DEF OneSide
  <2>2. (-t) * (t - r) = t * (-(t - r))
    OBVIOUS
  <2>3. ~(t - r > 0)
    BY <1>12
  <2> QED
    BY <2>1, <2>2, <2>3, <1>1, <1>2, <1>10, <1>12
<1> QED
  BY <1>7, <1>11, <1>12

(* ... and that this is on the edge.                                       *)
LEMMA CrossingHits ==
    ASSUME NEW p \in Point, NEW q \in Point, NEW a \in Point, NEW b \in Point,
           ~Collinear(p, q, a, b), Contact(p, q, a, b)
    PROVE  Hits(p, q, ContactFraction(p, q, a, b)[1], ContactFraction(p, q, a, b)[2], a, b)
<1>1. PICK t \in Int : t = Orientation(a, b, p) BY TurnIs
<1>2. PICK r \in Int : r = Orientation(a, b, q) BY TurnIs
<1>3. PICK s \in Int : s = Orientation(p, q, a) BY TurnIs
<1>4. PICK u \in Int : u = Orientation(p, q, b) BY TurnIs
<1>5. u - s = t - r
  BY <1>1, <1>2, <1>3, <1>4, FourTurns, TurnsAgree
<1>6. PICK k \in Int : k = ContactFraction(p, q, a, b)[1] BY CrossingIs
<1>7. PICK n \in Int : n = ContactFraction(p, q, a, b)[2] BY CrossingIs
<1>8. n > 0 /\ k * (t - r) = t * n /\ ((k = t /\ n = t - r) \/ (k = -t /\ n = -(t - r)))
  BY <1>1, <1>2, <1>6, <1>7, CrossingIs
<1>9. Orientation(Scaled(n, a), Scaled(n, b), PartOf(p, q, k, n)) = 0
  <2>1. Orientation(Scaled(n, a), Scaled(n, b), PartOf(p, q, k, n)) = n * (n * t + k * (r - t))
    BY <1>1, <1>2, HitTurn
  <2>2. n * t + k * (r - t) = 0
    BY <1>8
  <2> QED
    BY <2>1, <2>2
<1>10. ~OneSide(s, u)
  BY <1>3, <1>4 DEF Contact
<1>11. PICK m \in Int : (n = t - r => m = -s) /\ (n # t - r => m = s)
  <2>1. CASE n = t - r
    BY <2>1
  <2>2. CASE n # t - r
    BY <2>2
  <2> QED
    BY <2>1, <2>2
<1>12. 0 <= m /\ m <= n
  BY <1>5, <1>8, <1>10, <1>11 DEF OneSide
<1>13. ASSUME NEW i \in 1..2
       PROVE  PartOf(p, q, k, n)[i] = n * a[i] + m * (b[i] - a[i])
  <2>1. PICK x \in Int : x = b[1] - a[1] BY DEF Point
  <2>2. PICK y \in Int : y = b[2] - a[2] BY DEF Point
  <2>3. PICK z \in Int : z = p[1] - a[1] BY DEF Point
  <2>4. PICK w \in Int : w = p[2] - a[2] BY DEF Point
  <2>5. PICK d \in Int : d = q[1] - p[1] /\ q[1] - a[1] = z + d BY <2>3 DEF Point
  <2>6. PICK e \in Int : e = q[2] - p[2] /\ q[2] - a[2] = w + e BY <2>4 DEF Point
  <2>7. t = x * w - y * z
    BY <1>1, <2>1, <2>2, <2>3, <2>4, TurnIs
  <2>8. r = x * (w + e) - y * (z + d)
    BY <1>2, <2>1, <2>2, <2>5, <2>6, TurnIs
  <2>9. s = e * z - d * w
    <3>1. a[1] - p[1] = -z /\ a[2] - p[2] = -w
      BY <2>3, <2>4 DEF Point
    <3>2. s = d * (-w) - e * (-z)
      BY <3>1, <1>3, <2>5, <2>6, TurnIs
    <3> QED
      BY <3>2
  <2>10. /\ (t - r) * z + t * d = (-s) * x
         /\ (t - r) * w + t * e = (-s) * y
    <3>1. t - r = d * y - e * x
      BY <2>7, <2>8
    <3>2. (d * y - e * x) * z + (x * w - y * z) * d = (-(e * z - d * w)) * x
      OBVIOUS
    <3>3. (d * y - e * x) * w + (x * w - y * z) * e = (-(e * z - d * w)) * y
      OBVIOUS
    <3> QED
      BY <3>1, <3>2, <3>3, <2>7, <2>9
  <2>11. n * z + k * d = m * x /\ n * w + k * e = m * y
    <3>1. CASE n = t - r
      <4>1. k = t /\ m = -s
        BY <1>8, <1>11, <3>1
      <4> QED
        BY <4>1, <3>1, <2>10
    <3>2. CASE n # t - r
      <4>1. k = -t /\ n = -(t - r) /\ m = s
        BY <1>8, <1>11, <3>2
      <4>2. /\ (-(t - r)) * z + (-t) * d = -((t - r) * z + t * d)
            /\ (-(t - r)) * w + (-t) * e = -((t - r) * w + t * e)
            /\ -((-s) * x) = s * x /\ -((-s) * y) = s * y
        OBVIOUS
      <4> QED
        BY <4>1, <4>2, <2>10
    <3> QED
      BY <3>1, <3>2
  <2>12. PartOf(p, q, k, n)[1] = n * p[1] + k * d /\ PartOf(p, q, k, n)[2] = n * p[2] + k * e
    BY <2>5, <2>6 DEF PartOf
  <2>13. n * p[1] = n * a[1] + n * z /\ n * p[2] = n * a[2] + n * w
    BY <2>3, <2>4 DEF Point
  <2>14. n * a[1] \in Int /\ n * a[2] \in Int
    BY DEF Point
  <2>15. /\ PartOf(p, q, k, n)[1] = n * a[1] + m * x
         /\ PartOf(p, q, k, n)[2] = n * a[2] + m * y
    BY <2>11, <2>12, <2>13, <2>14
  <2> QED
    BY <2>1, <2>2, <2>15
<1>14. OnSegment(Scaled(n, a), Scaled(n, b), PartOf(p, q, k, n))
  <2>1. \A f, g \in Int : /\ Lesser(n * f, n * g) <= n * f + m * (g - f)
                          /\ n * f + m * (g - f) <= Greater(n * f, n * g)
    <3>1. SUFFICES ASSUME NEW f \in Int, NEW g \in Int
                   PROVE  /\ Lesser(n * f, n * g) <= n * f + m * (g - f)
                          /\ n * f + m * (g - f) <= Greater(n * f, n * g)
      OBVIOUS
    <3>2. PICK h \in Int : h = g - f OBVIOUS
    <3>3. PICK N \in Int : N = n * h OBVIOUS
    <3>4. PICK M \in Int : M = m * h OBVIOUS
    <3>5. PICK F \in Int : F = n * f OBVIOUS
    <3>6. n * g = F + N
      BY <3>2, <3>3, <3>5
    <3>7. N - M = (n - m) * h
      BY <3>3, <3>4
    <3>8. (h >= 0 => M >= 0 /\ N - M >= 0) /\ (h <= 0 => M <= 0 /\ N - M <= 0)
      BY <3>4, <3>7, <1>12, Products
    <3> QED
      BY <3>2, <3>4, <3>5, <3>6, <3>8 DEF Lesser, Greater
  <2>2. \A i \in 1..2 : a[i] \in Int /\ b[i] \in Int
    BY DEF Point
  <2>3. \A i \in 1..2 : Scaled(n, a)[i] = n * a[i] /\ Scaled(n, b)[i] = n * b[i]
    BY DEF Scaled
  <2> QED
    BY <2>1, <2>2, <2>3, <1>13 DEF OnSegment
<1> QED
  BY <1>6, <1>7, <1>9, <1>14 DEF Hits, On

(* A part of the way that is on the edge: both straddle each other.        *)
LEMMA HitStraddles ==
    ASSUME NEW p \in Point, NEW q \in Point, NEW a \in Point, NEW b \in Point,
           NEW k \in Int, NEW n \in Nat, n > 0, 0 <= k, k <= n, Hits(p, q, k, n, a, b)
    PROVE  /\ n * Orientation(a, b, p) = k * (Orientation(a, b, p) - Orientation(a, b, q))
           /\ ~OneSide(Orientation(a, b, p), Orientation(a, b, q))
           /\ ~OneSide(Orientation(p, q, a), Orientation(p, q, b))
<1>1. PICK t \in Int : t = Orientation(a, b, p) BY TurnIs
<1>2. PICK r \in Int : r = Orientation(a, b, q) BY TurnIs
<1>3. PICK s \in Int : s = Orientation(p, q, a) BY TurnIs
<1>4. PICK u \in Int : u = Orientation(p, q, b) BY TurnIs
<1>5. n * t = k * (t - r)
  <2>1. n * (n * t + k * (r - t)) = 0
    BY <1>1, <1>2, HitTurn DEF Hits, On
  <2>2. PICK x \in Int : x = n * t + k * (r - t) OBVIOUS
  <2>3. n * x = 0
    BY <2>1, <2>2
  <2>4. x = 0
    BY <2>3, Products
  <2> QED
    BY <2>2, <2>4
<1>6. ~OneSide(t, r)
  <2>1. (n - k) * t + k * r = 0
    BY <1>5
  <2>2. PICK x \in Int : x = (n - k) * t OBVIOUS
  <2>3. PICK y \in Int : y = k * r OBVIOUS
  <2>4. x + y = 0
    BY <2>1, <2>2, <2>3
  <2>5. ~(t > 0 /\ r > 0)
    <3>1. SUFFICES ASSUME t > 0, r > 0 PROVE FALSE
      OBVIOUS
    <3>2. x >= 0 /\ y >= 0 /\ (n - k > 0 => x > 0) /\ (k > 0 => y > 0)
      BY <3>1, <2>2, <2>3, Products
    <3> QED
      BY <3>2, <2>4
  <2>6. ~(t < 0 /\ r < 0)
    <3>1. SUFFICES ASSUME t < 0, r < 0 PROVE FALSE
      OBVIOUS
    <3>2. x <= 0 /\ y <= 0 /\ (n - k > 0 => x < 0) /\ (k > 0 => y < 0)
      <4>1. n - k >= 0 /\ k >= 0 /\ t <= 0 /\ r <= 0
        BY <3>1
      <4> QED
        BY <3>1, <4>1, <2>2, <2>3, Products
    <3> QED
      BY <3>2, <2>4
  <2> QED
    BY <2>5, <2>6 DEF OneSide
<1>7. ~OneSide(s, u)
  <2>1. PICK A \in Point : A = Scaled(n, a) BY n \in Int, ScaledIsPoint
  <2>2. PICK B \in Point : B = Scaled(n, b) BY n \in Int, ScaledIsPoint
  <2>3. PICK P \in Point : P = Scaled(n, p) BY n \in Int, ScaledIsPoint
  <2>4. PICK Q \in Point : Q = Scaled(n, q) BY n \in Int, ScaledIsPoint
  <2>5. PICK X \in Point : X = PartOf(p, q, k, n) BY n \in Int, PartIsPoint
  <2>6. Orientation(A, B, X) = 0 /\ OnSegment(A, B, X)
    BY <2>1, <2>2, <2>5 DEF Hits, On
  <2>7. PICK c, d \in Nat : /\ c + d > 0
                            /\ \A x, y \in Point :
                                  Mixes(c, d, Orientation(x, y, X), Orientation(x, y, A), Orientation(x, y, B))
    BY <2>6, SegmentMixes
  <2>8. Mixes(c, d, Orientation(P, Q, X), Orientation(P, Q, A), Orientation(P, Q, B))
    BY <2>7
  <2>9. Orientation(P, Q, X) = 0
    BY <2>3, <2>4, <2>5, PartTurn
  <2>10. Orientation(P, Q, A) = n * (n * s) /\ Orientation(P, Q, B) = n * (n * u)
    BY <2>1, <2>2, <2>3, <2>4, <1>3, <1>4, ScaledTurn
  <2>11. PICK S \in Int : S = n * (n * s) OBVIOUS
  <2>12. PICK U \in Int : U = n * (n * u) OBVIOUS
  <2>13. Mixes(c, d, 0, S, U)
    BY <2>8, <2>9, <2>10, <2>11, <2>12
  <2>14. ~(S > 0 /\ U > 0) /\ ~(S < 0 /\ U < 0)
    <3>1. PICK z \in Int : z = 0 OBVIOUS
    <3>2. Mixes(c, d, z, S, U)
      BY <2>13, <3>1
    <3>3. (S > 0 /\ U > 0 => z > 0) /\ (S < 0 /\ U < 0 => z < 0)
      BY <2>7, <3>2, MixSigns
    <3> QED
      BY <3>1, <3>3
  <2>15. \A z \in Int : (z > 0 => n * (n * z) > 0) /\ (z < 0 => n * (n * z) < 0)
    <3>1. \A z \in Int : (z > 0 => n * z > 0) /\ (z < 0 => n * z < 0) /\ n * z \in Int
      BY Products
    <3>2. SUFFICES ASSUME NEW z \in Int
                   PROVE  (z > 0 => n * (n * z) > 0) /\ (z < 0 => n * (n * z) < 0)
      OBVIOUS
    <3>3. PICK y \in Int : y = n * z OBVIOUS
    <3>4. (y > 0 => n * y > 0) /\ (y < 0 => n * y < 0)
      BY <3>1
    <3> QED
      BY <3>1, <3>3, <3>4
  <2> QED
    BY <2>11, <2>12, <2>14, <2>15 DEF OneSide
<1> QED
  BY <1>1, <1>2, <1>3, <1>4, <1>5, <1>6, <1>7

(* On two lines, it is the contact.                                        *)
LEMMA HitIsCrossing ==
    ASSUME NEW p \in Point, NEW q \in Point, NEW a \in Point, NEW b \in Point,
           NEW k \in Int, NEW n \in Nat, n > 0, 0 <= k, k <= n, Hits(p, q, k, n, a, b),
           ~Collinear(p, q, a, b)
    PROVE  /\ Contact(p, q, a, b)
           /\ ContactFraction(p, q, a, b)[1] * n = k * ContactFraction(p, q, a, b)[2]
<1>1. Contact(p, q, a, b)
  BY HitStraddles DEF Contact
<1>2. PICK t \in Int : t = Orientation(a, b, p) BY TurnIs
<1>3. PICK r \in Int : r = Orientation(a, b, q) BY TurnIs
<1>4. n * t = k * (t - r)
  BY <1>2, <1>3, HitStraddles
<1>5. PICK f \in Int : f = ContactFraction(p, q, a, b)[1] BY <1>1, CrossingIs
<1>6. PICK g \in Int : g = ContactFraction(p, q, a, b)[2] BY <1>1, CrossingIs
<1>7. (f = t /\ g = t - r) \/ (f = -t /\ g = -(t - r))
  BY <1>1, <1>2, <1>3, <1>5, <1>6, CrossingIs
<1>8. f * n = k * g
  <2>1. t * n = k * (t - r) /\ (-t) * n = k * (-(t - r))
    BY <1>4
  <2> QED
    BY <1>7, <2>1
<1> QED
  BY <1>1, <1>5, <1>6, <1>8

LEMMA AheadIs ==
    ASSUME NEW p \in Point, NEW q \in Point, p # q
    PROVE  /\ Ahead(p, q, p) = 0 /\ Ahead(p, q, q) = Length(p, q)
           /\ Length(p, q) \in Int /\ Length(p, q) > 0
           /\ \A x \in Point : Ahead(p, q, x) \in Int
<1>1. Length(p, q) \in Int /\ Length(p, q) > 0
  BY NoTurn, AheadAlong
<1>2. \A x \in Point : x[1] \in Int /\ x[2] \in Int
  BY DEF Point
<1>3. Ahead(p, q, p) = 0
  <2>1. Minus(p, p) = <<0, 0>>
    BY <1>2 DEF Minus
  <2>2. Minus(q, p)[1] \in Int /\ Minus(q, p)[2] \in Int
    BY <1>2 DEF Minus
  <2> QED
    BY <2>1, <2>2 DEF Ahead, Dot
<1>4. ASSUME NEW x \in Point PROVE Ahead(p, q, x) \in Int
  <2>1. PICK a, b, d, e \in Int : a = x[1] - p[1] /\ b = x[2] - p[2] /\ d = q[1] - p[1] /\ e = q[2] - p[2]
    BY <1>2
  <2>2. Ahead(p, q, x) = a * d + b * e
    BY <2>1 DEF Ahead, Dot, Minus
  <2> QED
    BY <2>2
<1> QED
  BY <1>1, <1>3, <1>4 DEF Ahead, Length

(* A point on the way, as a part of it.                                    *)
LEMMA OnIsPart ==
    ASSUME NEW p \in Point, NEW q \in Point, p # q, NEW x \in Point, On(p, q, x)
    PROVE  /\ 0 <= Ahead(p, q, x) /\ Ahead(p, q, x) <= Length(p, q)
           /\ PartOf(p, q, Ahead(p, q, x), Length(p, q)) = Scaled(Length(p, q), x)
<1>1. Orientation(p, q, p) = 0 /\ Orientation(p, q, q) = 0 /\ Orientation(p, q, x) = 0
  BY NoTurn DEF On
<1>2. PICK l \in Int : l = Length(p, q) /\ l > 0 BY AheadIs
<1>3. PICK f \in Int : f = Ahead(p, q, x) BY AheadIs
<1>4. Amid(0, l, f)
  <2>1. Amid(Ahead(p, q, p), Ahead(p, q, q), Ahead(p, q, x))
    BY <1>1, LineOrder DEF On
  <2> QED
    BY <2>1, <1>2, <1>3, AheadIs
<1>5. 0 <= f /\ f <= l
  BY <1>2, <1>4 DEF Amid
<1>6. ASSUME NEW i \in 1..2 PROVE l * p[i] + f * (q[i] - p[i]) = l * x[i]
  <2>1. (q[i] - p[i]) * (f - 0) = l * (x[i] - p[i])
    BY <1>1, <1>2, <1>3, AheadIs, AheadAlong
  <2>2. PICK a \in Int : a = p[i] BY DEF Point
  <2>3. PICK b \in Int : b = x[i] BY DEF Point
  <2>4. PICK d \in Int : d = q[i] - p[i] BY DEF Point
  <2>5. d * f = l * (b - a)
    BY <2>1, <2>2, <2>3, <2>4
  <2>6. l * a + f * d = l * b
    BY <2>5
  <2> QED
    BY <2>2, <2>3, <2>4, <2>6
<1>7. PartOf(p, q, f, l) = Scaled(l, x)
  BY <1>6 DEF PartOf, Scaled
<1> QED
  BY <1>2, <1>3, <1>5, <1>7

LEMMA EndsAreOn ==
    ASSUME NEW a \in Point, NEW b \in Point
    PROVE  On(a, b, a) /\ On(a, b, b)
<1>1. \A x \in Point : x[1] \in Int /\ x[2] \in Int
  BY DEF Point
<1> QED
  BY <1>1, NoTurn DEF On, OnSegment, Lesser, Greater

(* An edge that leaves the line of the way is arrived at where it leaves.  *)
LEMMA LeavingEdge ==
    ASSUME NEW p \in Point, NEW q \in Point, p # q, NEW a \in Point, NEW b \in Point,
           NEW v \in {a, b}, NEW w \in {a, b}, On(p, q, v), Orientation(p, q, w) # 0
    PROVE  /\ Contact(p, q, a, b) /\ ~Collinear(p, q, a, b)
           /\ ContactFraction(p, q, a, b)[1] * Length(p, q)
                 = Ahead(p, q, v) * ContactFraction(p, q, a, b)[2]
<1>1. PICK l \in Nat : l = Length(p, q) /\ l > 0
  <2>1. Length(p, q) \in Nat /\ Length(p, q) > 0
    BY AheadIs
  <2> QED
    BY <2>1
<1>2. PICK f \in Int : f = Ahead(p, q, v) BY AheadIs
<1>3. 0 <= f /\ f <= l /\ PartOf(p, q, f, l) = Scaled(l, v)
  BY <1>1, <1>2, OnIsPart
<1>4. On(Scaled(l, a), Scaled(l, b), Scaled(l, v))
  BY EndsAreOn, ScaledOn
<1>5. Hits(p, q, f, l, a, b)
  BY <1>3, <1>4 DEF Hits
<1>6. ~Collinear(p, q, a, b)
  BY DEF Collinear
<1>7. ContactFraction(p, q, a, b)[1] * l = f * ContactFraction(p, q, a, b)[2]
  BY <1>1, <1>3, <1>5, <1>6, HitIsCrossing
<1> QED
  BY <1>1, <1>2, <1>3, <1>5, <1>6, <1>7, HitIsCrossing

(* On one line, the contact is an end of the way or the edge.              *)
LEMMA CommonEndHits ==
    ASSUME NEW p \in Point, NEW q \in Point, p # q, NEW a \in Point, NEW b \in Point,
           Collinear(p, q, a, b), Contact(p, q, a, b)
    PROVE  LET f == ContactFraction(p, q, a, b)
           IN  /\ f[1] \in Int /\ f[2] \in Int /\ f[2] > 0 /\ 0 <= f[1] /\ f[1] <= f[2]
               /\ Hits(p, q, f[1], f[2], a, b)
<1>1. PICK e : e = CommonEnd(p, q, a, b) OBVIOUS
<1>2. e \in {p, q, a, b} /\ OnSegment(p, q, e) /\ OnSegment(a, b, e)
  <2>1. \E x \in {p, q, a, b} : OnSegment(p, q, x) /\ OnSegment(a, b, x)
    BY DEF Contact
  <2>2. \/ OnSegment(p, q, p) /\ OnSegment(a, b, p)
        \/ OnSegment(p, q, q) /\ OnSegment(a, b, q)
        \/ OnSegment(p, q, a) /\ OnSegment(a, b, a)
        \/ OnSegment(p, q, b) /\ OnSegment(a, b, b)
    BY <2>1
  <2>3. CASE OnSegment(p, q, p) /\ OnSegment(a, b, p)
    BY <2>3, <1>1 DEF CommonEnd
  <2>4. CASE /\ ~(OnSegment(p, q, p) /\ OnSegment(a, b, p))
             /\ OnSegment(p, q, q) /\ OnSegment(a, b, q)
    BY <2>4, <1>1 DEF CommonEnd
  <2>5. CASE /\ ~(OnSegment(p, q, p) /\ OnSegment(a, b, p))
             /\ ~(OnSegment(p, q, q) /\ OnSegment(a, b, q))
             /\ OnSegment(p, q, a) /\ OnSegment(a, b, a)
    BY <2>5, <1>1 DEF CommonEnd
  <2>6. CASE /\ ~(OnSegment(p, q, p) /\ OnSegment(a, b, p))
             /\ ~(OnSegment(p, q, q) /\ OnSegment(a, b, q))
             /\ ~(OnSegment(p, q, a) /\ OnSegment(a, b, a))
    BY <2>2, <2>6, <1>1 DEF CommonEnd
  <2> QED
    BY <2>3, <2>4, <2>5, <2>6
<1>3. e \in Point /\ Orientation(p, q, e) = 0 /\ Orientation(a, b, e) = 0
  BY <1>2, NoTurn DEF Collinear
<1>4. On(p, q, e) /\ On(a, b, e)
  BY <1>2, <1>3 DEF On
<1>5. PICK l \in Nat : l = Length(p, q) /\ l > 0
  <2>1. Length(p, q) \in Nat /\ Length(p, q) > 0
    BY AheadIs
  <2> QED
    BY <2>1
<1>6. PICK f \in Int : f = Ahead(p, q, e) BY <1>3, AheadIs
<1>7. 0 <= f /\ f <= l /\ PartOf(p, q, f, l) = Scaled(l, e)
  BY <1>3, <1>4, <1>5, <1>6, OnIsPart
<1>8. Hits(p, q, f, l, a, b)
  <2>1. On(Scaled(l, a), Scaled(l, b), Scaled(l, e))
    BY <1>3, <1>4, ScaledOn
  <2> QED
    BY <2>1, <1>7 DEF Hits
<1>9. ContactFraction(p, q, a, b) = <<f, l>>
  BY <1>1, <1>5, <1>6 DEF ContactFraction, Ahead, Length
<1> QED
  BY <1>5, <1>7, <1>8, <1>9

LEMMA AheadScales ==
    ASSUME NEW p \in Point, NEW q \in Point, NEW x \in Point, NEW n \in Int, NEW k \in Int
    PROVE  /\ Ahead(Scaled(n, p), Scaled(n, q), Scaled(n, x)) = n * (n * Ahead(p, q, x))
           /\ Ahead(Scaled(n, p), Scaled(n, q), PartOf(p, q, k, n)) = n * (k * Length(p, q))
<1>1. PICK d \in Int : d = q[1] - p[1] BY DEF Point
<1>2. PICK e \in Int : e = q[2] - p[2] BY DEF Point
<1>3. PICK z \in Int : z = x[1] - p[1] BY DEF Point
<1>4. PICK w \in Int : w = x[2] - p[2] BY DEF Point
<1>5. /\ n * q[1] - n * p[1] = n * d /\ n * q[2] - n * p[2] = n * e
      /\ n * x[1] - n * p[1] = n * z /\ n * x[2] - n * p[2] = n * w
      /\ (n * p[1] + k * d) - n * p[1] = k * d /\ (n * p[2] + k * e) - n * p[2] = k * e
  BY <1>1, <1>2, <1>3, <1>4 DEF Point
<1>6. Ahead(Scaled(n, p), Scaled(n, q), Scaled(n, x)) = (n * z) * (n * d) + (n * w) * (n * e)
  BY <1>5 DEF Ahead, Dot, Minus, Scaled
<1>7. Ahead(Scaled(n, p), Scaled(n, q), PartOf(p, q, k, n)) = (k * d) * (n * d) + (k * e) * (n * e)
  BY <1>1, <1>2, <1>5 DEF Ahead, Dot, Minus, Scaled, PartOf
<1>8. Ahead(p, q, x) = z * d + w * e /\ Length(p, q) = d * d + e * e
  BY <1>1, <1>2, <1>3, <1>4 DEF Ahead, Length, Dot, Minus
<1>9. /\ (n * z) * (n * d) + (n * w) * (n * e) = n * (n * (z * d + w * e))
      /\ (k * d) * (n * d) + (k * e) * (n * e) = n * (k * (d * d + e * e))
  OBVIOUS
<1> QED
  BY <1>6, <1>7, <1>8, <1>9

(* An edge on the line of the way, not reached at its start: what is met   *)
(* of it first is an end.                                                  *)
LEMMA NearEnd ==
    ASSUME NEW p \in Point, NEW q \in Point, p # q, NEW a \in Point, NEW b \in Point,
           Collinear(p, q, a, b), ~OnSegment(a, b, p),
           NEW k \in Int, NEW n \in Nat, n > 0, 0 <= k, k <= n, Hits(p, q, k, n, a, b)
    PROVE  \E v \in {a, b} : On(p, q, v) /\ n * Ahead(p, q, v) <= k * Length(p, q)
<1>1. PICK l \in Int : l = Length(p, q) /\ l > 0 BY AheadIs
<1>2. PICK f \in Int : f = Ahead(p, q, a) BY AheadIs
<1>3. PICK g \in Int : g = Ahead(p, q, b) BY AheadIs
<1>4. /\ Orientation(p, q, a) = 0 /\ Orientation(p, q, b) = 0
      /\ Orientation(p, q, p) = 0 /\ Orientation(p, q, q) = 0
  BY NoTurn DEF Collinear
<1>5. ~Amid(f, g, 0)
  <2>1. ~Amid(Ahead(p, q, a), Ahead(p, q, b), Ahead(p, q, p))
    BY <1>4, LineOrder
  <2> QED
    BY <2>1, <1>2, <1>3, AheadIs
<1>6. PICK F \in Int : F = n * f OBVIOUS
<1>7. PICK G \in Int : G = n * g OBVIOUS
<1>8. PICK K \in Int : K = k * l OBVIOUS
<1>9. Amid(F, G, K)
  <2>1. PICK A \in Point : A = Scaled(n, a) BY n \in Int, ScaledIsPoint
  <2>2. PICK B \in Point : B = Scaled(n, b) BY n \in Int, ScaledIsPoint
  <2>3. PICK P \in Point : P = Scaled(n, p) BY n \in Int, ScaledIsPoint
  <2>4. PICK Q \in Point : Q = Scaled(n, q) BY n \in Int, ScaledIsPoint
  <2>5. PICK X \in Point : X = PartOf(p, q, k, n) BY n \in Int, PartIsPoint
  <2>6. OnSegment(A, B, X)
    BY <2>1, <2>2, <2>5 DEF Hits, On
  <2>7. P # Q
    <3>1. p[1] # q[1] \/ p[2] # q[2]
      BY DEF Point
    <3>2. \A y, z \in Int : n * y = n * z => y = z
      OBVIOUS
    <3>3. n * p[1] # n * q[1] \/ n * p[2] # n * q[2]
      BY <3>1, <3>2 DEF Point
    <3> QED
      BY <3>3, <2>3, <2>4 DEF Scaled
  <2>8. Orientation(P, Q, A) = 0 /\ Orientation(P, Q, B) = 0 /\ Orientation(P, Q, X) = 0
    <3>1. Orientation(P, Q, A) = n * (n * 0) /\ Orientation(P, Q, B) = n * (n * 0)
      BY <1>4, <2>1, <2>2, <2>3, <2>4, ScaledTurn
    <3>2. Orientation(P, Q, X) = 0
      BY <2>3, <2>4, <2>5, PartTurn
    <3> QED
      BY <3>1, <3>2
  <2>9. Amid(Ahead(P, Q, A), Ahead(P, Q, B), Ahead(P, Q, X))
    BY <2>6, <2>7, <2>8, LineOrder
  <2>10. Ahead(P, Q, A) = n * F /\ Ahead(P, Q, B) = n * G /\ Ahead(P, Q, X) = n * K
    BY <1>1, <1>2, <1>3, <1>6, <1>7, <1>8, <2>1, <2>2, <2>3, <2>4, <2>5, AheadScales
  <2>11. Amid(n * F, n * G, n * K)
    BY <2>9, <2>10
  <2>12. \A y, z \in Int : n * y <= n * z => y <= z
    <3>1. SUFFICES ASSUME NEW y \in Int, NEW z \in Int, z < y PROVE n * z < n * y
      OBVIOUS
    <3> QED
      BY <3>1
  <2> QED
    BY <2>11, <2>12 DEF Amid
<1>10. K >= 0 /\ K <= n * l
  <2>1. (n - k) * l >= 0 /\ k * l >= 0
    BY <1>1, Products
  <2>2. (n - k) * l = n * l - k * l
    BY <1>1
  <2>3. n * l \in Int
    BY <1>1
  <2> QED
    BY <2>1, <2>2, <2>3, <1>8
<1>11. (f > 0 <=> F > 0) /\ (g > 0 <=> G > 0) /\ (f < 0 <=> F < 0) /\ (g < 0 <=> G < 0)
  <2>1. \A y \in Int : (y > 0 => n * y > 0) /\ (y < 0 => n * y < 0) /\ (y = 0 => n * y = 0)
    BY Products
  <2> QED
    BY <2>1, <1>6, <1>7
<1>12. F > 0 /\ G > 0
  BY <1>5, <1>9, <1>10, <1>11 DEF Amid
<1>13. ASSUME NEW v \in {a, b}, n * Ahead(p, q, v) <= K, n * Ahead(p, q, v) > 0 PROVE On(p, q, v)
  <2>1. PICK h \in Int : h = Ahead(p, q, v) BY AheadIs
  <2>2. n * h <= n * l /\ n * h > 0
    BY <1>10, <1>13, <2>1
  <2>3. h <= l
    <3>1. h > l => n * h > n * l
      BY <1>1
    <3> QED
      BY <2>2, <3>1, <1>1
  <2>4. h > 0
    <3>1. h <= 0 => n * h <= 0
      BY Products
    <3> QED
      BY <2>2, <3>1
  <2>5. Amid(0, l, h)
    BY <2>3, <2>4, <1>1 DEF Amid
  <2>6. Orientation(p, q, v) = 0
    BY <1>4
  <2>7. OnSegment(p, q, v)
    <3>1. Amid(Ahead(p, q, p), Ahead(p, q, q), Ahead(p, q, v))
      BY <2>1, <2>5, <1>1, AheadIs
    <3> QED
      BY <3>1, <2>6, <1>4, LineOrder
  <2> QED
    BY <2>6, <2>7 DEF On
<1>14. CASE F <= K
  <2>1. n * Ahead(p, q, a) <= K /\ n * Ahead(p, q, a) > 0
    BY <1>2, <1>6, <1>12, <1>14
  <2> QED
    BY <2>1, <1>1, <1>8, <1>13
<1>15. CASE G <= K
  <2>1. n * Ahead(p, q, b) <= K /\ n * Ahead(p, q, b) > 0
    BY <1>3, <1>7, <1>12, <1>15
  <2> QED
    BY <2>1, <1>1, <1>8, <1>13
<1> QED
  BY <1>9, <1>14, <1>15 DEF Amid

LEMMA ContactHits ==
    ASSUME NEW p \in Point, NEW q \in Point, p # q, NEW a \in Point, NEW b \in Point,
           Contact(p, q, a, b)
    PROVE  LET f == ContactFraction(p, q, a, b)
           IN  /\ f[1] \in Int /\ f[2] \in Int /\ f[2] > 0 /\ 0 <= f[1] /\ f[1] <= f[2]
               /\ Hits(p, q, f[1], f[2], a, b)
<1>1. CASE Collinear(p, q, a, b)
  BY <1>1, CommonEndHits
<1>2. CASE ~Collinear(p, q, a, b)
  <2>1. LET f == ContactFraction(p, q, a, b)
        IN  f[1] \in Int /\ f[2] \in Int /\ f[2] > 0 /\ 0 <= f[1] /\ f[1] <= f[2]
    BY <1>2, CrossingIs
  <2> QED
    BY <1>2, <2>1, CrossingHits
<1> QED
  BY <1>1, <1>2

(* An edge that ends on another one is in contact with it.                 *)
LEMMA EndOnEdge ==
    ASSUME NEW a \in Point, NEW b \in Point, NEW c \in Point, NEW d \in Point,
           NEW x \in {c, d}, On(a, b, x)
    PROVE  Contact(a, b, c, d)
<1>1. Orientation(a, b, x) = 0 /\ OnSegment(a, b, x)
  BY DEF On
<1>2. CASE Collinear(a, b, c, d)
  <2>1. OnSegment(c, d, x)
    BY EndsAreOn DEF On
  <2> QED
    BY <1>1, <1>2, <2>1 DEF Contact
<1>3. CASE ~Collinear(a, b, c, d)
  <2>1. ~OneSide(Orientation(a, b, c), Orientation(a, b, d))
    BY <1>1, TurnIs DEF OneSide
  <2>2. PICK g \in Int : g = Orientation(c, d, a) BY TurnIs
  <2>3. PICK h \in Int : h = Orientation(c, d, b) BY TurnIs
  <2>4. PICK k, l \in Nat : /\ k + l > 0
                            /\ \A u, v \in Point :
                                  Mixes(k, l, Orientation(u, v, x), Orientation(u, v, a), Orientation(u, v, b))
    BY <1>1, SegmentMixes
  <2>5. PICK z \in Int : z = 0 OBVIOUS
  <2>6. Orientation(c, d, x) = z
    BY <2>5, NoTurn
  <2>7. Mixes(k, l, z, g, h)
    BY <2>2, <2>3, <2>4, <2>6
  <2>8. (g > 0 /\ h > 0 => z > 0) /\ (g < 0 /\ h < 0 => z < 0)
    BY <2>4, <2>7, MixSigns
  <2> QED
    BY <1>3, <2>1, <2>2, <2>3, <2>5, <2>8 DEF Contact, OneSide
<1> QED
  BY <1>2, <1>3

LEMMA OnIsContact ==
    ASSUME NEW p \in Point, NEW a \in Point, NEW b \in Point, On(a, b, p)
    PROVE  Contact(p, p, a, b)
<1>1. Collinear(p, p, a, b)
  BY NoTurn DEF On, Collinear
<1>2. OnSegment(p, p, p) /\ OnSegment(a, b, p)
  BY EndsAreOn DEF On
<1> QED
  BY <1>1, <1>2 DEF Contact

(* A robot that stays where it is, off an edge, does not meet it.          *)
LEMMA StayMeetsNothing ==
    ASSUME NEW p \in Point, NEW a \in Point, NEW b \in Point,
           NEW k \in Int, NEW n \in Nat, n > 0, 0 <= k, k <= n, Hits(p, p, k, n, a, b)
    PROVE  Contact(p, p, a, b)
<1>1. CASE ~Collinear(p, p, a, b)
  BY <1>1, HitIsCrossing
<1>2. CASE Collinear(p, p, a, b)
  <2>1. \A i \in 1..2 : p[i] \in Int /\ a[i] \in Int /\ b[i] \in Int
    BY DEF Point
  <2>2. PartOf(p, p, k, n) = Scaled(n, p)
    <3>1. p[1] - p[1] = 0 /\ p[2] - p[2] = 0
      BY <2>1
    <3>2. n * p[1] + k * 0 = n * p[1] /\ n * p[2] + k * 0 = n * p[2]
      BY <2>1
    <3> QED
      BY <3>1, <3>2 DEF PartOf, Scaled
  <2>3. OnSegment(Scaled(n, a), Scaled(n, b), Scaled(n, p))
    BY <2>2 DEF Hits, On
  <2>4. \A x, y \in Int : n * x <= n * y => x <= y
    <3>1. SUFFICES ASSUME NEW x \in Int, NEW y \in Int, y < x PROVE n * y < n * x
      OBVIOUS
    <3> QED
      BY <3>1
  <2>5. ASSUME NEW i \in 1..2
        PROVE  Lesser(a[i], b[i]) <= p[i] /\ p[i] <= Greater(a[i], b[i])
    <3>1. /\ Scaled(n, a)[i] = n * a[i] /\ Scaled(n, b)[i] = n * b[i]
          /\ Scaled(n, p)[i] = n * p[i]
      BY DEF Scaled
    <3>2. Lesser(n * a[i], n * b[i]) <= n * p[i] /\ n * p[i] <= Greater(n * a[i], n * b[i])
      BY <2>3, <3>1 DEF OnSegment
    <3>3. n * a[i] \in Int /\ n * b[i] \in Int /\ n * p[i] \in Int
      BY <2>1
    <3>4. \/ n * a[i] <= n * p[i] /\ n * p[i] <= n * b[i]
          \/ n * b[i] <= n * p[i] /\ n * p[i] <= n * a[i]
      BY <3>2, <3>3 DEF Lesser, Greater
    <3>5. (a[i] <= p[i] /\ p[i] <= b[i]) \/ (b[i] <= p[i] /\ p[i] <= a[i])
      BY <3>4, <2>1, <2>4
    <3> QED
      BY <3>5, <2>1 DEF Lesser, Greater
  <2>6. Orientation(a, b, p) = 0 /\ OnSegment(a, b, p)
    BY <1>2, <2>5 DEF Collinear, OnSegment
  <2> QED
    BY <2>6, OnIsContact DEF On
<1> QED
  BY <1>1, <1>2

-----------------------------------------------------------------------------
(* The first of some fractions.                                            *)

Fraction(f) == f[1] \in Int /\ f[2] \in Int /\ f[2] > 0

LEMMA EarlierCarries ==
    ASSUME NEW f, NEW g, NEW h, Fraction(f), Fraction(g), Fraction(h),
           ~Earlier(f, g), Earlier(h, g)
    PROVE  ~Earlier(f, h)
<1>1. PICK a, b, c, d, e, r \in Int : /\ a = f[1] /\ b = f[2] /\ c = g[1] /\ d = g[2]
                                      /\ e = h[1] /\ r = h[2]
  BY DEF Fraction
<1>2. b > 0 /\ d > 0 /\ r > 0
  BY <1>1 DEF Fraction
<1>3. PICK A \in Int : A = a * r OBVIOUS
<1>4. PICK E \in Int : E = e * b OBVIOUS
<1>5. PICK S \in Int : S = a * d OBVIOUS
<1>6. PICK T \in Int : T = c * b OBVIOUS
<1>7. PICK U \in Int : U = e * d OBVIOUS
<1>8. PICK V \in Int : V = c * r OBVIOUS
<1>9. T <= S /\ U < V
  BY <1>1, <1>5, <1>6, <1>7, <1>8 DEF Earlier
<1>10. T * r <= S * r
  BY <1>2, <1>9
<1>11. U * b < V * b
  BY <1>2, <1>9
<1>12. S * r = A * d /\ U * b = E * d /\ T * r = V * b
  BY <1>3, <1>4, <1>5, <1>6, <1>7, <1>8
<1>13. E * d < A * d
  BY <1>10, <1>11, <1>12
<1>14. A < E => A * d < E * d
  BY <1>2
<1>15. E * d \in Int /\ A * d \in Int
  OBVIOUS
<1>16. ~(A < E)
  BY <1>13, <1>14, <1>15
<1> QED
  BY <1>1, <1>3, <1>4, <1>16 DEF Earlier

LEMMA FirstFraction ==
    ASSUME NEW n \in Nat, NEW T \in SUBSET (1..n), T # {},
           NEW F, \A j \in T : Fraction(F[j])
    PROVE  \E j \in T : \A k \in T : ~Earlier(F[k], F[j])
<1> DEFINE First(m) == \E j \in T : j <= m /\ \A k \in T : k <= m => ~Earlier(F[k], F[j])
           Some(m) == \E j \in T : j <= m
           Bad == {m \in Nat : Some(m) /\ ~First(m)}
<1>1. Bad = {}
  <2>1. SUFFICES ASSUME Bad # {} PROVE FALSE
    OBVIOUS
  <2>2. PICK m \in Bad : \A y \in Bad : m <= y
    BY <2>1, LeastNumber
  <2>3. m \in Nat /\ m # 0 /\ m - 1 \in Nat /\ ~(m <= m - 1)
    BY <2>2
  <2>4. ~Some(m - 1) \/ First(m - 1)
    BY <2>2, <2>3
  <2>5. \A k \in T : k \in Int /\ (k <= m <=> k <= m - 1 \/ k = m)
    BY <2>3
  <2>6. \A k \in T : ~Earlier(F[k], F[k])
    <3>1. SUFFICES ASSUME NEW k \in T PROVE ~Earlier(F[k], F[k])
      OBVIOUS
    <3>2. F[k][1] * F[k][2] \in Int
      BY DEF Fraction
    <3> QED
      BY <3>2 DEF Earlier
  <2>7. CASE ~Some(m - 1)
    <3>1. m \in T /\ \A k \in T : k <= m => k = m
      BY <2>2, <2>5, <2>7
    <3>2. First(m)
      BY <3>1, <2>6, <2>3
    <3> QED
      BY <3>2, <2>2
  <2>8. CASE First(m - 1)
    <3>1. PICK j \in T : j <= m - 1 /\ \A k \in T : k <= m - 1 => ~Earlier(F[k], F[j])
      BY <2>8
    <3>2. CASE m \in T /\ Earlier(F[m], F[j])
      <4>1. ASSUME NEW k \in T, k <= m PROVE ~Earlier(F[k], F[m])
        <5>1. CASE k = m
          BY <5>1, <3>2, <2>6
        <5>2. CASE k <= m - 1
          <6>1. ~Earlier(F[k], F[j])
            BY <3>1, <5>2
          <6>2. Fraction(F[k]) /\ Fraction(F[j]) /\ Fraction(F[m])
            BY <3>2
          <6> QED
            BY <6>1, <6>2, <3>2, EarlierCarries
        <5> QED
          BY <4>1, <5>1, <5>2, <2>5
      <4>2. First(m)
        BY <3>2, <4>1, <2>3
      <4> QED
        BY <4>2, <2>2
    <3>3. CASE ~(m \in T /\ Earlier(F[m], F[j]))
      <4>1. \A k \in T : k <= m => ~Earlier(F[k], F[j])
        BY <3>1, <3>3, <2>5
      <4>2. j <= m
        BY <3>1, <2>5
      <4>3. First(m)
        BY <4>1, <4>2
      <4> QED
        BY <4>3, <2>2
    <3> QED
      BY <3>2, <3>3
  <2> QED
    BY <2>4, <2>7, <2>8
<1>2. Some(n)
  <2>1. \A j \in T : j <= n
    OBVIOUS
  <2> QED
    BY <2>1
<1>3. First(n)
  BY <1>1, <1>2
<1>4. \A k \in T : k <= n
  OBVIOUS
<1> QED
  BY <1>3, <1>4

-----------------------------------------------------------------------------
(* The corners of a contour, and its edges.                                *)

After(m, n) == IF m = n THEN 1 ELSE m + 1
Before(m, n) == IF m = 1 THEN n ELSE m - 1

LEMMA NextIs ==
    ASSUME NEW n \in Nat, n > 0, NEW m \in 1..n
    PROVE  1 + (m % n) = After(m, n)
<1>1. PICK r \in Int : r = m % n OBVIOUS
<1>2. PICK d \in Int : d = m \div n OBVIOUS
<1>3. m = n * d + r /\ 0 <= r /\ r < n
  BY <1>1, <1>2
<1>4. d <= 1
  <2>1. d >= 2 => n * d >= n * 2
    OBVIOUS
  <2> QED
    BY <2>1, <1>3
<1>5. d >= 0
  <2>1. d <= -1 => n * d <= n * (-1)
    OBVIOUS
  <2> QED
    BY <2>1, <1>3
<1>6. CASE d = 0
  BY <1>1, <1>3, <1>6 DEF After
<1>7. CASE d = 1
  BY <1>1, <1>3, <1>7 DEF After
<1> QED
  BY <1>4, <1>5, <1>6, <1>7

LEMMA NeighboursAre ==
    ASSUME NEW n \in Nat, n >= 3, NEW m \in 1..n
    PROVE  /\ After(m, n) \in 1..n /\ Before(m, n) \in 1..n
           /\ After(m, n) # m /\ Before(m, n) # m /\ Before(m, n) # After(m, n)
           /\ After(Before(m, n), n) = m
  BY DEF After, Before

LEMMA FarNeighboursAre ==
    ASSUME NEW n \in Nat, n >= 4, NEW m \in 1..n
    PROVE  /\ Before(Before(m, n), n) # m
           /\ After(m, n) # Before(Before(m, n), n)
           /\ After(Before(Before(m, n), n), n) = Before(m, n)
           /\ Before(m, n) # m
           /\ After(After(m, n), n) # Before(m, n)
           /\ After(m, n) # Before(m, n) /\ After(m, n) # m
  BY DEF After, Before

LEMMA EdgesAre ==
    ASSUME NEW c \in Seq(Point), Len(c) >= 3, NEW m \in 1..Len(c)
    PROVE  /\ Edge(c, m)[1] = c[m] /\ Edge(c, m)[2] = c[After(m, Len(c))]
           /\ c[m] \in Point /\ c[After(m, Len(c))] \in Point
           /\ \A j \in 1..Len(c) : Follows(c, m, j) <=> j = After(m, Len(c))
<1>1. Len(c) \in Nat /\ Len(c) > 0
  OBVIOUS
<1>2. 1 + (m % Len(c)) = After(m, Len(c))
  BY <1>1, NextIs
<1>3. After(m, Len(c)) \in 1..Len(c)
  BY <1>1, NeighboursAre
<1> QED
  BY <1>2, <1>3 DEF Edge, Follows

(* Edges that are not neighbours do not meet.                              *)
LEMMA FarEdges ==
    ASSUME NEW c \in Seq(Point), ValidContour(c), Len(c) >= 4, NEW m \in 1..Len(c),
           NEW j \in 1..Len(c), j # m, j # After(m, Len(c)), m # After(j, Len(c))
    PROVE  ~Contact(c[m], c[After(m, Len(c))], c[j], c[After(j, Len(c))])
<1>1. ~Follows(c, m, j) /\ ~Follows(c, j, m)
  BY EdgesAre
<1>2. ~Contact(Edge(c, m)[1], Edge(c, m)[2], Edge(c, j)[1], Edge(c, j)[2])
  BY <1>1 DEF ValidContour
<1> QED
  BY <1>2, EdgesAre

AreaRule(c, area, n) ==
    IF n = 0 THEN 0 ELSE area[n - 1] + Cross(Edge(c, n)[1], Edge(c, n)[2])

LEMMA AreaOfThree ==
    ASSUME NEW c \in Seq(Point), Len(c) = 3
    PROVE  DoubledArea(c) = Orientation(c[1], c[2], c[3])
<1> DEFINE e(n) == Cross(Edge(c, n)[1], Edge(c, n)[2])
           g == [n \in 0..3 |-> IF n = 0 THEN 0
                                ELSE IF n = 1 THEN 0 + e(1)
                                ELSE IF n = 2 THEN 0 + e(1) + e(2)
                                ELSE 0 + e(1) + e(2) + e(3)]
           f == CHOOSE area : area = [n \in 0..Len(c) |-> AreaRule(c, area, n)]
<1>1. \A n \in 0..3 : g[n] = AreaRule(c, g, n)
  <2>1. g[0] = 0 /\ g[1] = 0 + e(1) /\ g[2] = 0 + e(1) + e(2) /\ g[3] = 0 + e(1) + e(2) + e(3)
    OBVIOUS
  <2> HIDE DEF g
  <2>2. \A n \in 0..3 : n = 0 \/ n = 1 \/ n = 2 \/ n = 3
    OBVIOUS
  <2>3. /\ AreaRule(c, g, 0) = 0 /\ AreaRule(c, g, 1) = g[0] + e(1)
        /\ AreaRule(c, g, 2) = g[1] + e(2) /\ AreaRule(c, g, 3) = g[2] + e(3)
    BY DEF AreaRule
  <2> QED
    BY <2>1, <2>2, <2>3
<1>2. g = [n \in 0..Len(c) |-> AreaRule(c, g, n)]
  BY <1>1
<1> HIDE DEF g
<1>3. f = [n \in 0..Len(c) |-> AreaRule(c, f, n)]
  BY <1>2
<1>4. DoubledArea(c) = f[Len(c)]
  BY DEF DoubledArea, AreaRule
<1> HIDE DEF f
<1>5. \A n \in 0..3 : f[n] = AreaRule(c, f, n)
  BY <1>3
<1>6. f[0] = 0 /\ f[1] = f[0] + e(1) /\ f[2] = f[1] + e(2) /\ f[3] = f[2] + e(3)
  BY <1>5 DEF AreaRule
<1>7. /\ Edge(c, 1)[1] = c[1] /\ Edge(c, 1)[2] = c[2]
      /\ Edge(c, 2)[1] = c[2] /\ Edge(c, 2)[2] = c[3]
      /\ Edge(c, 3)[1] = c[3] /\ Edge(c, 3)[2] = c[1]
  <2>1. 1 \in 1..Len(c) /\ 2 \in 1..Len(c) /\ 3 \in 1..Len(c)
    OBVIOUS
  <2>2. After(1, Len(c)) = 2 /\ After(2, Len(c)) = 3 /\ After(3, Len(c)) = 1
    BY DEF After
  <2>3. ASSUME NEW m \in 1..Len(c)
        PROVE  Edge(c, m)[1] = c[m] /\ Edge(c, m)[2] = c[After(m, Len(c))]
    <3>1. Len(c) >= 3
      OBVIOUS
    <3> QED
      BY <3>1, EdgesAre
  <2> QED
    BY <2>1, <2>2, <2>3
<1>8. c[1] \in Point /\ c[2] \in Point /\ c[3] \in Point
  <2>1. \A m \in 1..Len(c) : c[m] \in Point
    OBVIOUS
  <2>2. 1 \in 1..Len(c) /\ 2 \in 1..Len(c) /\ 3 \in 1..Len(c)
    OBVIOUS
  <2> QED
    BY <2>1, <2>2
<1>9. PICK x1, y1, x2, y2, x3, y3 \in Int :
         x1 = c[1][1] /\ y1 = c[1][2] /\ x2 = c[2][1] /\ y2 = c[2][2] /\ x3 = c[3][1] /\ y3 = c[3][2]
  BY <1>8 DEF Point
<1>10. /\ e(1) = x1 * y2 - y1 * x2 /\ e(2) = x2 * y3 - y2 * x3 /\ e(3) = x3 * y1 - y3 * x1
  BY <1>7, <1>9 DEF Cross
<1>11. f[3] = (0 + (x1 * y2 - y1 * x2)) + (x2 * y3 - y2 * x3) + (x3 * y1 - y3 * x1)
  BY <1>6, <1>10
<1>12. Orientation(c[1], c[2], c[3]) = (x2 - x1) * (y3 - y1) - (y2 - y1) * (x3 - x1)
  BY <1>8, <1>9, TurnIs
<1>13. (0 + (x1 * y2 - y1 * x2)) + (x2 * y3 - y2 * x3) + (x3 * y1 - y3 * x1)
          = (x2 - x1) * (y3 - y1) - (y2 - y1) * (x3 - x1)
  OBVIOUS
<1> QED
  BY <1>4, <1>11, <1>12, <1>13

LEMMA AheadTells ==
    ASSUME NEW p \in Point, NEW q \in Point, p # q, NEW x \in Point, NEW y \in Point,
           Orientation(p, q, x) = 0, Orientation(p, q, y) = 0, Ahead(p, q, x) = Ahead(p, q, y)
    PROVE  x = y
<1>1. OnSegment(x, x, y)
  <2>1. PICK f \in Int : f = Ahead(p, q, x) BY AheadIs
  <2>2. Amid(f, f, f)
    BY DEF Amid
  <2>3. Amid(Ahead(p, q, x), Ahead(p, q, x), Ahead(p, q, y))
    BY <2>1, <2>2
  <2> QED
    BY <2>3, LineOrder
<1>2. x[1] = y[1] /\ x[2] = y[2]
  <2>1. x[1] \in Int /\ x[2] \in Int /\ y[1] \in Int /\ y[2] \in Int
    BY DEF Point
  <2> QED
    BY <1>1, <2>1 DEF OnSegment, Lesser, Greater
<1> QED
  BY <1>2 DEF Point

(* Where a way enters a contour, the contour leaves the line of the way on *)
(* one side: it does not run along it in both directions.                  *)
OffContour(c, p) == \A i \in 1..Len(c) : ~On(c[i], c[After(i, Len(c))], p)

FirstCorner(c, p, q, m) ==
    /\ On(p, q, c[m])
    /\ \A i \in 1..Len(c) : On(p, q, c[i]) => Ahead(p, q, c[m]) <= Ahead(p, q, c[i])

LEMMA BeyondFirst ==
    ASSUME NEW c \in Seq(Point), IsInjective(c), NEW p \in Point, NEW q \in Point, p # q,
           NEW m \in 1..Len(c), FirstCorner(c, p, q, m),
           NEW i \in 1..Len(c), i # m, Orientation(p, q, c[i]) = 0,
           ~On(c[m], c[i], p)
    PROVE  Ahead(p, q, c[m]) < Ahead(p, q, c[i])
<1>1. c[m] \in Point /\ c[i] \in Point /\ c[m] # c[i]
  BY DEF IsInjective
<1>2. PICK v \in Point : v = c[m] BY <1>1
<1>3. PICK u \in Point : u = c[i] BY <1>1
<1>4. PICK l \in Int : l = Length(p, q) /\ l > 0 BY AheadIs
<1>5. PICK f \in Int : f = Ahead(p, q, v) BY AheadIs
<1>6. PICK g \in Int : g = Ahead(p, q, u) BY AheadIs
<1>7. /\ Orientation(p, q, u) = 0 /\ Orientation(p, q, v) = 0
      /\ Orientation(p, q, p) = 0 /\ Orientation(p, q, q) = 0
  BY <1>2, <1>3, NoTurn DEF FirstCorner, On
<1>8. 0 <= f /\ f <= l
  BY <1>2, <1>4, <1>5, OnIsPart DEF FirstCorner
<1>9. f # g
  BY <1>1, <1>2, <1>3, <1>5, <1>6, <1>7, AheadTells
<1>10. ~(0 <= g /\ g < f)
  <2>1. SUFFICES ASSUME 0 <= g, g < f PROVE FALSE
    OBVIOUS
  <2>2. Amid(0, l, g)
    BY <2>1, <1>8 DEF Amid
  <2>3. Amid(Ahead(p, q, p), Ahead(p, q, q), Ahead(p, q, u))
    BY <2>2, <1>4, <1>6, AheadIs
  <2>4. On(p, q, u)
    BY <2>3, <1>7, LineOrder DEF On
  <2>5. f <= g
    BY <2>4, <1>2, <1>3, <1>5, <1>6 DEF FirstCorner
  <2> QED
    BY <2>1, <2>5
<1>11. ~(g < 0)
  <2>1. SUFFICES ASSUME g < 0 PROVE FALSE
    OBVIOUS
  <2>2. Amid(f, g, 0)
    BY <2>1, <1>8 DEF Amid
  <2>3. Amid(Ahead(p, q, v), Ahead(p, q, u), Ahead(p, q, p))
    BY <2>2, <1>5, <1>6, AheadIs
  <2>4. OnSegment(v, u, p)
    BY <2>3, <1>7, LineOrder
  <2>5. Orientation(v, u, p) = 0
    BY <1>7, OneLine
  <2> QED
    BY <2>4, <2>5, <1>2, <1>3 DEF On
<1> QED
  BY <1>2, <1>3, <1>5, <1>6, <1>9, <1>10, <1>11

LEMMA OnIsMutual ==
    ASSUME NEW a \in Point, NEW b \in Point, NEW x \in Point
    PROVE  On(a, b, x) <=> On(b, a, x)
<1>1. Orientation(b, a, x) = -Orientation(a, b, x) /\ Orientation(a, b, x) \in Int
  BY TurnIs, TurnsAgree
<1>2. \A f, g, h \in Int : /\ Lesser(f, g) = Lesser(g, f)
                           /\ Greater(f, g) = Greater(g, f)
  BY DEF Lesser, Greater
<1>3. OnSegment(a, b, x) <=> OnSegment(b, a, x)
  BY <1>2 DEF OnSegment, Point
<1> QED
  BY <1>1, <1>3 DEF On

LEMMA TangledCorner ==
    ASSUME NEW c \in Seq(Point), ValidContour(c), NEW p \in Point, NEW q \in Point, p # q,
           OffContour(c, p), NEW m \in 1..Len(c), FirstCorner(c, p, q, m),
           Orientation(p, q, c[Before(m, Len(c))]) = 0,
           Orientation(p, q, c[After(m, Len(c))]) = 0
    PROVE  FALSE
<1>1. PICK n \in Nat : n = Len(c) OBVIOUS
<1>2. n >= 3 /\ IsInjective(c)
  BY <1>1 DEF ValidContour
<1>3. PICK i \in 1..n : i = Before(m, n)
  BY <1>1, <1>2, NeighboursAre
<1>4. PICK j \in 1..n : j = After(m, n)
  BY <1>1, <1>2, NeighboursAre
<1>5. i # m /\ j # m /\ i # j /\ After(i, n) = m
  BY <1>1, <1>2, <1>3, <1>4, NeighboursAre
<1>6. PICK v \in Point : v = c[m] OBVIOUS
<1>7. PICK u \in Point : u = c[i] BY <1>1
<1>8. PICK w \in Point : w = c[j] BY <1>1
<1>9. Orientation(p, q, u) = 0 /\ Orientation(p, q, v) = 0 /\ Orientation(p, q, w) = 0
  BY <1>1, <1>3, <1>4, <1>6, <1>7, <1>8 DEF FirstCorner, On
<1>10. ~On(u, v, p) /\ ~On(v, w, p)
  BY <1>1, <1>4, <1>5, <1>6, <1>7, <1>8 DEF OffContour
<1>11. ~On(v, u, p)
  BY <1>10, OnIsMutual
<1>12. PICK f \in Int : f = Ahead(p, q, v) BY AheadIs
<1>13. PICK g \in Int : g = Ahead(p, q, u) BY AheadIs
<1>14. PICK h \in Int : h = Ahead(p, q, w) BY AheadIs
<1>15. f < g
  BY <1>1, <1>2, <1>5, <1>6, <1>7, <1>9, <1>11, <1>12, <1>13, BeyondFirst
<1>16. f < h
  BY <1>1, <1>2, <1>5, <1>6, <1>8, <1>9, <1>10, <1>12, <1>14, BeyondFirst
<1>17. n # 3
  <2>1. SUFFICES ASSUME n = 3 PROVE FALSE
    OBVIOUS
  <2>2. \A k \in 1..3 : Orientation(p, q, c[k]) = 0
    <3>1. \A k \in 1..3 : k = i \/ k = m \/ k = j
      BY <1>1, <1>3, <1>4, <1>5, <2>1
    <3> QED
      BY <3>1, <1>6, <1>7, <1>8, <1>9
  <2>3. 1 \in 1..3 /\ 2 \in 1..3 /\ 3 \in 1..3
    OBVIOUS
  <2>4. c[1] \in Point /\ c[2] \in Point /\ c[3] \in Point
    <3>1. \A k \in 1..Len(c) : c[k] \in Point
      OBVIOUS
    <3> QED
      BY <1>1, <2>1, <2>3, <3>1
  <2>5. Orientation(p, q, c[1]) = 0 /\ Orientation(p, q, c[2]) = 0 /\ Orientation(p, q, c[3]) = 0
    BY <2>2, <2>3
  <2>6. Orientation(c[1], c[2], c[3]) = 0
    BY <2>4, <2>5, OneLine
  <2>7. DoubledArea(c) = 0
    BY <1>1, <2>1, <2>6, AreaOfThree
  <2> QED
    BY <2>7 DEF ValidContour
<1>18. n >= 4
  BY <1>2, <1>17
(* The nearer neighbour lies on the edge to the other one.                 *)
<1>19. CASE g < h
  <2>1. PICK k \in 1..n : k = Before(i, n)
    BY <1>2, NeighboursAre
  <2>2. k # m /\ j # k /\ After(k, n) = i /\ i # m
    BY <1>1, <1>3, <1>4, <1>18, <2>1, FarNeighboursAre
  <2>3. PICK x \in Point : x = c[k] BY <1>1
  <2>4. ~Contact(v, w, x, u)
    BY <1>1, <1>4, <1>6, <1>7, <1>8, <1>18, <2>2, <2>3, FarEdges
  <2>5. On(v, w, u)
    <3>1. Amid(f, h, g)
      BY <1>15, <1>19 DEF Amid
    <3>2. OnSegment(v, w, u)
      BY <3>1, <1>9, <1>12, <1>13, <1>14, LineOrder
    <3> QED
      BY <3>2, <1>9, OneLine DEF On
  <2> QED
    BY <2>4, <2>5, EndOnEdge
<1>20. CASE h < g
  <2>1. PICK k \in 1..n : k = After(j, n)
    BY <1>2, NeighboursAre
  <2>2. k # i /\ j # i /\ j # m
    BY <1>1, <1>3, <1>4, <1>18, <2>1, FarNeighboursAre
  <2>3. PICK y \in Point : y = c[k] BY <1>1
  <2>4. ~Contact(u, v, w, y)
    BY <1>1, <1>5, <1>6, <1>7, <1>8, <1>18, <2>1, <2>2, <2>3, FarEdges
  <2>5. On(u, v, w)
    <3>1. Amid(g, f, h)
      BY <1>16, <1>20 DEF Amid
    <3>2. OnSegment(u, v, w)
      BY <3>1, <1>9, <1>12, <1>13, <1>14, LineOrder
    <3> QED
      BY <3>2, <1>9, OneLine DEF On
  <2> QED
    BY <2>4, <2>5, EndOnEdge
<1>21. g # h
  <2>1. u # w
    BY <1>1, <1>2, <1>5, <1>7, <1>8 DEF IsInjective
  <2> QED
    BY <2>1, <1>9, <1>13, <1>14, AheadTells
<1> QED
  BY <1>19, <1>20, <1>21

(* Whatever is met of a contour, an edge is touched at the latest there.   *)
LEMMA TouchedBefore ==
    ASSUME NEW c \in Seq(Point), ValidContour(c), NEW p \in Point, NEW q \in Point, p # q,
           OffContour(c, p), NEW i \in 1..Len(c),
           NEW k \in Int, NEW n \in Nat, n > 0, 0 <= k, k <= n,
           Hits(p, q, k, n, c[i], c[After(i, Len(c))])
    PROVE  \E j \in 1..Len(c) :
              /\ Contact(p, q, c[j], c[After(j, Len(c))])
              /\ ~Earlier(<<k, n>>, ContactFraction(p, q, c[j], c[After(j, Len(c))]))
<1>1. PICK N \in Nat : N = Len(c) /\ N >= 3 BY DEF ValidContour
<1>2. \A j \in 1..N : /\ After(j, N) \in 1..N /\ Before(j, N) \in 1..N
                      /\ After(Before(j, N), N) = j
                      /\ c[j] \in Point /\ c[After(j, N)] \in Point
  <2>1. \A j \in 1..Len(c) : c[j] \in Point
    OBVIOUS
  <2>2. \A j \in 1..N : c[j] \in Point
    BY <1>1, <2>1
  <2> QED
    BY <1>1, <2>2, NeighboursAre
<1>3. CASE ~Collinear(p, q, c[i], c[After(i, N)])
  <2>1. PICK a \in Point : a = c[i] BY <1>1, <1>2
  <2>2. PICK b \in Point : b = c[After(i, N)] BY <1>1, <1>2
  <2>3. /\ Contact(p, q, a, b)
        /\ ContactFraction(p, q, a, b)[1] * n = k * ContactFraction(p, q, a, b)[2]
    BY <1>1, <1>3, <2>1, <2>2, HitIsCrossing
  <2>4. PICK f, g \in Int : f = ContactFraction(p, q, a, b)[1] /\ g = ContactFraction(p, q, a, b)[2]
    BY <1>1, <1>3, <2>1, <2>2, <2>3, CrossingIs
  <2>5. ~(k * g < f * n)
    <3>1. PICK x \in Int : x = k * g OBVIOUS
    <3>2. f * n = x
      BY <2>3, <2>4, <3>1
    <3> QED
      BY <3>1, <3>2
  <2>6. ~Earlier(<<k, n>>, ContactFraction(p, q, a, b))
    BY <2>4, <2>5 DEF Earlier
  <2> QED
    BY <1>1, <2>1, <2>2, <2>3, <2>6
<1>4. CASE Collinear(p, q, c[i], c[After(i, N)])
  <2> DEFINE V == {j \in 1..N : On(p, q, c[j])}
             D == {Ahead(p, q, c[j]) : j \in V}
  <2>1. PICK l \in Int : l = Length(p, q) /\ l > 0 BY AheadIs
  <2>2. \A j \in V : c[j] \in Point /\ Ahead(p, q, c[j]) \in Nat
    <3>1. SUFFICES ASSUME NEW j \in V PROVE c[j] \in Point /\ Ahead(p, q, c[j]) \in Nat
      OBVIOUS
    <3>2. c[j] \in Point
      BY <1>2
    <3>3. Ahead(p, q, c[j]) \in Int /\ 0 <= Ahead(p, q, c[j])
      BY <3>2, AheadIs, OnIsPart
    <3> QED
      BY <3>2, <3>3
  <2>3. PICK e \in V : n * Ahead(p, q, c[e]) <= k * l
    <3>1. PICK a \in Point : a = c[i] BY <1>1, <1>2
    <3>2. PICK b \in Point : b = c[After(i, N)] BY <1>1, <1>2
    <3>3. ~OnSegment(a, b, p)
      BY <1>1, <1>4, <3>1, <3>2 DEF OffContour, On, Collinear
    <3>4. PICK v \in {a, b} : On(p, q, v) /\ n * Ahead(p, q, v) <= k * Length(p, q)
      BY <1>1, <1>4, <3>1, <3>2, <3>3, NearEnd
    <3>5. \E m \in 1..N : v = c[m]
      BY <1>1, <1>2, <3>1, <3>2, <3>4
    <3> QED
      BY <2>1, <3>4, <3>5
  <2>4. PICK d \in D : \A y \in D : d <= y
    <3>1. D \in SUBSET Nat /\ D # {}
      BY <2>2, <2>3
    <3> HIDE DEF D
    <3> QED
      BY <3>1, LeastNumber
  <2>5. PICK m \in V : d = Ahead(p, q, c[m])
    BY <2>4
  <2>6. FirstCorner(c, p, q, m)
    <3>1. \A j \in V : Ahead(p, q, c[m]) <= Ahead(p, q, c[j])
      BY <2>4, <2>5
    <3> QED
      BY <3>1, <1>1 DEF FirstCorner
  <2>7. d \in Nat /\ n * d <= k * l
    <3>1. PICK z \in Nat : z = Ahead(p, q, c[e]) BY <2>2
    <3>2. d <= z /\ d \in Nat
      BY <2>2, <2>4, <2>5, <3>1
    <3>3. n * d <= n * z
      BY <3>2
    <3>4. n * d \in Int /\ n * z \in Int /\ k * l \in Int
      BY <3>2
    <3> QED
      BY <2>3, <3>1, <3>2, <3>3, <3>4
  <2>8. ASSUME NEW a \in Point, NEW b \in Point, NEW v \in {a, b}, NEW w \in {a, b},
               v = c[m], Orientation(p, q, w) # 0
        PROVE  Contact(p, q, a, b) /\ ~Earlier(<<k, n>>, ContactFraction(p, q, a, b))
    <3>1. On(p, q, v)
      BY <2>8
    <3>2. /\ Contact(p, q, a, b) /\ ~Collinear(p, q, a, b)
          /\ ContactFraction(p, q, a, b)[1] * Length(p, q)
                = Ahead(p, q, v) * ContactFraction(p, q, a, b)[2]
      BY <2>8, <3>1, LeavingEdge
    <3>3. PICK f, g \in Int : /\ f = ContactFraction(p, q, a, b)[1]
                              /\ g = ContactFraction(p, q, a, b)[2] /\ g > 0
      BY <3>2, CrossingIs
    <3>4. f * l = d * g
      BY <2>1, <2>5, <2>8, <3>2, <3>3
    <3>5. (n * d) * g <= (k * l) * g
      <4>1. PICK x \in Int : x = n * d BY <2>7
      <4>2. PICK y \in Int : y = k * l OBVIOUS
      <4>3. x <= y
        BY <2>7, <4>1, <4>2
      <4>4. x * g <= y * g
        BY <3>3, <4>3
      <4> QED
        BY <4>1, <4>2, <4>4
    <3>6. (f * n) * l <= (k * g) * l
      <4>1. (f * l) * n = (d * g) * n
        BY <3>4
      <4>2. (f * n) * l = (n * d) * g
        BY <4>1, <2>7
      <4>3. (k * g) * l = (k * l) * g
        OBVIOUS
      <4> QED
        BY <3>5, <4>2, <4>3
    <3>7. ~(k * g < f * n)
      <4>1. PICK x \in Int : x = f * n OBVIOUS
      <4>2. PICK y \in Int : y = k * g OBVIOUS
      <4>3. y < x => y * l < x * l
        BY <2>1
      <4>4. y * l \in Int /\ x * l \in Int
        OBVIOUS
      <4> QED
        BY <3>6, <4>1, <4>2, <4>3, <4>4
    <3> QED
      BY <3>2, <3>3, <3>7 DEF Earlier
  <2>9. CASE Orientation(p, q, c[After(m, N)]) # 0
    <3>1. PICK a \in Point : a = c[m] BY <1>2
    <3>2. PICK b \in Point : b = c[After(m, N)] BY <1>2
    <3>3. Contact(p, q, a, b) /\ ~Earlier(<<k, n>>, ContactFraction(p, q, a, b))
      BY <2>8, <2>9, <3>1, <3>2
    <3> QED
      BY <1>1, <3>1, <3>2, <3>3
  <2>10. CASE Orientation(p, q, c[Before(m, N)]) # 0
    <3>1. PICK j \in 1..N : j = Before(m, N) /\ After(j, N) = m BY <1>2
    <3>2. PICK a \in Point : a = c[j] BY <1>2
    <3>3. PICK b \in Point : b = c[m] BY <1>2
    <3>4. Contact(p, q, a, b) /\ ~Earlier(<<k, n>>, ContactFraction(p, q, a, b))
      BY <2>8, <2>10, <3>1, <3>2, <3>3
    <3> QED
      BY <1>1, <3>1, <3>2, <3>3, <3>4
  <2>11. Orientation(p, q, c[After(m, N)]) # 0 \/ Orientation(p, q, c[Before(m, N)]) # 0
    BY <1>1, <2>6, TangledCorner
  <2> QED
    BY <2>9, <2>10, <2>11
<1> QED
  BY <1>3, <1>4

LEMMA LaterCarries ==
    ASSUME NEW f, NEW g, NEW h, Fraction(f), Fraction(g), Fraction(h),
           ~Earlier(f, g), ~Earlier(g, h)
    PROVE  ~Earlier(f, h)
<1>1. SUFFICES ASSUME Earlier(f, h) PROVE FALSE
  OBVIOUS
<1>2. PICK a, b, c, d, e, r \in Int : /\ a = f[1] /\ b = f[2] /\ c = g[1] /\ d = g[2]
                                      /\ e = h[1] /\ r = h[2]
  BY DEF Fraction
<1>3. b > 0 /\ d > 0 /\ r > 0
  BY <1>2 DEF Fraction
<1>4. PICK A, E, S, T, U, V \in Int : /\ A = a * r /\ E = e * b /\ S = a * d /\ T = c * b
                                      /\ U = c * r /\ V = e * d
  OBVIOUS
<1>5. A < E /\ T <= S /\ V <= U
  BY <1>1, <1>2, <1>4 DEF Earlier
<1>6. A * d < E * d
  BY <1>3, <1>5
<1>7. T * r <= S * r
  BY <1>3, <1>5
<1>8. V * b <= U * b
  BY <1>3, <1>5
<1>9. A * d = S * r /\ T * r = U * b /\ V * b = E * d
  BY <1>4
<1>10. A * d \in Int /\ E * d \in Int /\ U * b \in Int
  OBVIOUS
<1> QED
  BY <1>6, <1>7, <1>8, <1>9, <1>10

-----------------------------------------------------------------------------
(* Arrival.                                                                *)

ArrivalInv ==
    scene.kind = "ARRIVAL" =>
        /\ scene.of \in Arrivals
        /\ ValidContour(scene.of.contour)
        /\ Touched(scene.of.from, scene.of.from, scene.of.contour) = {}
        /\ ruling.arrival =
              IF Touched(scene.of.from, scene.of.to, scene.of.contour) = {} THEN Never
              ELSE FootprintArrival(scene.of.from, scene.of.to, scene.of.contour)

LEMMA MetIs ==
    ASSUME NEW a \in ArrivalType, Len(a.contour) >= 3, NEW k, NEW n
    PROVE  Met(a, k, n) <=>
              \E i \in 1..Len(a.contour) :
                 Hits(a.from, a.to, k, n, a.contour[i], a.contour[After(i, Len(a.contour))])
<1>1. a.contour \in Seq(Point)
  BY DEF ArrivalType
<1>2. \A i \in 1..Len(a.contour) :
         /\ Edge(a.contour, i)[1] = a.contour[i]
         /\ Edge(a.contour, i)[2] = a.contour[After(i, Len(a.contour))]
  BY <1>1, EdgesAre
<1>3. Met(a, k, n) <=>
         \E i \in 1..Len(a.contour) :
            Hits(a.from, a.to, k, n, Edge(a.contour, i)[1], Edge(a.contour, i)[2])
  BY DEF Met, OnContour, Hits, On, Scaled, PartOf
<1> QED
  BY <1>2, <1>3

LEMMA ArrivalFollows == ArrivalInv => ArrivalIsFirst
<1>1. SUFFICES ASSUME ArrivalInv, scene.kind = "ARRIVAL"
               PROVE  /\ ruling.arrival # Never =>
                            /\ 0 <= ruling.arrival[1] /\ ruling.arrival[1] <= ruling.arrival[2]
                            /\ Met(scene.of, ruling.arrival[1], ruling.arrival[2])
                      /\ \A k \in 0..Parts : Met(scene.of, k, Parts) =>
                            ruling.arrival # Never /\ ~Earlier(<<k, Parts>>, ruling.arrival)
  BY DEF ArrivalIsFirst
<1>2. PICK a \in ArrivalType : a = scene.of
  BY <1>1, GeometryAssumption DEF ArrivalInv
<1>3. PICK c \in Seq(Point) : c = a.contour BY DEF ArrivalType
<1>4. PICK p \in Point : p = a.from BY DEF ArrivalType
<1>5. PICK q \in Point : q = a.to BY DEF ArrivalType
<1>6. ValidContour(c) /\ Touched(p, p, c) = {}
  BY <1>1, <1>2, <1>3, <1>4 DEF ArrivalInv
<1>7. PICK N \in Nat : N = Len(c) /\ N >= 3 BY <1>6 DEF ValidContour
<1>8. PICK F : F = [j \in 1..N |-> ContactFraction(p, q, c[j], c[After(j, N)])] OBVIOUS
<1>9. PICK T \in SUBSET (1..N) : T = {j \in 1..N : Contact(p, q, c[j], c[After(j, N)])} OBVIOUS
<1>10. \A j \in 1..N : /\ Edge(c, j)[1] = c[j] /\ Edge(c, j)[2] = c[After(j, N)]
                       /\ c[j] \in Point /\ c[After(j, N)] \in Point
  BY <1>7, EdgesAre
<1>11. Touched(p, q, c) = T /\ \A j \in 1..N : At(p, q, c, j) = F[j]
  BY <1>7, <1>8, <1>9, <1>10 DEF Touched, At
<1>12. \A j \in 1..N : ~Contact(p, p, c[j], c[After(j, N)])
  BY <1>6, <1>7, <1>10 DEF Touched
<1>13. OffContour(c, p)
  BY <1>7, <1>10, <1>12, OnIsContact DEF OffContour
<1>14. \A k, n : Met(a, k, n) <=> \E i \in 1..N : Hits(p, q, k, n, c[i], c[After(i, N)])
  BY <1>3, <1>4, <1>5, <1>7, MetIs
<1>15. PICK f : f = ruling.arrival OBVIOUS
<1>16. f = IF T = {} THEN Never ELSE FootprintArrival(p, q, c)
  BY <1>1, <1>2, <1>3, <1>4, <1>5, <1>11, <1>15 DEF ArrivalInv
<1>17. T # {} => p # q
  BY <1>9, <1>12
<1>18. ASSUME NEW j \in T
       PROVE  /\ Fraction(F[j]) /\ 0 <= F[j][1] /\ F[j][1] <= F[j][2]
              /\ Met(a, F[j][1], F[j][2])
  <2>1. PICK u \in Point : u = c[j] BY <1>10
  <2>2. PICK v \in Point : v = c[After(j, N)] BY <1>10
  <2>3. Contact(p, q, u, v) /\ p # q
    BY <1>9, <1>17, <1>18, <2>1, <2>2
  <2>4. F[j] = ContactFraction(p, q, u, v)
    BY <1>8, <2>1, <2>2
  <2>5. /\ F[j][1] \in Int /\ F[j][2] \in Int /\ F[j][2] > 0 /\ 0 <= F[j][1] /\ F[j][1] <= F[j][2]
        /\ Hits(p, q, F[j][1], F[j][2], u, v)
    BY <2>3, <2>4, ContactHits
  <2>6. Met(a, F[j][1], F[j][2])
    BY <1>14, <2>1, <2>2, <2>5
  <2> QED
    BY <2>5, <2>6 DEF Fraction
<1>19. ASSUME T # {}
       PROVE  \E j \in T : f = F[j] /\ \A k \in T : ~Earlier(F[k], F[j])
  <2>1. \E j \in T : \A k \in T : ~Earlier(F[k], F[j])
    BY <1>7, <1>18, <1>19, FirstFraction
  <2>2. PICK j : j = CHOOSE i \in T : \A k \in T : ~Earlier(F[k], F[i]) OBVIOUS
  <2>3. j \in T /\ \A k \in T : ~Earlier(F[k], F[j])
    BY <2>1, <2>2
  <2>4. FootprintArrival(p, q, c) = F[j]
    <3>1. \A i \in T : (\A k \in T : ~Earlier(At(p, q, c, k), At(p, q, c, i)))
                          <=> (\A k \in T : ~Earlier(F[k], F[i]))
      BY <1>11
    <3>2. (CHOOSE i \in T : \A k \in T : ~Earlier(At(p, q, c, k), At(p, q, c, i))) = j
      BY <2>2, <3>1
    <3> QED
      BY <1>11, <2>3, <3>2 DEF FootprintArrival
  <2> QED
    BY <1>16, <1>19, <2>3, <2>4
<1>20. f # Never => 0 <= f[1] /\ f[1] <= f[2] /\ Met(a, f[1], f[2])
  BY <1>16, <1>18, <1>19
<1>21. ASSUME NEW k \in 0..Parts, Met(a, k, Parts)
       PROVE  f # Never /\ ~Earlier(<<k, Parts>>, f)
  <2>1. Parts \in Nat /\ Parts > 0 /\ k \in Int /\ 0 <= k /\ k <= Parts
    BY GeometryAssumption
  <2>2. PICK i \in 1..N : Hits(p, q, k, Parts, c[i], c[After(i, N)])
    BY <1>14, <1>21
  <2>3. p # q
    <3>1. SUFFICES ASSUME p = q PROVE FALSE
      OBVIOUS
    <3>2. c[i] \in Point /\ c[After(i, N)] \in Point
      BY <1>10
    <3>3. Contact(p, p, c[i], c[After(i, N)])
      BY <2>1, <2>2, <3>1, <3>2, StayMeetsNothing
    <3> QED
      BY <1>12, <3>3
  <2>4. PICK j \in T : ~Earlier(<<k, Parts>>, F[j])
    <3>1. \E j \in 1..Len(c) :
             /\ Contact(p, q, c[j], c[After(j, Len(c))])
             /\ ~Earlier(<<k, Parts>>, ContactFraction(p, q, c[j], c[After(j, Len(c))]))
      BY <1>6, <1>7, <1>13, <2>1, <2>2, <2>3, TouchedBefore
    <3> QED
      BY <1>7, <1>8, <1>9, <3>1
  <2>5. PICK h \in T : f = F[h] /\ \A m \in T : ~Earlier(F[m], F[h])
    BY <1>19, <2>4
  <2>6. f # Never
    BY <1>18, <2>5 DEF Never
  <2>7. Fraction(<<k, Parts>>)
    BY <2>1 DEF Fraction
  <2>8. ~Earlier(<<k, Parts>>, f)
    BY <1>18, <2>4, <2>5, <2>7, LaterCarries
  <2> QED
    BY <2>6, <2>8
<1> QED
  BY <1>2, <1>15, <1>20, <1>21

GeometryInv == SightInv /\ ArrivalInv

(* Whatever duels and moves are judged, a line of sight that is certified  *)
(* is free, the search finds every capture there is to find at its         *)
(* instants, and the arrival reported is the first one (rules.py).         *)
THEOREM RulingSound == GeometrySpec => []RulingIsSound
<1>1. GeometryInit => GeometryInv
  BY DEF GeometryInit, GeometryInv, SightInv, ArrivalInv, NoScene
<1>2. GeometryInv /\ [GeometryNext]_geometryVars => GeometryInv'
  <2>1. SUFFICES ASSUME GeometryInv, [GeometryNext]_geometryVars PROVE GeometryInv'
    OBVIOUS
  <2>2. CASE UNCHANGED geometryVars
    <3>1. scene' = scene /\ ruling' = ruling
      BY <2>2 DEF geometryVars
    <3> QED
      BY <2>1, <3>1 DEF GeometryInv, SightInv, ArrivalInv
  <2>3. ASSUME NEW a \in Arrivals, JudgeArrival(a) PROVE GeometryInv'
    <3>1. scene' = [kind |-> "ARRIVAL", of |-> a]
      BY <2>3 DEF JudgeArrival
    <3>2. scene'.kind = "ARRIVAL" /\ scene'.of = a
      BY <3>1
    <3>3. /\ ValidContour(a.contour) /\ Touched(a.from, a.from, a.contour) = {}
          /\ ruling'.arrival = IF Touched(a.from, a.to, a.contour) = {} THEN Never
                               ELSE FootprintArrival(a.from, a.to, a.contour)
      BY <2>3 DEF JudgeArrival
    <3>4. ArrivalInv'
      BY <3>2, <3>3 DEF ArrivalInv
    <3>5. SightInv'
      BY <3>2 DEF SightInv
    <3> QED
      BY <3>4, <3>5 DEF GeometryInv
  <2>4. ASSUME NEW d \in Duels, JudgeCapture(d) PROVE GeometryInv'
    <3>1. scene' = [kind |-> "DUEL", of |-> d]
      BY <2>4 DEF JudgeCapture
    <3>2. scene'.kind = "DUEL" /\ scene'.of = d
      BY <3>1
    <3>3. ruling' = [capture |-> CaptureFound(d),
                     certified |-> {i \in Intervals : SightCertified(d, i)}]
      BY <2>4 DEF JudgeCapture
    <3>4. SightInv'
      BY <3>2, <3>3 DEF SightInv
    <3>5. ArrivalInv'
      BY <3>2 DEF ArrivalInv
    <3> QED
      BY <3>4, <3>5 DEF GeometryInv
  <2> QED
    BY <2>1, <2>2, <2>3, <2>4 DEF GeometryNext
<1>3. GeometryInv => RulingIsSound
  BY SightFollows, ArrivalFollows DEF GeometryInv, RulingIsSound
<1> QED
  BY <1>1, <1>2, <1>3, PTL DEF GeometrySpec

=============================================================================
