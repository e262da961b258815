------------------------------- MODULE Plane -------------------------------
(***************************************************************************)
(* Points of the plane with integer coordinates, and vectors between them. *)
(***************************************************************************)
EXTENDS Integers

Point == Int \X Int

Lesser(a, b) == IF a <= b THEN a ELSE b
Greater(a, b) == IF a >= b THEN a ELSE b

Minus(p, q) == <<p[1] - q[1], p[2] - q[2]>>
Cross(p, q) == p[1] * q[2] - p[2] * q[1]
Dot(p, q) == p[1] * q[1] + p[2] * q[2]

SquaredDistance(p, q) == Dot(Minus(p, q), Minus(p, q))
=============================================================================
