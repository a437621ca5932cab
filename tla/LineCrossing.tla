---------------------------- MODULE LineCrossing -----------------------------
(***************************************************************************)
(* Counting lines: image-space geometry over integer points, and the last  *)
(* point the detector keeps of each track.  A line has two end points and  *)
(* a vector that points in.                                                *)
(***************************************************************************)
EXTENDS Integers

CONSTANTS MaxGap,                 \* max_gap_frames
          Nowhere                 \* no point: the track is not in the frame

ASSUME GapIsNatural == MaxGap \in Nat

(* Twice the signed area of the triangle a, b, p. *)
PointSide(a, b, p) ==
    (b[1] - a[1]) * (p[2] - a[2]) - (b[2] - a[2]) * (p[1] - a[1])

Between(x, y, z) == (y <= x /\ x <= z) \/ (z <= x /\ x <= y)

OnSegment(p, a, b) ==
    /\ PointSide(a, b, p) = 0
    /\ Between(p[1], a[1], b[1]) /\ Between(p[2], a[2], b[2])

Apart(x, y) == (x < 0 /\ y > 0) \/ (x > 0 /\ y < 0)

(* The segments share a point. *)
SegmentCrossesLine(prev, curr, a, b) ==
    \/ /\ Apart(PointSide(a, b, prev), PointSide(a, b, curr))
       /\ Apart(PointSide(prev, curr, a), PointSide(prev, curr, b))
    \/ OnSegment(prev, a, b) \/ OnSegment(curr, a, b)
    \/ OnSegment(a, prev, curr) \/ OnSegment(b, prev, curr)

Along_Swapped(prev, curr, v) ==
    (prev[1] - curr[1]) * v[1] + (prev[2] - curr[2]) * v[2]
Along(prev, curr, v) ==
    (curr[1] - prev[1]) * v[1] + (curr[2] - prev[2]) * v[2]

CrossingDirection(prev, curr, line) ==
    IF ~SegmentCrossesLine(prev, curr, line.a, line.b) THEN "none"
    ELSE IF Along(prev, curr, line.inward) > 0 THEN "in" ELSE "out"

(* _age_and_prune and the loop before it: what is kept of a track that is  *)
(* seen at p on this frame, or Nowhere.                                    *)
Forgotten_Early(misses) == misses + 2 > MaxGap
Forgotten(misses)       == misses + 1 > MaxGap

NextPoint(p, last, misses) ==
    IF p # Nowhere THEN p ELSE IF Forgotten(misses) THEN Nowhere ELSE last

NextMisses(p, last, misses) ==
    IF p # Nowhere \/ last = Nowhere \/ Forgotten(misses) THEN 0 ELSE misses + 1
==============================================================================
