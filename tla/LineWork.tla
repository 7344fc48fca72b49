------------------------------- MODULE LineWork -------------------------------
(* What encodeMVTTile does to the geometry of a feature before it is encoded: *)
(* the conversion to web mercator of basic, the simplification of             *)
(* maths/simplify and the clipping of lines of maths/clip.                    *)
(*                                                                            *)
(* A point is <<x, y>> in whole units, Unit of them to a coordinate of 1, and *)
(* a tolerance is a fraction <<n, d>>.  The arithmetic is exact: callers      *)
(* choose the unit so that the points where lines cross are whole (rounding   *)
(* of floating point numbers is left out).  Nil is the nil of Go.             *)
EXTENDS Integers, Sequences, SequencesExt

CONSTANTS Unit, Nil

Size(n) == IF n < 0 THEN -n ELSE n
Product(p, q) == p[1] * q[2] - q[1] * p[2]

-----------------------------------------------------------------------------
(* Reprojection.  A geometry is [type, v], v being a point or sequences of    *)
(* them, and f a function on points.  A collection is refused.                *)
Known == {"point", "multi point", "line", "multi line", "polygon", "multi polygon"}

OfLine(line, f)   == [i \in DOMAIN line |-> f[line[i]]]
OfLines(lines, f) == [i \in DOMAIN lines |-> OfLine(lines[i], f)]

ApplyToPoints(g, f) ==
  LET v == CASE g.type = "point"                     -> f[g.v]
             [] g.type \in {"multi point", "line"}   -> OfLine(g.v, f)
             [] g.type \in {"multi line", "polygon"} -> OfLines(g.v, f)
             [] g.type = "multi polygon" -> [i \in DOMAIN g.v |-> OfLines(g.v[i], f)]
  IN  IF g.type \in Known THEN [g EXCEPT !.v = v] ELSE Nil

CloneGeometry(g) == IF g.type \in Known THEN g ELSE Nil

Bug_ToWebMercator(srid, g, PToXY) ==
  IF srid = "web mercator" THEN ApplyToPoints(g, PToXY) ELSE CloneGeometry(g)
ToWebMercator(srid, g, PToXY) ==
  CASE srid = "web mercator" -> CloneGeometry(g)
    [] srid = "WGS84"        -> ApplyToPoints(g, PToXY)
    [] OTHER                 -> Nil
FromWebMercator(srid, g, PToLonLat) ==
  CASE srid = "web mercator" -> CloneGeometry(g)
    [] srid = "WGS84"        -> ApplyToPoints(g, PToLonLat)
    [] OTHER                 -> Nil

-----------------------------------------------------------------------------
(* Measures.  Areas and distances are in units, areas doubled.                *)
After(ring, i) == ring[IF i = Len(ring) THEN 1 ELSE i + 1]

AreaOfPolygonLineString(ring) ==
  Size(FoldLeft(LAMBDA sum, i : sum + Product(ring[i], After(ring, i)), 0,
                [i \in DOMAIN ring |-> i]))

DistOfLine(line) ==
  FoldLeft(LAMBDA sum, i : sum + Size(line[i + 1][1] - line[i][1])
                               + Size(line[i + 1][2] - line[i][2]),
           0, [i \in 1..(Len(line) - 1) |-> i])

Square(t) == <<t[1] * t[1], t[2] * t[2]>>

(* The distance from a point is Offset over the length of the line.           *)
Delta(l) == <<l[2][1] - l[1][1], l[2][2] - l[1][2]>>
Offset(l, pt) == Size(Product(Delta(l), pt) + Product(l[1], l[2]))
Farther(l, pt, tolerance) ==
  LET length == Delta(l)[1] * Delta(l)[1] + Delta(l)[2] * Delta(l)[2]
      bound  == tolerance[1] * tolerance[1] * length * Unit * Unit
  IN  /\ length # 0
      /\ Offset(l, pt) * Offset(l, pt) > (bound \div tolerance[2]) \div tolerance[2]

(* int64 of a coordinate                                                      *)
Trunc(c) == IF c < 0 THEN -((-c \div Unit) * Unit) ELSE (c \div Unit) * Unit
Truncated(pts) == [i \in DOMAIN pts |-> <<Trunc(pts[i][1]), Trunc(pts[i][2])>>]

-----------------------------------------------------------------------------
(* The tolerance is squared once more at each level, the point before the     *)
(* last is never looked at, and the farthest point starts the second half.    *)
Farthest(points) ==
  LET l == <<points[1], Last(points)>>
  IN  CHOOSE i \in 2..(Len(points) - 2) :
        \A j \in 2..(Len(points) - 2) :
          /\ Offset(l, points[j]) <= Offset(l, points[i])
          /\ Offset(l, points[j]) = Offset(l, points[i]) => i <= j

RECURSIVE DouglasPeucker(_, _)
DouglasPeucker(points, tolerance) ==
  LET epsilon == Square(tolerance)
      l       == <<points[1], Last(points)>>
      i       == Farthest(points)
  IN  IF tolerance[1] <= 0 \/ Len(points) <= 2 THEN points
      ELSE IF Len(points) > 3 /\ Farther(l, points[i], epsilon)
      THEN DouglasPeucker(SubSeq(points, 1, i - 1), epsilon)
             \o DouglasPeucker(SubSeq(points, i, Len(points)), epsilon)
      ELSE l

simplifyLineString(line, tolerance) ==
  IF Len(line) <= 4 \/ DistOfLine(line) * tolerance[2] < tolerance[1] * Unit
  THEN line
  ELSE Truncated(DouglasPeucker(line, tolerance))

(* The slopes from a point to two others, as SlopeIntercept has them: 0 for a *)
(* vertical one, which is not defined.                                        *)
SameSlope(from, p, q) ==
  LET d == Delta(<<from, p>>)
      e == Delta(<<from, q>>)
  IN  /\ (d[1] = 0) = (e[1] = 0)
      /\ IF d[1] = 0 \/ d[2] = 0 THEN e[1] = 0 \/ e[2] = 0
         ELSE e[1] # 0 /\ e[2] # 0 /\ d[2] * e[1] = e[2] * d[1]

(* lpt stays at the first point, so every slope is one from there.            *)
normalizePoints(ring) ==
  LET pts  == IF ring[1] = Last(ring) THEN Tail(ring) ELSE ring
      kept == SelectSeq([i \in DOMAIN pts |-> i],
                LAMBDA i : i = 1 \/ ~SameSlope(pts[1], pts[i], After(pts, i)))
  IN  IF Len(pts) <= 4 THEN pts ELSE [k \in DOMAIN kept |-> pts[kept[k]]]

Small(ring, tolerance) ==
  AreaOfPolygonLineString(ring) * Square(tolerance)[2]
    < 2 * Square(tolerance)[1] * Unit * Unit
Simplified(ring, tolerance) ==
  DouglasPeucker(normalizePoints(ring), Square(tolerance))

(* An outer ring that cannot be simplified keeps the whole polygon as it is,  *)
(* one that becomes a line takes it away; an inner ring only itself.          *)
InnerRings(ring, tolerance) ==
  IF Small(ring, tolerance) THEN <<ring>>
  ELSE IF Len(ring) <= 2 THEN <<>>
  ELSE IF Len(normalizePoints(ring)) <= 4 THEN <<ring>>
  ELSE IF Len(Simplified(ring, tolerance)) <= 2 THEN <<>>
  ELSE <<Truncated(Simplified(ring, tolerance))>>

simplifyPolygon(poly, tolerance) ==
  IF poly = <<>> THEN Nil
  ELSE LET outer == poly[1]
       IN  IF Small(outer, tolerance) THEN poly
           ELSE IF Len(outer) <= 2 THEN Nil
           ELSE IF Len(normalizePoints(outer)) <= 4 THEN poly
           ELSE IF Len(Simplified(outer, tolerance)) <= 2 THEN Nil
           ELSE FlattenSeq([i \in DOMAIN poly |-> InnerRings(poly[i], tolerance)])

(* The parts that are left out leave nothing when all of them are.            *)
SimplifyGeometry(type, parts, tolerance) ==
  LET simple == CASE type \in {"polygon", "line"} -> parts
                  [] type = "multi polygon" ->
                       SelectSeq([i \in DOMAIN parts |-> simplifyPolygon(parts[i], tolerance)],
                                 LAMBDA p : p # Nil)
                  [] type = "multi line" ->
                       [i \in DOMAIN parts |-> simplifyLineString(parts[i], tolerance)]
  IN  CASE type = "polygon" -> simplifyPolygon(parts, tolerance)
        [] type = "line"    -> simplifyLineString(parts, tolerance)
        [] OTHER            -> IF simple = <<>> THEN Nil ELSE simple

-----------------------------------------------------------------------------
(* Clipping.  An extent is [min, max], or Nil when a layer is not clipped.    *)
ContainsPoint(extent, p) ==
  extent = Nil \/ \A c \in 1..2 : extent.min[c] <= p[c] /\ p[c] <= extent.max[c]

PointLess(p, q) == p[1] < q[1] \/ (p[1] = q[1] /\ p[2] < q[2])

InBetween(l, p) ==
  \A c \in 1..2 : \/ l[1][c] <= p[c] /\ p[c] <= l[2][c]
                  \/ l[2][c] <= p[c] /\ p[c] <= l[1][c]

(* Where the line of edge, which has the coordinate at on axis c, meets the   *)
(* line of ln; nowhere when ln runs along that axis too.                      *)
Intersect(c, at, ln) ==
  LET d     == Delta(ln)
      other == ln[1][3 - c] + (d[3 - c] * (at - ln[1][c])) \div d[c]
  IN  IF d[c] = 0 THEN {} ELSE {IF c = 1 THEN <<at, other>> ELSE <<other, at>>}

Edges(extent) ==
  {[c |-> c, at |-> at, ends |-> IF c = 1 THEN <<<<at, extent.min[2]>>, <<at, extent.max[2]>>>>
                                          ELSE <<<<extent.min[1], at>>, <<extent.max[1], at>>>>] :
     <<c, at>> \in {<<1, extent.min[1]>>, <<1, extent.max[1]>>,
                    <<2, extent.min[2]>>, <<2, extent.max[2]>>}}

intersectPt(extent, ln) ==
  SetToSortSeq(UNION {{p \in Intersect(e.c, e.at, ln) : InBetween(e.ends, p) /\ InBetween(ln, p)} :
                        e \in Edges(extent)},
               PointLess)

SameDirection(ln, pts) == PointLess(ln[1], ln[2]) <=> PointLess(pts[1], pts[2])

(* The cases of a step along the line, on the lines done and the current one. *)
Bug_Enter(clip, ln, pts) ==
  LET first == IF Len(pts) <= 1 THEN pts ELSE <<pts[1]>>
  IN  [clip EXCEPT !.cpts = @ \o first \o <<ln[2]>>]
Enter(clip, ln, pts) ==
  LET first == IF Len(pts) <= 1 THEN pts
               ELSE IF SameDirection(ln, pts) THEN <<pts[1]>> ELSE <<pts[2]>>
  IN  [clip EXCEPT !.cpts = @ \o first \o <<ln[2]>>]

PassBy(clip, ln, pts) ==
  IF Len(pts) <= 1 THEN [clip EXCEPT !.cpts = <<>>]
  ELSE [ls   |-> Append(clip.ls, IF SameDirection(ln, pts) THEN SubSeq(pts, 1, 2)
                                 ELSE <<pts[2], pts[1]>>),
        cpts |-> <<>>]

Leave(clip, pts) ==
  [ls   |-> Append(clip.ls, clip.cpts \o SelectSeq(pts, LAMBDA p : p # Last(clip.cpts))),
   cpts |-> <<>>]

ClipStep(extent, clip, ln) ==
  LET pts == intersectPt(extent, ln)
  IN  CASE ~ContainsPoint(extent, ln[1]) /\ ContainsPoint(extent, ln[2])  -> Enter(clip, ln, pts)
        [] ~ContainsPoint(extent, ln[1]) /\ ~ContainsPoint(extent, ln[2]) -> PassBy(clip, ln, pts)
        [] ContainsPoint(extent, ln[1]) /\ ContainsPoint(extent, ln[2])   ->
             [clip EXCEPT !.cpts = Append(@, ln[2])]
        [] OTHER -> Leave(clip, pts)

LineString(line, extent) ==
  LET start == [ls   |-> <<>>,
                cpts |-> IF ContainsPoint(extent, line[1]) THEN <<line[1]>> ELSE <<>>]
      done  == FoldLeft(LAMBDA clip, i : ClipStep(extent, clip, <<line[i], line[i + 1]>>),
                        start, [i \in 1..(Len(line) - 1) |-> i])
  IN  IF line = <<>> THEN <<>>
      ELSE IF done.cpts # <<>> THEN Append(done.ls, done.cpts) ELSE done.ls

(* A line becomes several and so do those of a multi line; polygons go to     *)
(* MakeValid, which is not modelled, and the other types are left alone.      *)
CleanGeometry(type, parts, extent) ==
  CASE type = "line"       -> LineString(parts, extent)
    [] type = "multi line" -> FlattenSeq([i \in DOMAIN parts |-> LineString(parts[i], extent)])
    [] type = "points"     -> parts

-----------------------------------------------------------------------------
(* What a reprojection keeps: nothing is lost on the way and back, and the    *)
(* points of a layer that is stored in another SRID come out reprojected.     *)
Reprojected(srid, g, PToXY, PToLonLat) ==
  LET there == ToWebMercator(srid, g, PToXY)
  IN  IF g.type \in Known /\ srid \in {"web mercator", "WGS84"}
      THEN /\ FromWebMercator(srid, there, PToLonLat) = g
           /\ ApplyToPoints(there, PToLonLat) = g <=> (srid = "WGS84" \/ g.v = <<>>)
      ELSE there = Nil

(* What simplification keeps: the ends of a line and the order of its points, *)
(* an outer ring that is a ring, and no hole in its place.                    *)
IsSubSeqOf(s, t) ==   \* s is t without some of its elements
  LET next[i \in 0..Len(s)] ==
        IF i = 0 THEN 0
        ELSE LET from == {j \in (next[i - 1] + 1)..Len(t) : t[j] = s[i]}
             IN  IF from = {} THEN Len(t) + 1 ELSE CHOOSE j \in from : \A k \in from : j <= k
  IN  next[Len(s)] <= Len(t)

LineSimplified(line, tolerance) ==
  LET simple == SimplifyGeometry("line", line, tolerance)
  IN  \/ simple = line
      \/ /\ Len(simple) \in 2..Len(line)
         /\ simple[1] = Truncated(line)[1] /\ Last(simple) = Last(Truncated(line))
         /\ IsSubSeqOf(simple, Truncated(line))

Turn(l, p) == Product(Delta(l), <<p[1] - l[1][1], p[2] - l[1][2]>>)
On(l, p) == Turn(l, p) = 0 /\ InBetween(l, p)
Opposite(m, n) == (m < 0 /\ n > 0) \/ (m > 0 /\ n < 0)
Meet(l, k) ==
  \/ \E i \in 1..2 : On(l, k[i]) \/ On(k, l[i])
  \/ Opposite(Turn(l, k[1]), Turn(l, k[2])) /\ Opposite(Turn(k, l[1]), Turn(k, l[2]))

(* A valid ring: its sides meet in its corners only.                          *)
IsSimple(ring) ==
  LET side(i) == <<ring[i], After(ring, i)>>
  IN  \A i, j \in DOMAIN ring :
        i < j => /\ ring[i] # ring[j]
                 /\ IF ring[j] = After(ring, i) THEN ~On(side(i), After(ring, j))
                    ELSE IF ring[i] = After(ring, j) THEN ~On(side(j), After(ring, i))
                    ELSE ~Meet(side(i), side(j))

(* With a tolerance as small as ZEpislon gives, a polygon with a valid outer  *)
(* ring keeps one of three points or more, from its own points.               *)
PolygonSimplified(poly, tolerance) ==
  LET simple == SimplifyGeometry("polygon", poly, tolerance)
  IN  /\ simple # Nil
      /\ Len(simple) \in 1..Len(poly)
      /\ simple[1] = poly[1]
           \/ (Len(simple[1]) >= 3 /\ IsSubSeqOf(simple[1], Truncated(poly[1])))
      /\ SimplifyGeometry("multi polygon", <<poly>>, tolerance) = <<simple>>

(* What clipping keeps: every piece is inside and on the line, in its         *)
(* direction, and no point of the line that is strictly inside is lost.       *)
OnSome(line, p) == \E i \in 1..(Len(line) - 1) : On(<<line[i], line[i + 1]>>, p)
Inside(extent, p) ==
  extent = Nil \/ \A c \in 1..2 : extent.min[c] < p[c] /\ p[c] < extent.max[c]
(* the points of a segment at a twelfth of its length each                    *)
Samples(l) == {<<l[1][1] + (k * Delta(l)[1]) \div 12, l[1][2] + (k * Delta(l)[2]) \div 12>> :
                 k \in 0..12}
Forward(l, p, q) == LET d == Delta(l) e == Delta(<<p, q>>) IN d[1] * e[1] + d[2] * e[2] >= 0

LineClipped(line, extent) ==
  LET pieces == CleanGeometry("line", line, extent)
  IN  /\ \A p \in Range(pieces) :
           /\ \A q \in Range(p) : ContainsPoint(extent, q) /\ OnSome(line, q)
           /\ \A i \in 1..(Len(p) - 1) :
                \E j \in 1..(Len(line) - 1) :
                  LET l == <<line[j], line[j + 1]>>
                  IN  On(l, p[i]) /\ On(l, p[i + 1]) /\ Forward(l, p[i], p[i + 1])
      /\ \A i \in 1..(Len(line) - 1) : \A q \in Samples(<<line[i], line[i + 1]>>) :
           Inside(extent, q) => \E p \in Range(pieces) : OnSome(p, q)
      /\ CleanGeometry("multi line", <<line, line>>, extent) = pieces \o pieces
=============================================================================
