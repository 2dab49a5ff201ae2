------------------------------ MODULE Geometry ------------------------------
(***************************************************************************)
(* The geometry that every renderer shares (renderers/shared/geometry.mjs):*)
(* where routes run, and the gates that judge them: obstacles, crossings,  *)
(* shared corridors, border runs, cramped turns, ends that enter a side    *)
(* the wrong way, labels that lie on foreign routes; and the ports that    *)
(* automatic routes are given.                                             *)
(*                                                                         *)
(* Points are <<x, y>> on an integer grid, on which the tolerances of the  *)
(* code (0.0001) leave nothing to tell apart; a distance is compared by    *)
(* its square.  A rectangle is [x, y, w, h], a route a sequence of points, *)
(* a relation [from, to, points].                                          *)
(***************************************************************************)
EXTENDS Integers, Sequences, FiniteSets, SequencesExt

LOCAL Larger(a, b) == IF a > b THEN a ELSE b
LOCAL Smaller(a, b) == IF a < b THEN a ELSE b
LOCAL Sign(n) == IF n > 0 THEN 1 ELSE IF n < 0 THEN -1 ELSE 0
LOCAL Size(n) == IF n < 0 THEN -n ELSE n
LOCAL Square(n) == n * n

CrossProduct(a, b, c) ==
  (b[1] - a[1]) * (c[2] - a[2]) - (b[2] - a[2]) * (c[1] - a[1])
DotProduct(a, b, c) ==      \* of a->b and b->c
  (b[1] - a[1]) * (c[1] - b[1]) + (b[2] - a[2]) * (c[2] - b[2])
Apart2(a, b) == Square(b[1] - a[1]) + Square(b[2] - a[2])
AxisLength(a, b) == Size(b[1] - a[1]) + Size(b[2] - a[2])

Segments(points) ==
  [i \in 1..(Len(points) - 1) |-> [a |-> points[i], b |-> points[i + 1]]]

-----------------------------------------------------------------------------
(* Rectangles.                                                             *)
RectsOverlap(p, q, gap) ==
  ~ \/ p.x + p.w + gap <= q.x \/ q.x + q.w + gap <= p.x
    \/ p.y + p.h + gap <= q.y \/ q.y + q.h + gap <= p.y

Corners(r, gap) == << <<r.x - gap, r.y - gap>>, <<r.x + r.w + gap, r.y - gap>>,
                      <<r.x + r.w + gap, r.y + r.h + gap>>, <<r.x - gap, r.y + r.h + gap>> >>
PointInBox(p, r, gap) ==
  /\ r.x - gap <= p[1] /\ p[1] <= r.x + r.w + gap
  /\ r.y - gap <= p[2] /\ p[2] <= r.y + r.h + gap

Between(a, b, c) ==       \* onSegment: b within the bounds of a and c
  \A k \in 1..2 : Smaller(a[k], c[k]) <= b[k] /\ b[k] <= Larger(a[k], c[k])

SegmentsIntersect(a, b, c, d) ==
  LET o1 == Sign(CrossProduct(a, b, c))   o2 == Sign(CrossProduct(a, b, d))
      o3 == Sign(CrossProduct(c, d, a))   o4 == Sign(CrossProduct(c, d, b))
  IN \/ (o1 = 0 /\ Between(a, c, b)) \/ (o2 = 0 /\ Between(a, d, b))
     \/ (o3 = 0 /\ Between(c, a, d)) \/ (o4 = 0 /\ Between(c, b, d))
     \/ o1 # o2 /\ o3 # o4

SegmentIntersectsRect(s, r, gap) ==
  LET corner == Corners(r, gap) IN
  \/ PointInBox(s.a, r, gap) \/ PointInBox(s.b, r, gap)
  \/ \E i \in 1..4 : SegmentsIntersect(s.a, s.b, corner[i], corner[(i % 4) + 1])

(* Is the clearance of a segment from a rectangle less than t?             *)
PointNearRect(p, r, t) ==
  Square(Larger(Larger(r.x - p[1], 0), p[1] - r.x - r.w))
    + Square(Larger(Larger(r.y - p[2], 0), p[2] - r.y - r.h)) < Square(t)

PointNearSegment(p, s, t) ==
  LET along == (p[1] - s.a[1]) * (s.b[1] - s.a[1]) + (p[2] - s.a[2]) * (s.b[2] - s.a[2])
  IN IF along <= 0 THEN Apart2(p, s.a) < Square(t)
     ELSE IF along >= Apart2(s.a, s.b) THEN Apart2(p, s.b) < Square(t)
     ELSE Square(CrossProduct(s.a, s.b, p)) < Square(t) * Apart2(s.a, s.b)

SegmentRectClearanceBelow(s, r, t) ==
  /\ t > 0
  /\ \/ SegmentIntersectsRect(s, r, 0)
     \/ PointNearRect(s.a, r, t) \/ PointNearRect(s.b, r, t)
     \/ \E i \in 1..4 : PointNearSegment(Corners(r, 0)[i], s, t)

-----------------------------------------------------------------------------
(* normalizeRoutePoints: repeated points go, and so do points at which a   *)
(* route runs straight on.                                                 *)
CollinearForward(a, b, c) == CrossProduct(a, b, c) = 0 /\ DotProduct(a, b, c) >= 0

PushPoint(done, p) ==
  LET Turns(n) == n < 2 \/ ~CollinearForward(done[n - 1], done[n], p)
  IN Append(SubSeq(done, 1, Max({n \in 0..Len(done) : Turns(n)})), p)

NormalizeRoutePoints(points) ==
  LET Dedupe(done, p) == IF done # <<>> /\ Last(done) = p THEN done ELSE Append(done, p)
  IN FoldLeft(PushPoint, <<>>, FoldLeft(Dedupe, <<>>, points))

(* forwardCollinearAnalysisSegments: what runs straight on is one segment. *)
ContinuesForward(s, t) ==
  /\ s.b = t.a /\ s.a # s.b /\ t.a # t.b
  /\ CrossProduct(s.a, s.b, t.b) = 0 /\ DotProduct(s.a, s.b, t.b) > 0

ForwardCollinearSegments(points) ==
  LET Merge(done, s) ==
        IF done # <<>> /\ ContinuesForward(Last(done), s)
        THEN Append(Front(done), [a |-> Last(done).a, b |-> s.b])
        ELSE Append(done, s)
  IN FoldLeft(Merge, <<>>, Segments(points))

-----------------------------------------------------------------------------
(* The gates.  Two relations that share an end are never compared.         *)
Unrelated(l, r) == {l.from, l.to} \cap {r.from, r.to} = {}

ProperSegmentIntersection(s, t) ==
  LET Opposite(m, n) == Sign(m) * Sign(n) = -1
  IN /\ Opposite(CrossProduct(s.a, s.b, t.a), CrossProduct(s.a, s.b, t.b))
     /\ Opposite(CrossProduct(t.a, t.b, s.a), CrossProduct(t.a, t.b, s.b))

(* cleanCrossingProblems.                                                  *)
ProperlyCross(l, r, merged) ==
  LET Analysed(points) == Range(IF merged THEN ForwardCollinearSegments(points)
                                          ELSE Segments(points))
  IN /\ Unrelated(l, r)
     /\ \E s \in Analysed(l.points), t \in Analysed(r.points) :
          ProperSegmentIntersection(s, t)

(* collinearAxisOverlap: the length that two segments of an axis share.    *)
AxisOverlap(s, t) ==
  LET On(k) ==
        IF s.a[k] = s.b[k] /\ t.a[k] = t.b[k] /\ s.a[k] = t.a[k]
        THEN LET m == 3 - k IN
             [low |-> Larger(Smaller(s.a[m], s.b[m]), Smaller(t.a[m], t.b[m])),
              high |-> Smaller(Larger(s.a[m], s.b[m]), Larger(t.a[m], t.b[m]))]
        ELSE [low |-> 0, high |-> 0]
  IN IF On(2).high > On(2).low THEN On(2) ELSE On(1)
LengthOf(i) == Larger(0, i.high - i.low)

(* collectAmbiguousCorridors: the longest stretch that two relations share *)
(* along the same straight run, if it is as long as the minimum.           *)
SharedCorridor(l, r, minimum) ==
  LET Of(points) == Range(Segments(NormalizeRoutePoints(points)))
      lengths == {LengthOf(AxisOverlap(s, t)) : s \in Of(l.points), t \in Of(r.points)}
      long == {n \in lengths : n >= minimum /\ n > 0}
  IN IF Unrelated(l, r) /\ long # {} THEN CHOOSE n \in long : \A m \in long : m <= n ELSE 0

(* frameBorderSegments: the straight part of each side of a frame.         *)
FrameBorders(f) ==
  LET radius == Smaller(f.radius, Smaller(f.w \div 2, f.h \div 2))
      right == f.x + f.w
      bottom == f.y + f.h
  IN {s \in {[a |-> <<f.x + radius, f.y>>, b |-> <<right - radius, f.y>>],
             [a |-> <<right, f.y + radius>>, b |-> <<right, bottom - radius>>],
             [a |-> <<right - radius, bottom>>, b |-> <<f.x + radius, bottom>>],
             [a |-> <<f.x, bottom - radius>>, b |-> <<f.x, f.y + radius>>]} : s.a # s.b}

(* Mutant: stretches that overlap are counted as often as they are run.    *)
OverlapsAsTheyCome(intervals) == intervals

(* mergeBorderOverlaps: intervals, sorted, that touch become one.          *)
MergeBorderOverlaps(intervals) ==
  LET Sorted == SortSeq(intervals, LAMBDA i, j : i.low < j.low \/ (i.low = j.low /\ i.high < j.high))
      Join(done, i) ==
        IF done # <<>> /\ i.low <= Last(done).high
        THEN [done EXCEPT ![Len(done)].high = Larger(@, i.high)]
        ELSE Append(done, i)
  IN FoldLeft(Join, <<>>, Sorted)

(* collectBorderRuns: how far a route follows one side of a frame.         *)
BorderRun(points, side) ==
  LET overlaps == [i \in 1..(Len(points) - 1) |-> AxisOverlap(Segments(points)[i], side)]
      runs == MergeBorderOverlaps(SelectSeq(overlaps, LAMBDA i : LengthOf(i) > 0))
  IN FoldLeft(LAMBDA total, i : total + LengthOf(i), 0, runs)

(* collectRouteRhythmIssues: segments that are too short, and how.         *)
RhythmIssues(points, interior, micro) ==
  LET route == NormalizeRoutePoints(points)
      Long(i) == AxisLength(route[i], route[i + 1])
      inner == 2..(Len(route) - 2)
  IN {<<"micro-segment", i>> : i \in {j \in 1..(Len(route) - 1) : Long(j) < micro}}
       \cup {<<"short-interior-segment", i>> :
               i \in {j \in inner : micro <= Long(j) /\ Long(j) < interior}}

(* routeBudgetMetrics, of one route: its bends, and whether it is longer   *)
(* than stretch percent of the direct way.                                 *)
Bends(points) == Larger(0, Len(NormalizeRoutePoints(points)) - 2)
RouteLength(points) ==
  FoldLeft(LAMBDA total, s : total + AxisLength(s.a, s.b), 0, Segments(NormalizeRoutePoints(points)))
OverStretched(points, stretch) ==
  LET direct == AxisLength(Head(points), Last(points)) IN
  direct > 0 /\ 100 * RouteLength(points) > stretch * direct

(* cleanFlowProblems: the obstacles, other than its ends, that a relation  *)
(* runs through.                                                           *)
FlowProblems(relation, obstacles, clearance) ==
  IF {relation.from, relation.to} \subseteq {o.id : o \in obstacles}
  THEN {o.id : o \in {q \in obstacles :
          /\ q.id \notin {relation.from, relation.to}
          /\ \E s \in Range(Segments(relation.points)) : SegmentIntersectsRect(s, q, clearance)}}
  ELSE {}

(* collectLabelRouteClearance: the routes, other than its own, that come   *)
(* closer to a label than the threshold.                                   *)
LabelRouteHits(rect, own, routes, threshold) ==
  {r \in routes : /\ r # own
                  /\ \E s \in Range(Segments(NormalizeRoutePoints(r.points))) :
                       SegmentRectClearanceBelow(s, rect, threshold)}

-----------------------------------------------------------------------------
(* ENDPOINT_SIDE_RULES: a route leaves a side outwards and enters it       *)
(* inwards, at a right angle.                                              *)
Outward == [left |-> <<-1, 0>>, right |-> <<1, 0>>, top |-> <<0, -1>>, bottom |-> <<0, 1>>]

EndpointSideIssue(points, endpoint, side) ==
  LET route == NormalizeRoutePoints(points)
      i == IF endpoint = "source" THEN 1 ELSE Len(route) - 1
      away == IF endpoint = "source" THEN 1 ELSE -1
      d == <<route[i + 1][1] - route[i][1], route[i + 1][2] - route[i][2]>>
      axis == IF side \in {"left", "right"} THEN 1 ELSE 2
  IN /\ Len(route) >= 2
     /\ ~ (d[3 - axis] = 0 /\ d[axis] * Outward[side][axis] * away > 0)

RouteHonorsEndpointSides(points, from, to) ==
  ~ EndpointSideIssue(points, "source", from) /\ ~ EndpointSideIssue(points, "target", to)

DefaultFromSide(from, to) ==
  IF to.cx < from.cx THEN "left" ELSE IF to.cx > from.cx THEN "right"
  ELSE IF to.cy > from.cy THEN "bottom" ELSE "top"
DefaultToSide(from, to) ==
  IF to.cx < from.cx THEN "right" ELSE IF to.cx > from.cx THEN "left"
  ELSE IF to.cy > from.cy THEN "top" ELSE "bottom"
ChosenSide(side, fallback) == IF side # "auto" THEN side ELSE fallback

(* cleanEndpointSideProblems: authored sides are always held to, inferred  *)
(* ones only where the author has given the route no shape.                *)
SideProblems(relation, inferredFrom, inferredTo) ==
  LET shaped == relation.route # "auto" \/ relation.via
      Problem(endpoint, side, inferred) ==
        /\ side # "auto" \/ ~ shaped
        /\ EndpointSideIssue(relation.points, endpoint, ChosenSide(side, inferred))
  IN {e \in {"source", "target"} :
        IF e = "source" THEN Problem(e, relation.fromSide, inferredFrom)
                        ELSE Problem(e, relation.toSide, inferredTo)}

-----------------------------------------------------------------------------
Anchor(box, side) ==
  CASE side = "left" -> <<box.x, box.cy>>
    [] side = "right" -> <<box.x + box.w, box.cy>>
    [] side = "top" -> <<box.cx, box.y>>
    [] side = "bottom" -> <<box.cx, box.y + box.h>>

(* automaticPortRhythmBridge: a route through an outside channel for ports *)
(* too close for a dogleg; <<>> when the ordinary route will do, or when   *)
(* no channel is acceptable to the caller either.                          *)
RhythmBridge(start, end, fromSide, toSide, stub, interior, micro, refused) ==
  LET Out(p, side) == <<p[1] + Outward[side][1] * stub, p[2] + Outward[side][2] * stub>>
      s == Out(start, fromSide)
      e == Out(end, toSide)
      Sides(k) == IF k = 1 THEN {"top", "bottom"} ELSE {"left", "right"}
      Channel(k, sign) ==      \* beside both ends, across their axis
        IF sign > 0 THEN Larger(start[k], end[k]) + interior
        ELSE Smaller(start[k], end[k]) - interior
      InChannel(p, k, sign) == [p EXCEPT ![k] = Channel(k, sign)]
      Via(k, sign) == <<start, s, InChannel(s, k, sign), InChannel(e, k, sign), e, end>>
      Fits(k) == {fromSide, toSide} \subseteq Sides(k) /\ Size(start[k] - end[k]) < interior
      candidates == [i \in 1..4 |-> LET k == (i + 1) \div 2 IN
                      IF Fits(k)
                      THEN NormalizeRoutePoints(Via(k, IF i % 2 = 1 THEN 1 ELSE -1))
                      ELSE <<>>]
      Good1(points) == /\ points # <<>>
                       /\ RouteHonorsEndpointSides(points, fromSide, toSide)
                       /\ RhythmIssues(points, interior, micro) = {}
                       /\ points \notin refused
      good == SelectSeq(candidates, Good1)
  IN IF good = <<>> THEN <<>> ELSE Head(good)

(* Mutant: ends are spread in the order in which the document has them.    *)
AsAuthored(side, p, q) == p.at < q.at

(* The order of the ends at one side: that of what they lead to, then that *)
(* of the relations' keys (rank), then that of the document.               *)
PortOrder(side, p, q) ==
  LET k == IF side \in {"left", "right"} THEN "cy" ELSE "cx"
      Key(e) == <<e.counterpart[k], e.rank, e.at>>
  IN \E i \in 1..3 : Key(p)[i] < Key(q)[i] /\ \A j \in 1..(i - 1) : Key(p)[j] = Key(q)[j]

(* The ends of automatic relations at one side of a box, in order.         *)
Automatic(r) == r.route = "auto" /\ ~ r.via
PortsAt(relations, boxes, id, side) ==
  LET End(i, box, counterpart, chosen) ==
        [at |-> i, rank |-> relations[i].rank, box |-> box,
         counterpart |-> boxes[counterpart], side |-> chosen]
      Ends(i) ==
        LET r == relations[i] IN
        {End(i, r.from, r.to, ChosenSide(r.fromSide, DefaultFromSide(boxes[r.from], boxes[r.to]))),
         End(i, r.to, r.from, ChosenSide(r.toSide, DefaultToSide(boxes[r.from], boxes[r.to])))}
      all == UNION {Ends(i) : i \in {j \in DOMAIN relations : Automatic(relations[j])}}
  IN SetToSortSeq({e \in all : e.box = id /\ e.side = side}, LAMBDA p, q : PortOrder(side, p, q))

(* automaticPortSpread: where along the side each end goes, in half units; *)
(* <<>> when they all keep the middle.                                     *)
PortSpread(relations, boxes, id, side, gutter, maxSpacing) ==
  LET ports == PortsAt(relations, boxes, id, side)
      n == Len(ports)
      k == IF side \in {"left", "right"} THEN 2 ELSE 1
      usable == (IF k = 2 THEN boxes[id].h ELSE boxes[id].w) - 2 * gutter
      spacing == Smaller(maxSpacing, usable \div (n - 1))
  IN IF n < 2 \/ usable <= 0 THEN <<>>
     ELSE [i \in 1..n |-> [port |-> ports[i],
             along |-> 2 * Anchor(boxes[id], side)[k] + (2 * i - n - 1) * spacing]]

-----------------------------------------------------------------------------
(* What the gates are for, in terms of the points a route covers.  Routes  *)
(* of axis segments are sets of unit steps <<low end, direction>>.         *)
Covered(points) ==
  UNION {{p \in (Smaller(s.a[1], s.b[1])..Larger(s.a[1], s.b[1]))
                  \X (Smaller(s.a[2], s.b[2])..Larger(s.a[2], s.b[2])) : TRUE} :
           s \in Range(Segments(points))}
StepsOf(points) ==
  UNION {UNION {{<<p, k>> : p \in {q \in Covered(<<s.a, s.b>>) :
                                    s.a[k] # s.b[k] /\ q[k] < Larger(s.a[k], s.b[k])}} :
                  k \in {1, 2}} : s \in Range(Segments(points))}
Back(p, k) == [p EXCEPT ![k] = @ - 1]
StraightThrough(points, k) == {p \in Covered(points) : {<<p, k>>, <<Back(p, k), k>>} \subseteq StepsOf(points)}

(* However a route is cut into segments: a crossing is reported where two  *)
(* relations run straight through each other, a corridor where they share  *)
(* a long enough run, a border run is as long as what is covered of the    *)
(* side, and an obstacle is hit by a point of the route within its         *)
(* clearance.                                                              *)
GatesSeeTheRoutes(l, r, frame) ==
  LET shared(k, p, n) == \A i \in 0..(n - 1) :
        <<[p EXCEPT ![k] = @ + i], k>> \in StepsOf(l.points) \cap StepsOf(r.points)
  IN /\ ProperlyCross(l, r, TRUE) <=>
          \E k \in 1..2 : StraightThrough(l.points, k) \cap StraightThrough(r.points, 3 - k) # {}
     /\ \A n \in 1..3 : SharedCorridor(l, r, n) >= n <=>
          \E k \in 1..2, p \in Covered(l.points) : shared(k, p, n)
     /\ \A side \in FrameBorders(frame) :
          BorderRun(r.points, side) =
            Cardinality(StepsOf(r.points) \cap StepsOf(<<side.a, side.b>>))
     /\ \A gap \in 0..1 : (\E s \in Range(Segments(r.points)) : SegmentIntersectsRect(s, frame, gap))
          <=> \E p \in Covered(r.points) : PointInBox(p, frame, gap)

(* The ends at one side of a box stand in the order of what they lead to,  *)
(* apart from each other and clear of the corners, whatever the order of   *)
(* the document, so that the routes of one side do not cross each other.   *)
PortsFanOut(relations, boxes, gutter, maxSpacing) ==
  \A id \in DOMAIN boxes, side \in DOMAIN Outward :
    LET ports == PortSpread(relations, boxes, id, side, gutter, maxSpacing)
        k == IF side \in {"left", "right"} THEN 2 ELSE 1
        c == IF k = 2 THEN "cy" ELSE "cx"
        low == Anchor(boxes[id], side)[k] - (IF k = 2 THEN boxes[id].h ELSE boxes[id].w) \div 2
    IN \A i, j \in DOMAIN ports :
         /\ ports[i].port.counterpart[c] < ports[j].port.counterpart[c]
              => ports[i].along < ports[j].along
         /\ i # j => ports[i].along # ports[j].along
         /\ ports[i].along - 2 * low >= 2 * gutter

(* A bridge is a route that the gates accept: it keeps its ends, leaves    *)
(* and enters the sides the right way and has no cramped turn; and there   *)
(* is one wherever two ports on the same side of their boxes are close     *)
(* together across it and the boxes level or far enough apart.             *)
BridgeServes(start, end, side, stub, interior, micro) ==
  LET route == RhythmBridge(start, end, side, side, stub, interior, micro, {})
      k == IF side \in {"top", "bottom"} THEN 1 ELSE 2
  IN /\ route # <<>> => Head(route) = start /\ Last(route) = end
     /\ Size(start[k] - end[k]) < interior
          => (route # <<>> <=> Size(start[3 - k] - end[3 - k]) = 0
                               \/ Size(start[3 - k] - end[3 - k]) >= interior)
=============================================================================
