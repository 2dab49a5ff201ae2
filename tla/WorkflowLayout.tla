--------------------------- MODULE WorkflowLayout ---------------------------
(***************************************************************************)
(* The layout of a workflow diagram                                        *)
(* (renderers/workflow/workflow-compiler.mjs): the six columns that the    *)
(* readable contract measures from what has to fit between and above them, *)
(* the lanes around them, the frames and labels on them, the gates that    *)
(* judge the outcome, and the bounded rounds in which a router may ask for *)
(* more room.  The routes themselves are left to the gates of Geometry.    *)
(*                                                                         *)
(* A document is [lanes, nodes, edges, phases, groups]: lanes a sequence   *)
(* of [header], the others sets (canonicalReadableWorkflow sorts them, and *)
(* nothing here depends on their order).  Text is given by the width it    *)
(* measures; lengths are pixels, widths and heights multiples of 4 so that *)
(* halves are exact.  A missing label has width 0.                         *)
(***************************************************************************)
EXTENDS Integers, Sequences, FiniteSets, SequencesExt

LOCAL Largest(S) == CHOOSE n \in S : \A m \in S : m <= n
LOCAL Total(s) == FoldSeq(LAMBDA a, b : a + b, 0, s)
LOCAL Distance(a, b) == IF a < b THEN b - a ELSE a - b

Cols == 0..5
ColumnPitch == 120
ColumnStart == 94
LegacyColumnCenters == <<88, 220, 300, 430, 500, 625>>

NodesIn(d, lane, from, to) ==
  {n \in d.nodes : n.lane = lane /\ n.col \in from..to}
Node(d, id) == CHOOSE n \in d.nodes : n.id = id

VerticallyClose(a, b, gap) ==
  Distance(a.dy, b.dy) < (a.h + b.h) \div 2 + gap

-----------------------------------------------------------------------------
(* What has to fit between two columns: [from, to, least].                 *)
Fits(a, b, gap) ==
  [from |-> a.col, to |-> b.col, least |-> (a.w + b.w) \div 2 + gap]

Pitches == {[from |-> c, to |-> c + 1, least |-> ColumnPitch] : c \in 0..4}

NodeClearances(d) ==
  {Fits(p[1], p[2], 8) : p \in {q \in d.nodes \X d.nodes :
     /\ q[1].lane = q[2].lane /\ q[1].col < q[2].col
     /\ VerticallyClose(q[1], q[2], 8)}}

(* Edges that can run straight between two nodes of a lane.                *)
DirectEdges(d) ==
  {e \in d.edges : LET a == Node(d, e.from)  b == Node(d, e.to) IN
     /\ a.lane = b.lane /\ a.col # b.col /\ a.dy = b.dy
     /\ e.pins \cap {"via", "channelX", "channelY"} = {}
     /\ e.route \in {"auto", "straight"}}
Earlier(d, e) == LET a == Node(d, e.from)  b == Node(d, e.to) IN
  IF a.col < b.col THEN a ELSE b
Later(d, e) == LET a == Node(d, e.from)  b == Node(d, e.to) IN
  IF a.col < b.col THEN b ELSE a

LabelGap(e) == IF e.label = 0 \/ "labelAt" \in e.pins \/ e.label + 8 < 28
               THEN 28 ELSE e.label + 8
(* Widening the columns by more than a detour costs is not worth it: the   *)
(* label goes to a channel.                                                *)
PrefersLabelChannel(e) ==
  /\ e.label > 0 /\ "labelAt" \notin e.pins
  /\ e.route = "auto" /\ e.fromSide = "none" /\ e.toSide = "none"
  /\ LabelGap(e) - 28 > 4 * 28

DirectClearances(d) ==
  {Fits(Earlier(d, e), Later(d, e), 28) : e \in DirectEdges(d)}
(* Mutant: a label that is written down in full is given no room.          *)
LabelsTooLong(d) == {}

LabelClearances(d) ==
  {Fits(Earlier(d, e), Later(d, e), LabelGap(e)) :
     e \in {f \in DirectEdges(d) : ~PrefersLabelChannel(f)}}

(* A phase or a group of several columns is wide enough for its label; one *)
(* of a single column pushes the next column away.                         *)
Span(s, labelled, natural) ==
  IF s.from < s.to
  THEN {[from |-> s.from, to |-> s.to, least |-> Largest({0, labelled - natural})]}
  ELSE {[from |-> c, to |-> c + 1, least |-> ColumnPitch + Largest({0, labelled - natural})]
          : c \in {s.to} \cap 0..4}
PhaseSpans(d) == UNION {Span(p, p.text + 8, 92) : p \in d.phases}
GroupSpans(d) == UNION {Span(g, g.text + 20, 100) : g \in d.groups}

(* What the router asked for in earlier rounds: from a pair of columns to  *)
(* the distance they need.                                                 *)
RankGaps(fb) == {[from |-> p[1], to |-> p[2], least |-> fb[p]] : p \in DOMAIN fb}

Constraints(d, fb) ==
  Pitches \cup RankGaps(fb) \cup NodeClearances(d) \cup DirectClearances(d)
  \cup LabelClearances(d) \cup PhaseSpans(d) \cup GroupSpans(d)

(* Every column as far left as the constraints on it allow, from the left. *)
Relaxed(C) ==
  LET x[c \in Cols] ==
        Largest({ColumnStart + c * ColumnPitch}
                \cup {x[k.from] + k.least : k \in {m \in C : m.to = c}})
  IN x

-----------------------------------------------------------------------------
(* The columns move right together until what hangs over the left fits.    *)
Moved(x, by) == [c \in Cols |-> x[c] + by]

FirstRankShift(d, x) ==
  Largest({0, 48 + Largest({46} \cup {n.w \div 2 : n \in {m \in d.nodes : m.col = 0}}) - x[0]})

(* An edge that ends at the top of a node has to clear the lane's header.  *)
TopEnds(d) ==
  LET free == {e \in d.edges : e.pins \cap {"via", "channelX"} = {}} IN
  {e.from : e \in {f \in free : f.fromSide = "top"}}
  \cup {e.to : e \in {f \in free : f.toSide = "top"}}
HeaderRight(d, lane) == 54 + d.lanes[lane].header
LaneHeaderShift(d, x) ==
  Largest({0} \cup {HeaderRight(d, Node(d, i).lane) + 2 - x[Node(d, i).col] : i \in TopEnds(d)})

PhaseBounds(p, x) ==
  LET natural == x[p.to] - x[p.from] + 92
      width == Largest({natural, p.text + 8}) IN
  [x |-> IF p.from = p.to THEN x[p.from] - 46 ELSE (x[p.from] + x[p.to] - width) \div 2,
   w |-> width]

(* A group is as wide as its columns, its label and its nodes ask.         *)
GroupBounds(d, g, x) ==
  LET start == x[g.from] - 50
      end == x[g.to] + 50
      width == Largest({end - start, g.text + 20})
      own == NodesIn(d, g.lane, g.from, g.to)
      framed == IF g.from = g.to THEN start ELSE (start + end - width) \div 2
      left == -Largest({-framed} \cup {n.w \div 2 + 4 - x[n.col] : n \in own})
      right == Largest({framed + width} \cup {x[n.col] + n.w \div 2 + 4 : n \in own})
  IN [x |-> left, w |-> right - left]

ChannelLabelLeft(d, e, x) ==
  (x[Node(d, e.from).col] + x[Node(d, e.to).col] - e.label) \div 2
ContentShift(d, x) ==
  Largest({0}
    \cup {16 - ChannelLabelLeft(d, e, x) :
            e \in {f \in DirectEdges(d) : PrefersLabelChannel(f)}}
    \cup {16 - PhaseBounds(p, x).x : p \in d.phases}
    \cup {44 - GroupBounds(d, g, x).x : g \in d.groups})

Columns(d, fb) ==
  LET a == Relaxed(Constraints(d, fb))
      b == Moved(a, FirstRankShift(d, a))
      c == Moved(b, LaneHeaderShift(d, b))
  IN Moved(c, ContentShift(d, c))

-----------------------------------------------------------------------------
(* Lanes: wide enough for every column, node, group and header; the nodes' *)
(* strip as high as the highest node, with room for group frames.          *)
LaneWidth(d, x) ==
  LET rightmost == Largest({x[5] + 50} \cup {x[n.col] + n.w \div 2 : n \in d.nodes}
                      \cup {GroupBounds(d, g, x).x + GroupBounds(d, g, x).w : g \in d.groups})
  IN Largest({640, rightmost - 40 + 8} \cup {d.lanes[l].header + 30 : l \in DOMAIN d.lanes})

BaseContentHeight(d) ==
  Largest({74} \cup {n.h + 2 * Distance(n.dy, 0) + 8 : n \in d.nodes})
TopOffset(d, n) == (BaseContentHeight(d) - n.h) \div 2 + n.dy

GroupedNodes(d, lane) ==
  {p \in {g \in d.groups : g.lane = lane} \X d.nodes :
     p[2] \in NodesIn(d, lane, p[1].from, p[1].to)}
UnderLabel(d, g, n, x) ==
  LET left == GroupBounds(d, g, x).x + 10 IN
  /\ x[n.col] + n.w \div 2 > left
  /\ x[n.col] - n.w \div 2 < left + g.text
GroupHeader(d, lane, x) ==
  Largest({0} \cup {(IF UnderLabel(d, p[1], p[2], x) THEN 11 ELSE 9) - TopOffset(d, p[2])
                 : p \in GroupedNodes(d, lane)})
GroupFooter(d, lane) ==
  Largest({0} \cup {1 - (BaseContentHeight(d) - 4 - TopOffset(d, p[2]) - p[2].h)
                 : p \in GroupedNodes(d, lane)})
LaneHeight(d, lane, x) ==
  30 + BaseContentHeight(d) + GroupHeader(d, lane, x) + GroupFooter(d, lane)
LaneGap(least) == Largest({20, least})
LaneTop(d, lane, x, gap) ==
  52 + Total([l \in 1..(lane - 1) |-> LaneHeight(d, l, x)]) + (lane - 1) * gap

Placed(d, n, x, gap) ==
  [x |-> x[n.col] - n.w \div 2, w |-> n.w, h |-> n.h,
   y |-> LaneTop(d, n.lane, x, gap) + 30 + GroupHeader(d, n.lane, x) + TopOffset(d, n)]
GroupFrame(d, g, x, gap) ==
  [x |-> GroupBounds(d, g, x).x, w |-> GroupBounds(d, g, x).w,
   y |-> LaneTop(d, g.lane, x, gap) + 38, h |-> LaneHeight(d, g.lane, x) - 42]
GroupLabel(d, g, x, gap) ==
  [x |-> GroupBounds(d, g, x).x + 10, w |-> g.text,
   y |-> LaneTop(d, g.lane, x, gap) + 26, h |-> 14]
PhaseHeader(p, x) == [x |-> PhaseBounds(p, x).x, w |-> PhaseBounds(p, x).w, y |-> 27, h |-> 16]

(* The canvas: what the lanes need, or what is drawn further out.          *)
RequiredWidth(d, x, gap) ==
  Largest({40 + LaneWidth(d, x) + 16}
    \cup {Placed(d, n, x, gap).x + n.w + 16 : n \in d.nodes}
    \cup {PhaseHeader(p, x).x + PhaseHeader(p, x).w + 16 : p \in d.phases}
    \cup {GroupFrame(d, g, x, gap).x + GroupFrame(d, g, x, gap).w + 16 : g \in d.groups}
    \cup {GroupLabel(d, g, x, gap).x + g.text + 16 : g \in d.groups})

-----------------------------------------------------------------------------
(* The gates that judge where the nodes stand.                             *)
Overlapping(p, q, gap) ==
  ~ \/ p.x + p.w + gap <= q.x \/ q.x + q.w + gap <= p.x
    \/ p.y + p.h + gap <= q.y \/ q.y + q.h + gap <= p.y

NodeOverlaps(d, x, gap) ==
  {p \in d.nodes \X d.nodes : /\ p[1] # p[2] /\ p[1].lane = p[2].lane
     /\ Overlapping(Placed(d, p[1], x, gap), Placed(d, p[2], x, gap), 8)}
OutsideLaneAcross(d, x, gap) ==
  {n \in d.nodes : LET r == Placed(d, n, x, gap) IN
     r.x < 40 \/ r.x + r.w > 40 + LaneWidth(d, x)}
OutsideLaneDown(d, x, gap) ==
  {n \in d.nodes : LET r == Placed(d, n, x, gap)  top == LaneTop(d, n.lane, x, gap) IN
     \/ r.y < top + 30 + GroupHeader(d, n.lane, x)
     \/ r.y + r.h > top + LaneHeight(d, n.lane, x)}

-----------------------------------------------------------------------------
(* The rounds of layout.  The router of one round asks for a rank gap or   *)
(* a lane gap; the next round is laid out with it, unless it asks for no   *)
(* more than it already had, or the rounds are spent.                      *)
MaxFeedbackRounds == 3
NoFeedback == [rank |-> << >>, lane |-> 0]

Grows(fb, r) ==
  IF r.kind = "lane" THEN r.least > fb.lane
  ELSE <<r.from, r.to>> \in DOMAIN fb.rank => r.least > fb.rank[<<r.from, r.to>>]
Granted(fb, r) ==
  IF r.kind = "lane" THEN [fb EXCEPT !.lane = r.least]
  ELSE [fb EXCEPT !.rank =
          [p \in DOMAIN @ \cup {<<r.from, r.to>>} |->
             IF p = <<r.from, r.to>> THEN r.least ELSE @[p]]]

(* The feedback of every round, for what each of them asks in turn.        *)
LayoutRounds(requests) ==
  FoldLeft(LAMBDA rounds, r :
             IF \/ Len(rounds) > MaxFeedbackRounds \/ ~Grows(Last(rounds), r)
             THEN rounds ELSE Append(rounds, Granted(Last(rounds), r)),
           <<NoFeedback>>, requests)

-----------------------------------------------------------------------------
(* The readable contract.  createReadableLayout settles the columns in     *)
(* passes that know nothing of each other, and validateWorkflow judges the *)
(* outcome by other rules; no pass may undo an earlier one, and no gate    *)
(* may fire for what the layout itself chose.                              *)
ColumnsHold(d, x) ==
  /\ \A k \in Constraints(d, << >>) : x[k.to] - x[k.from] >= k.least
  /\ \A e \in DirectEdges(d) : ~PrefersLabelChannel(e) =>
       Distance(x[Node(d, e.from).col], x[Node(d, e.to).col])
         - (Node(d, e.from).w + Node(d, e.to).w) \div 2 >= LabelGap(e)
  /\ \A i \in TopEnds(d) : x[Node(d, i).col] >= HeaderRight(d, Node(d, i).lane) + 2

GatesPass(d, x, gap) ==
  /\ \A p \in NodeOverlaps(d, x, gap) : p[1].col = p[2].col
  /\ OutsideLaneDown(d, x, gap) = {}
  /\ \A n \in OutsideLaneAcross(d, x, gap) :      \* only a wide node of a later rank
       n.col > 0 /\ n.w > 2 * ColumnPitch

FramesHold(d, x, gap) ==
  \A g \in d.groups :
    LET f == GroupFrame(d, g, x, gap) IN
    /\ f.x >= 44 /\ f.x + f.w <= 40 + LaneWidth(d, x) - 8
    /\ GroupLabel(d, g, x, gap).x + g.text <= f.x + f.w
    /\ \A n \in NodesIn(d, g.lane, g.from, g.to) :
         LET r == Placed(d, n, x, gap) IN
         /\ f.x + 4 <= r.x /\ r.x + r.w + 4 <= f.x + f.w
         /\ f.y < r.y /\ r.y + r.h < f.y + f.h
         /\ ~Overlapping(GroupLabel(d, g, x, gap), r, 0)

CanvasHolds(d, x, gap) ==
  /\ \A p \in d.phases : PhaseHeader(p, x).x >= 16
  /\ \A e \in DirectEdges(d) : PrefersLabelChannel(e) => ChannelLabelLeft(d, e, x) >= 16
  /\ \A p \in d.phases : PhaseHeader(p, x).x + PhaseHeader(p, x).w < RequiredWidth(d, x, gap)

(* Every round keeps what all earlier rounds were granted, and there are   *)
(* at most four of them.                                                   *)
LayoutSound(d, requests) ==
  LET rounds == LayoutRounds(requests) IN
  /\ Len(rounds) <= MaxFeedbackRounds + 1
  /\ \A r \in 1..Len(rounds) :
       LET x == Columns(d, rounds[r].rank)
           gap == LaneGap(rounds[r].lane) IN
       /\ \A q \in 1..(r - 1) : requests[q].kind = "rank" =>
            x[requests[q].to] - x[requests[q].from] >= requests[q].least
       /\ \A q \in 1..(r - 1) : requests[q].kind = "lane" => gap >= requests[q].least
       /\ ColumnsHold(d, x) /\ GatesPass(d, x, gap)
       /\ FramesHold(d, x, gap) /\ CanvasHolds(d, x, gap)
=============================================================================
