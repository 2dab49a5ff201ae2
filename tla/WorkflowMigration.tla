------------------------- MODULE WorkflowMigration --------------------------
(***************************************************************************)
(* The migration of a workflow from the fixed columns of version 1 to the  *)
(* measured ones of version 2 (migrations/workflow-v2.mjs and              *)
(* renderers/workflow/workflow-migration-geometry.mjs), and what the       *)
(* compiler advises the author of a version 1 document whose nodes stand   *)
(* too close: to migrate, to move a node, or to make two of them narrower. *)
(*                                                                         *)
(* A document is one of WorkflowContract with what WorkflowLayout measures *)
(* in its parts, a version and a box, << >> or the authored <<w, h>>.  An  *)
(* edge carries x, from the pins that it has to their X coordinates, and a *)
(* node text, the width of its label.  Coordinates are rounded down to     *)
(* whole pixels where the code keeps six digits.  Of the gates that judge  *)
(* drawn routes only two are kept: nodes apart, and pins clear of nodes    *)
(* and of the origin.                                                      *)
(***************************************************************************)
EXTENDS WorkflowLayout, WorkflowContract

LOCAL Apart(a, b) == IF a < b THEN b - a ELSE a - b

LaidOut(d) ==
  [lanes |-> d.lanes, nodes |-> Range(d.nodes), phases |-> Range(d.phases),
   groups |-> Range(d.groups),
   edges |-> {[from |-> e.from, to |-> e.to, label |-> e.label, route |-> e.route,
               fromSide |-> e.fromSide, toSide |-> e.toSide, pins |-> DOMAIN e.x]
                : e \in Range(d.edges)}]
RankCenters(d) ==
  IF d.version = 1 THEN [c \in Cols |-> LegacyColumnCenters[c + 1]]
  ELSE Columns(LaidOut(d), << >>)

-----------------------------------------------------------------------------
(* What the compiler has against a document, in its order: the semantic    *)
(* contract, short edges under the fixed columns, the structure and the    *)
(* gates, and last the authored canvas of version 2.                       *)
NodeOf(d, id) == NodeMap(d)[id]
Clearance(d, e) ==
  LET a == NodeOf(d, e.from)  b == NodeOf(d, e.to)  x == RankCenters(d) IN
  Apart(x[a.col], x[b.col]) - (a.w + b.w) \div 2
RequiredClearance(d, e) ==
  IF /\ "via" \notin DOMAIN e.x /\ e.route \in {"auto", "straight"}
     /\ NodeOf(d, e.from).dy = NodeOf(d, e.to).dy THEN 28 ELSE 8
ShortEdges(d) ==
  {i \in DOMAIN d.edges : LET e == d.edges[i] IN
     /\ {e.from, e.to} \subseteq IdsOf(d.nodes)
     /\ LET a == NodeOf(d, e.from)  b == NodeOf(d, e.to) IN
        /\ a.lane = b.lane /\ a.col # b.col /\ VerticallyClose(a, b, 8)
        /\ Clearance(d, e) < RequiredClearance(d, e)}

Clashes(d) ==
  LET x == RankCenters(d)  nodes == Range(NodeMap(d)) IN
  {p \in nodes \X nodes :
     /\ p[1] # p[2] /\ p[1].lane = p[2].lane /\ VerticallyClose(p[1], p[2], 8)
     /\ Apart(x[p[1].col], x[p[2].col]) < (p[1].w + p[2].w) \div 2 + 8}
BlockedPins(d) ==
  LET x == RankCenters(d) IN
  {e \in Range(d.edges) : \E pin \in DOMAIN e.x \cap {"via", "channelX"} :
     \/ d.version = 2 /\ e.x[pin] < 0
     \/ \E n \in Range(NodeMap(d)) : /\ n.id \notin {e.from, e.to}
                                     /\ Apart(x[n.col], e.x[pin]) < n.w \div 2 + 8}

(* The least canvas, whatever the authored one.                            *)
RequiredBox(d) ==
  LET l == LaidOut(d)  x == RankCenters(d)  last == Len(d.lanes)
      pins == UNION {{e.x[pin] + 16 : pin \in DOMAIN e.x \ {"channelY"}} : e \in Range(d.edges)}
  IN <<Max(pins \cup {RequiredWidth(l, x, 20)}),
       LaneTop(l, last, x, 20) + LaneHeight(l, last, x) + 124>>
TooSmall(box, least) == box # << >> /\ (box[1] < least[1] \/ box[2] < least[2])

CompileDiagnostics(d) ==
  LET semantic == {p.code : p \in SemanticDiagnostics(d)}
      structure == {p.code : p \in Problems(d)}
  IN CASE semantic # {} -> semantic
       [] d.version = 1 /\ ShortEdges(d) # {} -> {"column-capacity"}
       [] structure # {} -> structure
       [] Clashes(d) # {} -> {"nodes-apart"}
       [] BlockedPins(d) # {} -> {"pins"}
       [] d.version = 2 /\ TooSmall(d.box, RequiredBox(d)) -> {"viewbox-capacity"}
       [] OTHER -> {}
Compiles(d) == CompileDiagnostics(d) = {}

SchemaOk(d) == d.version \in {1, 2} /\ Len(d.path) # 1

-----------------------------------------------------------------------------
(* The ranks of the new layout are planned on a projection: the document   *)
(* without its canvas or, where its pins stand in the way at the new       *)
(* ranks, without the routes that have any.                                *)
Intrinsic(d) == [d EXCEPT !.version = 2, !.box = << >>]

Routed(e) == e.route = "other" \/ DOMAIN e.x \cap {"via", "channelX", "channelY"} # {}
Automatic(e) ==
  [e EXCEPT !.x = << >>, !.fromSide = "none", !.toSide = "none",
            !.label = IF "labelAt" \in DOMAIN e.x THEN 0 ELSE @]

(* Mutant: the main path is kept, whatever became of its edges.            *)
PathAsWritten(path, edges) == path

ProjectedPath(path, edges) ==
  IF \E i \in 1..(Len(path) - 1) : \A k \in DOMAIN edges :
       <<edges[k].from, edges[k].to>> # <<path[i], path[i + 1]>>
  THEN << >> ELSE path
Planning(d) ==
  LET free == SelectSeq(Intrinsic(d).edges, LAMBDA e : ~Routed(e))
      edges == [i \in DOMAIN free |-> Automatic(free[i])]
  IN [Intrinsic(d) EXCEPT !.edges = edges, !.path = ProjectedPath(@, edges)]

NoPlan == << >>
Plan(d) ==
  IF Compiles(Intrinsic(d)) THEN RankCenters(Intrinsic(d))
  ELSE IF Compiles(Planning(d)) THEN RankCenters(Planning(d))
  ELSE NoPlan

-----------------------------------------------------------------------------
(* createHorizontalRankMapper: linear between two ranks, and beyond the    *)
(* first and the last one as between the two nearest to them.              *)
Increasing(x) == \A c \in 1..5 : x[c - 1] < x[c]
Segment(old, p) ==
  IF p <= old[0] THEN 0
  ELSE IF p > old[5] THEN 4
  ELSE CHOOSE c \in 0..4 : old[c] < p /\ p <= old[c + 1]
MappedX(old, new, p) ==
  LET c == Segment(old, p) IN
  new[c] + ((p - old[c]) * (new[c + 1] - new[c])) \div (old[c + 1] - old[c])

MappedCandidate(d, old, new) ==
  [d EXCEPT !.version = 2,
     !.edges = [i \in DOMAIN @ |-> [@[i] EXCEPT !.x =
        [pin \in DOMAIN @ |-> IF pin = "channelY" THEN @[pin] ELSE MappedX(old, new, @[pin])]]]]

Grown(box, least) == <<Max({box[1], least[1]}), Max({box[2], least[2]})>>
(* The canvas grows once, if nothing but the canvas is in the way.         *)
Expanded(d) ==
  IF d.box # << >> /\ CompileDiagnostics(d) = {"viewbox-capacity"}
  THEN [d EXCEPT !.box = Grown(@, RequiredBox(d))] ELSE d

-----------------------------------------------------------------------------
(* migrateWorkflowDocument.  The fixed ranks are those of a document with  *)
(* one small node in the lanes of this one.                                *)
LegacyProbe(d) ==
  [d EXCEPT !.version = 1, !.box = << >>, !.edges = << >>, !.phases = << >>, !.groups = << >>,
     !.path = << >>, !.checks = [roots |-> {}, terminals |-> {}, edges |-> {}, paths |-> {}],
     !.nodes = <<[id |-> 0, lane |-> d.lanes[1].id, col |-> 0, w |-> 88, h |-> 40,
                  dy |-> 0, text |-> 36]>>]

Refused == [ok |-> FALSE]
Migrated(d) == [ok |-> TRUE, document |-> d]

MigratedFrom1(d) ==
  LET candidate == Expanded(MappedCandidate(d, RankCenters(LegacyProbe(d)), Plan(d))) IN
  IF \/ ~Compiles(LegacyProbe(d)) \/ Plan(d) = NoPlan
     \/ ~Increasing(Plan(d)) \/ ~Compiles(candidate) \/ ~SchemaOk(candidate)
  THEN Refused ELSE Migrated(candidate)

Migrate(d) ==
  CASE ~SchemaOk(d) -> Refused
    [] d.version = 2 -> IF Compiles(d) THEN Migrated(d) ELSE Refused
    [] d.version = 1 -> MigratedFrom1(d)

-----------------------------------------------------------------------------
(* The advice for a short edge (enforceLegacyColumnCapacity), each piece   *)
(* of it tried out before it is given.                                     *)
ReadableMigrationProvidesCapacity(d, i) ==
  LET candidate == MappedCandidate(d, [c \in Cols |-> LegacyColumnCenters[c + 1]], Plan(d)) IN
  /\ Clearance([d EXCEPT !.version = 2], d.edges[i]) >= RequiredClearance(d, d.edges[i])
  /\ Plan(d) # NoPlan
  /\ Compiles(Expanded(candidate))

WithNode(d, id, n) ==
  [d EXCEPT !.nodes = [k \in DOMAIN @ |-> IF @[k].id = id THEN n ELSE @[k]]]

NodeMoved(d, i, col) ==
  WithNode(d, d.edges[i].to, [NodeOf(d, d.edges[i].to) EXCEPT !.col = col])
FreeColumn(d, i, col) ==
  LET e == d.edges[i]  to == NodeOf(d, e.to)  from == NodeOf(d, e.from)  x == RankCenters(d) IN
  /\ col # to.col
  /\ \A n \in Range(NodeMap(d)) : n.id # to.id /\ n.lane = to.lane =>
       ~(VerticallyClose(n, to, 8) /\ Apart(x[n.col], x[col]) < (n.w + to.w) \div 2 + 8)
  /\ Apart(x[col], x[from.col]) - (from.w + to.w) \div 2 >= RequiredClearance(d, e)
  /\ Compiles(NodeMoved(d, i, col))
(* The free column that is nearest, the left one of two.                   *)
VerifiedAlternatives(d, i) ==
  LET col == NodeOf(d, d.edges[i].to).col
      free == {c \in Cols : FreeColumn(d, i, c)} IN
  {c \in free : \A b \in free :
     Apart(c, col) < Apart(b, col) \/ (Apart(c, col) = Apart(b, col) /\ c <= b)}

Narrowed(d, i, widths) ==
  LET e == d.edges[i]
      first == WithNode(d, e.from, [NodeOf(d, e.from) EXCEPT !.w = widths[1]])
  IN WithNode(first, e.to, [NodeOf(d, e.to) EXCEPT !.w = widths[2]])
(* The wider one gives way first, neither gets narrower than 32.           *)
ReducedWidths(d, i) ==
  LET e == d.edges[i]
      from == NodeOf(d, e.from)  to == NodeOf(d, e.to)  x == RankCenters(d)
      budget == 2 * (Apart(x[from.col], x[to.col]) - RequiredClearance(d, e))
      excess == from.w + to.w - budget
      wide == Max({from.w, to.w})  other == from.w + to.w - wide
      least == Min({excess, wide - 32})
      pair == <<wide - least, other - Min({excess - least, other - 32})>>
  IN IF from.w >= to.w THEN pair ELSE Reverse(pair)
VerifiedReducedWidths(d, i) ==
  LET e == d.edges[i]  widths == ReducedWidths(d, i) IN
  {widths : k \in {j \in {i} :
     /\ Clearance(Narrowed(d, i, widths), e) >= RequiredClearance(d, e)
     /\ NodeOf(d, e.from).text <= widths[1] + 6 /\ NodeOf(d, e.to).text <= widths[2] + 6
     /\ Compiles(Narrowed(d, i, widths))}}

-----------------------------------------------------------------------------
(* A document that is migrated compiles as it stands, so that migrating it *)
(* again changes nothing; nothing but its version, its canvas, which never *)
(* shrinks, and the X coordinates of its pins is another, and pins stay in *)
(* their order from left to right.                                         *)
WithoutPins(d) ==
  [d EXCEPT !.version = 0, !.box = << >>,
            !.edges = [i \in DOMAIN @ |-> [@[i] EXCEPT !.x = DOMAIN @]]]
PinsOf(d) ==
  UNION {{<<i, pin>> : pin \in DOMAIN d.edges[i].x \ {"channelY"}} : i \in DOMAIN d.edges}
PinAt(d, p) == d.edges[p[1]].x[p[2]]

MigrationFaithful(d) ==
  Migrate(d).ok =>
    LET new == Migrate(d).document IN
    /\ new.version = 2 /\ Migrate(new) = Migrated(new)
    /\ WithoutPins(new) = WithoutPins(d)
    /\ Len(new.box) = Len(d.box) /\ \A k \in DOMAIN d.box : new.box[k] >= d.box[k]
    /\ \A p, q \in PinsOf(d) : PinAt(d, p) <= PinAt(d, q) => PinAt(new, p) <= PinAt(new, q)

(* A pin at a fixed rank is at the same rank of the migrated layout: the   *)
(* plan has the ranks of the document that comes of it.  Where sides were  *)
(* authored the projection without them may be laid out by other ranks.    *)
SidesLeftOpen(d) ==
  \A i \in DOMAIN d.edges : d.edges[i].fromSide = "none" /\ d.edges[i].toSide = "none"
PinsKeepTheirRanks(d) ==
  (d.version = 1 /\ Migrate(d).ok /\ (Compiles(Intrinsic(d)) \/ SidesLeftOpen(d))) =>
    LET new == Migrate(d).document IN
    \A p \in PinsOf(d), c \in Cols :
      PinAt(d, p) = LegacyColumnCenters[c + 1] => PinAt(new, p) = RankCenters(new)[c]

(* The compiler advises to migrate only what migrates, and where a move of *)
(* the target alone would do it names the nearest one; widths, when it     *)
(* names any, are no narrower than they have to be.                        *)
AdviceKept(d) ==
  (d.version = 1 /\ SchemaOk(d) /\ SemanticDiagnostics(d) = {}) =>
    \A i \in ShortEdges(d) :
      /\ ReadableMigrationProvidesCapacity(d, i) => Migrate(d).ok
      /\ \A c \in Cols : Compiles(NodeMoved(d, i, c)) =>
           \E a \in VerifiedAlternatives(d, i) :
             Apart(a, NodeOf(d, d.edges[i].to).col) <= Apart(c, NodeOf(d, d.edges[i].to).col)
      /\ \A widths \in VerifiedReducedWidths(d, i) :
           /\ \A k \in 1..2 : widths[k] >= 32
           /\ Clearance(Narrowed(d, i, widths), d.edges[i]) = RequiredClearance(d, d.edges[i])

(* What the projection leaves out is no reason to refuse the document: its *)
(* main path survives or goes.                                             *)
ProjectionKeepsThePath(d) == PathProblems(d) = {} => PathProblems(Planning(d)) = {}

(* The same of the author's semantic contract, which the comment over the  *)
(* second plan promises to leave to the mapped document.                   *)
ProjectionKeepsTheContract(d) ==
  SemanticDiagnostics(d) = {} => SemanticDiagnostics(Planning(d)) = {}

MigrationSound(d) ==
  /\ MigrationFaithful(d) /\ PinsKeepTheirRanks(d)
  /\ AdviceKept(d) /\ ProjectionKeepsThePath(d)
=============================================================================
