----------------------------- MODULE MCArchify -----------------------------
(* Small instances of the processes, and the inputs on which the           *)
(* computations of the tool are judged.                                    *)
EXTENDS Archify

(* One check and one acknowledgement, three generations.                   *)
CONSTANT c1
MCEventOf == [a \in Acks |-> "d1"]
MCNowOf == [c \in Checks |-> 0]

(* Two sources that can be delivered, one that cannot.                     *)
MCArtifactOf == ("a" :> "x") @@ ("b" :> "y")

(* Two deliveries to one page, one beside a comparison, a migration.       *)
MCKindOf == [d1 |-> "deliver", d2 |-> "deliver", cmp |-> "compare",
             mig |-> "migrate", val |-> "validate"]
MCInputsOf == [d1 |-> <<"x">>, d2 |-> <<"x">>, cmp |-> <<"x", "y">>,
               mig |-> <<"x">>, val |-> <<"x">>]
MCTargetsOf == [d1 |-> <<"page">>, d2 |-> <<"page">>, cmp |-> <<"page", "receipt">>,
                mig |-> <<"new">>, val |-> <<>>]
MCTeams == {{"d1", "d2"}, {"cmp"}, {"cmp", "d1"}, {"mig"}, {"val"}}

MCViews == <<[theme |-> "light", captured |-> TRUE],
             [theme |-> "light", captured |-> FALSE],
             [theme |-> "dark", captured |-> TRUE]>>

(* Output paths: a working directory with a page, an input, a link to a    *)
(* directory, and another directory, with and without case.                *)
MCFold == [n \in {"w", "o", "d", "a.html", "a.json", "A.html", "A.json"} |->
             CASE n = "A.html" -> "a.html" [] n = "A.json" -> "a.json" [] OTHER -> n]
MCExtension == [n \in DOMAIN MCFold |-> CASE n \in {"a.html", "A.html"} -> "html"
                                          [] n \in {"a.json", "A.json"} -> "json"
                                          [] OTHER -> ""]
FileOf(i) == [kind |-> "file", name |-> "", ino |-> i, to |-> <<>>]
LinkTo(p) == [kind |-> "link", name |-> "", ino |-> 80, to |-> p]
DirOf(i) == [kind |-> "directory", name |-> "", ino |-> i, to |-> <<>>]
DiskWith(p, in, d, o) ==
  LET all == (<<>> :> DirOf(1)) @@ (<<"w">> :> DirOf(2)) @@ (<<"o">> :> DirOf(3))
               @@ (<<"w", "a.html">> :> p) @@ (<<"w", "a.json">> :> in)
               @@ (<<"w", "d">> :> d) @@ (<<"o", "a.html">> :> o)
  IN [k \in {k \in DOMAIN all : all[k].kind # "none"} |->
        IF k = <<>> THEN all[k] ELSE [all[k] EXCEPT !.name = Path!LastName(k)]]
Disks ==
  {[at |-> DiskWith(p, in, d, o), folds |-> f, silent |-> s] :
     p \in {Path!Nowhere, FileOf(10), LinkTo(<<"w", "a.json">>), LinkTo(<<"o", "a.html">>)},
     in \in {Path!Nowhere, FileOf(10)},
     d \in {LinkTo(<<"w">>), LinkTo(<<"w", "d">>), LinkTo(<<"o">>)},
     o \in {Path!Nowhere, FileOf(10), LinkTo(<<"w", "a.json">>)},
     f \in {{}, {"w"}}, s \in BOOLEAN}
Asked == [output : {<<"w", "a.html">>, <<"w", "A.json">>, <<"w", "d", "a.html">>, <<"o", "a.html">>},
          source : {"cli", "meta"}, absolute : {FALSE}, cwd : {<<"w">>},
          inputs : {{<<"w", "a.json">>}, {<<"w", "d", "a.json">>}},
          others : {{<<"w", "a.html">>}, {<<"w", "d", "A.html">>}}, extension : {"html"}]

(* Routes of four points on a grid, and rings that are left or run on,     *)
(* against three others and two frames; three relations between three      *)
(* boxes; bridges to either side.                                          *)
Grid == (0..3) \X (0..3)
AlongAxes(r) == \A i \in 1..(Len(r) - 1) : (r[i][1] = r[i + 1][1]) # (r[i][2] = r[i + 1][2])
NoReversal(r) ==
  \A i \in 1..(Len(r) - 2) : ~ (/\ Picture!CrossProduct(r[i], r[i + 1], r[i + 2]) = 0
                                /\ Picture!DotProduct(r[i], r[i + 1], r[i + 2]) < 0)
Routes == {r \in {<<a, b, c, d>> : a \in {<<0, 0>>, <<1, 2>>, <<2, 1>>}, b \in Grid, c \in Grid,
                                   d \in {p \in Grid : p[1] + p[2] <= 4}} :
             AlongAxes(r) /\ NoReversal(r)}
Rings == {<< <<i, 0>>, <<3, 0>>, <<3, 2>>, <<0, 2>>, <<0, 0>>, <<k, 0>> >> : i \in 0..2, k \in 1..3}
RouteOf(from, to, points) == [from |-> from, to |-> to, points |-> points]
RouteSamples ==
  [l : {RouteOf("a", "b", r) : r \in {<< <<0, 1>>, <<3, 1>> >>, << <<0, 1>>, <<1, 1>>, <<2, 1>>, <<3, 1>> >>,
        << <<1, 0>>, <<1, 2>>, <<3, 2>>, <<3, 3>> >>}},
   r : {RouteOf("c", "d", r) : r \in Routes \cup Rings},
   f : {[x |-> 0, y |-> 0, w |-> 3, h |-> 2, radius |-> 0],
        [x |-> -1, y |-> 1, w |-> 4, h |-> 3, radius |-> 1]}]
BoxAt(id, x, y, w, h) ==
  [id |-> id, x |-> x, y |-> y, w |-> w, h |-> h, cx |-> x + w \div 2, cy |-> y + h \div 2]
BoxSets == {[a |-> BoxAt("a", 0, y, 80, h), b |-> BoxAt("b", 200, 0, 80, 60),
             c |-> BoxAt("c", x, 200, 80, 60)] : y \in {0, 200}, h \in {32, 60}, x \in {-100, 200}}
Relation(f, t, side, k) == [from |-> f, to |-> t, fromSide |-> side, toSide |-> "auto",
                            route |-> "auto", via |-> FALSE, rank |-> k]
RelationSet == {Relation(p[1], p[2], side, k) :
                  p \in {<<"a", "b">>, <<"b", "a">>, <<"c", "a">>, <<"c", "b">>},
                  side \in {"auto", "right"}, k \in {1, 2}}
PortSamples == [bx : BoxSets, rs : {<<p, q, r>> : p \in RelationSet, q \in RelationSet,
                                     r \in {r \in RelationSet : r.fromSide = "auto" /\ r.rank = 1}}]
BridgeSamples == [e : (-20..20) \X {-60, -17, -16, -15, 0, 8, 16, 24, 60},
                  side : DOMAIN Picture!Outward]

(* Timelines of three messages and a segment.                              *)
MessageOf(p, y, t) == [from |-> p[1], to |-> p[2], y |-> y, text |-> t]
MessageSet == {MessageOf(p, y, t) : p \in {<<"a", "b">>, <<"c", "a">>, <<"b", "c">>},
                                   y \in {160, 176, 230}, t \in {20, 130}}
TimelineSamples ==
  [width : {720, 400}, height : {400}, spread : BOOLEAN, participants : {<<"a", "b", "c">>},
   messages : {<<m, n, MessageOf(<<"b", "c">>, y, 20)>> : m \in MessageSet, n \in MessageSet,
                                                          y \in {188, 216}},
   segments : {<<[from |-> f, to |-> 320, text |-> 60]>> : f \in {150, 212, 250}}]

(* Architectures that differ in a component, in a connection and a         *)
(* boundary, or in the document.                                           *)
MCLowerCase == ("U" :> "u") @@ ("u" :> "u") @@ ("v" :> "v") @@ ("R" :> "r") @@ ("r" :> "r") @@ ("s" :> "s")
MCIdentity == ("u" :> 1) @@ ("v" :> 2)
ComponentOf(id, s, e, g, b) ==
  [id |-> id, label |-> "", semantic |-> s, evidence |-> e, geometry |-> g, brand |-> b]
Kept == ComponentOf("c0", 1, 1, 1, "")
ComponentSets ==
  {{Kept}, {[Kept EXCEPT !.id = "c9"]}, {[Kept EXCEPT !.id = ""]}, {Kept, [Kept EXCEPT !.semantic = 2]}}
  \cup {{Kept, ComponentOf("c1", s, e, g, "x")} : s \in 1..2, e \in 1..2, g \in 1..2}
ConnectionSets ==
  {{}} \cup {{[id |-> "e1", label |-> l, topology |-> t, semantic |-> l, geometry |-> g]} :
               t \in 1..2, l \in {"", "m", "n"}, g \in 1..2}
BoundaryOf(s, g) == [id |-> "b1", label |-> "L", scope |-> s, geometry |-> g]
BoundarySets == {{}, {BoundaryOf(1, 1), BoundaryOf(2, 1)}, {BoundaryOf(1, 1)}, {BoundaryOf(2, 1)},
                 {BoundaryOf(1, 2)}}
Repositories == {Delta!NoRepository} \cup [url : {"U", "u", "v"}, revision : {"R", "r", "s"}, link : {"l"}]
Plain == [type |-> "architecture", components |-> {Kept}, connections |-> {}, boundaries |-> {},
          presentation |-> 1, locale |-> "en", output |-> "o", repository |-> Delta!NoRepository]
Pairs(S) == S \X S
DeltaSamples ==
  Pairs({[Plain EXCEPT !.components = c] : c \in ComponentSets})
  \cup Pairs({[Plain EXCEPT !.connections = c, !.boundaries = b] : c \in ConnectionSets, b \in BoundarySets})
  \cup Pairs({[Plain EXCEPT !.presentation = p, !.locale = l, !.repository = r] :
                p \in 1..2, l \in {"en", "zh"}, r \in Repositories})
(* They are documents as the theorem about comparisons takes them.         *)
ASSUME SampledDocuments ==
  \A s \in DeltaSamples : Delta!Authored(s[1]) /\ Delta!Authored(s[2]) /\ Delta!LabelsInGroups(s[1], s[2])

(* Versions whose identifiers differ in length, in kind and in value.      *)
Prereleases == {<<>>, << <<0>> >>, << <<10>> >>, << <<10>>, <<2>> >>, << <<10>>, <<1, 0>> >>,
                << <<2, 10>> >>, << <<1, 0>> >>}
VersionSamples ==
  [1..3 -> [core : {<< <<1>>, <<1, 1>>, <<0>> >>, << <<1>>, <<2>>, <<0>> >>}, prerelease : Prereleases]]
ASSUME SampledVersions == \A s \in VersionSamples : {s[1], s[2], s[3]} \subseteq Releases!ReleaseVersions

(* Workflows: two nodes in two lanes with an edge, a phase or a group, and *)
(* the widths that a search asks for.                                      *)
NodeAt(id, lane, col, w, h, dy) == [id |-> id, lane |-> lane, col |-> col, w |-> w, h |-> h, dy |-> dy]
TwoNodes == {{NodeAt(1, 1, c, w, 80, 0), NodeAt(2, l, k, v, 52, y)} :
               c \in {0, 1, 3}, w \in {32, 260}, l \in {1, 2}, k \in {0, 2, 5}, v \in {92, 220}, y \in {0, 60}}
Edges == {{}} \cup
  {{[from |-> 1, to |-> 2, label |-> n, pins |-> {}, route |-> "auto", fromSide |-> s, toSide |-> "none"]} :
     n \in {0, 40, 200}, s \in {"none", "top"}}
Frames == {<<{}, {}>>,
  <<{[from |-> 0, to |-> 2, text |-> 60]}, {[lane |-> 1, from |-> 0, to |-> 1, text |-> 40]}>>,
  <<{[from |-> 2, to |-> 5, text |-> 420]}, {[lane |-> 1, from |-> 0, to |-> 3, text |-> 300]}>>,
  <<{[from |-> 0, to |-> 0, text |-> 200]}, {[lane |-> 1, from |-> 1, to |-> 1, text |-> 300]}>>}
Need(kind, from, to, least) == [kind |-> kind, from |-> from, to |-> to, least |-> least]
Needs == {<<>>, <<Need("rank", 0, 1, 400), Need("rank", 0, 1, 300), Need("lane", 0, 1, 60)>>,
          <<Need("lane", 0, 0, 30), Need("rank", 1, 3, 300), Need("rank", 0, 1, 300), Need("rank", 0, 1, 500)>>}
LayoutOf(nodes, edges, frames, header) ==
  [lanes |-> <<[header |-> header], [header |-> 60]>>, nodes |-> nodes, edges |-> edges,
   phases |-> frames[1], groups |-> frames[2]]
LayoutSamples ==
  [d : {LayoutOf(n, e, <<{}, {}>>, h) : n \in TwoNodes, e \in Edges, h \in {60, 300}}
         \cup {LayoutOf(n, {}, f, 60) : n \in TwoNodes, f \in Frames}, requests : Needs]

(* Workflows as authored: three nodes, up to three edges, three phases.    *)
StepAt(id, lane, col) == [id |-> id, lane |-> lane, col |-> col]
Hop(e) == [id |-> 0, from |-> e[1], to |-> e[2], tag |-> e[3]]
PhaseOf(i, p) == [id |-> i, from |-> p[1], to |-> p[2]]
ContractSamples ==
  [lanes : {<<[id |-> 1], [id |-> 2]>>},
   nodes : {<<StepAt(1, 1, c), StepAt(2, 1, k), StepAt(3, l, 1)>> : c \in {0, 2}, k \in {1, 2}, l \in {1, 2}},
   edges : {<<>>} \cup {<<Hop(e), Hop(f), Hop(g)>> : e \in {<<1, 2, 1>>, <<3, 1, 1>>},
              f \in {<<2, 3, 1>>, <<1, 2, 2>>, <<2, 1, 1>>}, g \in {<<3, 2, 1>>, <<1, 3, 1>>}},
   phases : {<<PhaseOf(1, p), PhaseOf(2, q), PhaseOf(3, r)>> : p \in {<<0, 4>>, <<3, 3>>},
               q \in {<<1, 1>>, <<2, 5>>}, r \in {<<2, 3>>, <<3, 1>>}},
   groups : {<<>>, <<[id |-> 2, lane |-> 1, from |-> 0, to |-> 1], [id |-> 1, lane |-> 1, from |-> 0, to |-> 1]>>},
   path : {<<>>, <<1, 2, 3>>, <<3, 2>>, <<2, 1, 2>>},
   checks : {[roots |-> R, terminals |-> R, edges |-> E, paths |-> E] :
               R \in {{}, {{1}}}, E \in {{}, {<<1, 3>>, <<3, 1>>}}}]

(* Documents of the first version, with pins inside and outside the ranks. *)
Piece(id, lane, col, w, dy, t) ==
  [id |-> id, lane |-> lane, col |-> col, w |-> w, h |-> 40, dy |-> dy, text |-> t]
Link(a, b, x, label, side, route) ==
  [id |-> 0, from |-> a, to |-> b, tag |-> 0, label |-> label, route |-> route, fromSide |-> side,
   toSide |-> "none", x |-> x]
MigrationSamples ==
  [version : {1}, box : {<<>>, <<720, 300>>}, lanes : {<<[id |-> 1, header |-> 60], [id |-> 2, header |-> 140]>>},
   nodes : {<<Piece(1, 1, 0, w, 0, 60), Piece(2, 1, c, v, y, 40), Piece(3, l, 3, 88, 0, 40)>> :
              w \in {88, 160}, c \in {1, 2}, v \in {60, 140}, y \in {0, 24}, l \in {1, 2}},
   edges : {<<Link(1, 2, <<>>, 60, "none", "auto"), Link(2, 3, <<>>, n, s, "auto"), Link(1, 3, x, 0, "none", "auto")>> :
              n \in {0, 200}, s \in {"none", "top"},
              x \in {<<>>, [via |-> 300], [channelX |-> 470, labelAt |-> 300], [via |-> -20, labelAt |-> 625]}},
   phases : {<<>>}, groups : {<<>>}, path : {<<1, 3>>, <<1, 2, 3>>},
   checks : {[roots |-> {}, terminals |-> {}, edges |-> {}, paths |-> {}]}]

(* What a router meets: which sides and families are feasible, from where  *)
(* on the outer corridor fits, and the edges that fail in four rounds.     *)
Allowed == {{}, {<<"right", "left">>}, Range(Router!SideOrder) \X Range(Router!SideOrder)}
SearchSamples ==
  [from : {"none", "left"}, to : {"none", "left"}, primary : {<<"right", "left">>, <<"left", "top">>},
   feasible : {{}, {<< <<"left", "top">>, 3>>, << <<"bottom", "top">>, 1>>}, {<< <<"right", "right">>, f>> : f \in {2, 5}}},
   weight : {[f \in Router!Families |-> f % 3]},
   fits : {{}, 37..200, {12} \cup 90..200, {5, 6, 7, 20}, 130..200}, right : {4}, start : {4, 9}, growth : {2, 7},
   rank : BOOLEAN, lane : BOOLEAN, blocked : Allowed]
Straight(a, b) == [from |-> a, to |-> b, label |-> 0, pins |-> {"via"}, route |-> "auto",
                   fromSide |-> "none", toSide |-> "none"]
RoundSamples ==
  {LayoutOf({NodeAt(1, 1, 0, w, 40, 0), NodeAt(2, l, 1, v, 40, 0), NodeAt(3, 2, c, v, 40, 0)},
            {Straight(1, 2), Straight(2, 3), Straight(3, 1)}, <<{}, {}>>, 60) :
     w \in {88, 104}, v \in {80, 120, 124}, l \in {1, 2}, c \in {2, 1}}
  \X [1..4 -> {Straight(1, 2), Straight(2, 3), Straight(3, 1)}]

MCSamplesOf ==
  ("output path" :> Disks \X Asked) @@ ("routes" :> RouteSamples) @@ ("ports" :> PortSamples)
  @@ ("bridges" :> BridgeSamples) @@ ("timelines" :> TimelineSamples) @@ ("deltas" :> DeltaSamples)
  @@ ("versions" :> VersionSamples) @@ ("layouts" :> LayoutSamples) @@ ("contracts" :> ContractSamples)
  @@ ("migrations" :> MigrationSamples) @@ ("searches" :> SearchSamples) @@ ("rounds" :> RoundSamples)
=============================================================================
