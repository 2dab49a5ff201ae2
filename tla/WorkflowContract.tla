-------------------------- MODULE WorkflowContract --------------------------
(***************************************************************************)
(* What a workflow document has to be before it is laid out                *)
(* (renderers/workflow/workflow-compiler.mjs): the canonical order that    *)
(* the readable contract puts it in, the author's own semantic contract,   *)
(* the structure that validateWorkflow demands, and the steps in which the *)
(* drawing is animated.                                                    *)
(*                                                                         *)
(* A document is [lanes, nodes, edges, phases, groups, path, checks], all  *)
(* but checks sequences in the order of the author.  Ids are numbers, 0    *)
(* the missing id of an edge; an edge's tag stands for everything in it    *)
(* that its id and ends do not tell.  checks is [roots, terminals, edges,  *)
(* paths]; roots and terminals hold the one list that the author gave, if  *)
(* any, edges and paths are sets of <<from, to>>.                          *)
(***************************************************************************)
EXTENDS Integers, Sequences, FiniteSets, SequencesExt, TLC

Ranks == 0..5
IdsOf(s) == {s[i].id : i \in DOMAIN s}

-----------------------------------------------------------------------------
(* canonicalReadableWorkflow: keys are compared one after the other.       *)
Before(k, l) ==
  \E i \in DOMAIN k : k[i] < l[i] /\ \A j \in 1..(i - 1) : k[j] = l[j]

LaneOrder(w, lane) ==
  IF lane \in IdsOf(w.lanes)
  THEN CHOOSE i \in DOMAIN w.lanes : w.lanes[i].id = lane ELSE 1000
NodeKey(w, n) == <<LaneOrder(w, n.lane), n.col, n.id>>
EdgeKey(e) == <<e.id, e.from, e.to, e.tag>>
PhaseKey(p) == <<p.from, p.to, p.id>>
GroupKey(w, g) == <<LaneOrder(w, g.lane), g.from, g.to, g.id>>

Canonical(w) ==
  [w EXCEPT !.nodes = SortSeq(@, LAMBDA m, n : Before(NodeKey(w, m), NodeKey(w, n))),
            !.edges = SortSeq(@, LAMBDA e, f : Before(EdgeKey(e), EdgeKey(f))),
            !.phases = SortSeq(@, LAMBDA p, q : Before(PhaseKey(p), PhaseKey(q))),
            !.groups = SortSeq(@, LAMBDA g, h : Before(GroupKey(w, g), GroupKey(w, h)))]

-----------------------------------------------------------------------------
(* The steps of the animation: the main path first, in its order, then the *)
(* rest in the order of the document.                                      *)
PathStep(w, id) ==   \* of the last occurrence; steps count from 0
  (CHOOSE i \in DOMAIN w.path :
     w.path[i] = id /\ \A j \in DOMAIN w.path : j > i => w.path[j] # id) - 1
OnPath(w, id) == id \in Range(w.path)

EdgeStep(w, i) ==
  LET e == w.edges[i] IN
  IF /\ OnPath(w, e.from) /\ OnPath(w, e.to)
     /\ PathStep(w, e.to) = PathStep(w, e.from) + 1
  THEN PathStep(w, e.from) ELSE Len(w.path) + i - 1
NodeStep(w, i) ==
  IF OnPath(w, w.nodes[i].id) THEN PathStep(w, w.nodes[i].id) ELSE Len(w.path) + i - 1

-----------------------------------------------------------------------------
(* semanticContractDiagnostics.  Unknown references are reported alone.    *)
Relations(w) ==
  {<<w.edges[i].from, w.edges[i].to>> : i \in DOMAIN w.edges}
    \cap (IdsOf(w.nodes) \X IdsOf(w.nodes))

Referenced(c) ==
  UNION c.roots \cup UNION c.terminals
    \cup {r[1] : r \in c.edges \cup c.paths} \cup {r[2] : r \in c.edges \cup c.paths}

(* Mutant: the search never leaves the first node.                         *)
ReachNext(w, from) == {from} \cup {r[2] : r \in {s \in Relations(w) : s[1] = from}}

(* The nodes that a search from one of them has met when its queue, which  *)
(* starts with the node itself, has run empty.                             *)
Reach(w, from) ==
  LET met[k \in 0..Len(w.nodes)] ==
        IF k = 0 THEN {from}
        ELSE met[k - 1] \cup {r[2] : r \in {s \in Relations(w) : s[1] \in met[k - 1]}}
  IN met[Len(w.nodes)]

Diagnosed(code, S) == {[code |-> code, subject |-> s] : s \in S}

SemanticDiagnostics(w) ==
  LET c == w.checks
      ids == IdsOf(w.nodes)
      unknown == Referenced(c) \ ids
  IN IF unknown # {} THEN Diagnosed("node-reference", unknown)
     ELSE UNION {Diagnosed("unexpected-root",
                   (ids \ {r[2] : r \in Relations(w)}) \ allowed) : allowed \in c.roots}
          \cup UNION {Diagnosed("unexpected-terminal",
                   (ids \ {r[1] : r \in Relations(w)}) \ allowed) : allowed \in c.terminals}
          \cup Diagnosed("required-edge",
                   {r \in c.edges : \A i \in DOMAIN w.edges :
                      <<w.edges[i].from, w.edges[i].to>> # r})
          \cup Diagnosed("required-path", {r \in c.paths : r[2] \notin Reach(w, r[1])})

-----------------------------------------------------------------------------
(* validateWorkflow, what it asks of the document itself.                  *)
Repeated(s) == Cardinality(IdsOf(s)) # Len(s)
DuplicateIds(w) ==
  Diagnosed("duplicate-ids",
    {part \in {"lanes", "nodes", "phases", "groups"} : Repeated(w[part])})

(* Nodes are kept by id: of two with one id the later one stands.          *)
NodeMap(w) ==
  [id \in IdsOf(w.nodes) |->
     w.nodes[CHOOSE i \in DOMAIN w.nodes :
               w.nodes[i].id = id /\ \A j \in DOMAIN w.nodes : w.nodes[j].id = id => j <= i]]

NodeProblems(w) ==
  LET nodes == NodeMap(w)
      stray == {id \in DOMAIN nodes : nodes[id].lane \notin IdsOf(w.lanes)} IN
  Diagnosed("unknown-lane", stray)
    \cup Diagnosed("column", {id \in DOMAIN nodes \ stray : nodes[id].col \notin Ranks})

InRange(s) == s.from >= 0 /\ s.to \in Ranks /\ s.from <= s.to

PhaseRanges(w) ==
  SortSeq(SelectSeq(w.phases, InRange), LAMBDA p, q : Before(<<p.from, p.to>>, <<q.from, q.to>>))
(* A sweep from the left: the later ranges, up to the first that starts    *)
(* behind the end of this one.                                             *)
SweepsInto(s, i, j) ==
  /\ i < j
  /\ \A k \in (i + 1)..j : s[k].from <= s[i].to
PhaseProblems(w) ==
  LET s == PhaseRanges(w) IN
  Diagnosed("phase-columns",
            {w.phases[i].id : i \in {j \in DOMAIN w.phases : ~InRange(w.phases[j])}})
    \cup Diagnosed("phase-overlap",
           {{s[p[1]].id, s[p[2]].id} :
              p \in {q \in (DOMAIN s) \X (DOMAIN s) : SweepsInto(s, q[1], q[2])}})

GroupProblems(w) ==
  LET nodes == NodeMap(w)
      groups == Range(w.groups)
      stray == {g \in groups : g.lane \notin IdsOf(w.lanes)}
      Framing(g) == \E id \in DOMAIN nodes :
        nodes[id].lane = g.lane /\ nodes[id].col \in g.from..g.to IN
  Diagnosed("group-lane", stray)
    \cup Diagnosed("group-columns", {g \in groups \ stray : ~InRange(g)})
    \cup Diagnosed("group-empty", {g \in groups \ stray : ~Framing(g)})

EdgeProblems(w) ==
  Diagnosed("unknown-end",
    {i \in DOMAIN w.edges : ~({w.edges[i].from, w.edges[i].to} \subseteq IdsOf(w.nodes))})

PathProblems(w) ==
  LET nodes == NodeMap(w)
      steps == {i \in 1..(Len(w.path) - 1) : {w.path[i], w.path[i + 1]} \subseteq DOMAIN nodes}
  IN
  Diagnosed("path-node", Range(w.path) \ DOMAIN nodes)
    \cup Diagnosed("path-edge",
           {i \in steps : <<w.path[i], w.path[i + 1]>> \notin Relations(w)})
    \cup Diagnosed("path-backward",
           {i \in steps : nodes[w.path[i + 1]].col < nodes[w.path[i]].col})

Problems(w) ==
  DuplicateIds(w) \cup NodeProblems(w) \cup PhaseProblems(w) \cup GroupProblems(w)
    \cup EdgeProblems(w) \cup PathProblems(w)

-----------------------------------------------------------------------------
(* The author's contract is judged as it reads: a path is required means a *)
(* walk along the edges, and a root is a node that no edge enters.         *)
IsWalk(w, s) == \A i \in 1..(Len(s) - 1) : <<s[i], s[i + 1]>> \in Relations(w)
Walks(w, r) ==
  {s \in UNION {[1..n -> IdsOf(w.nodes)] : n \in 1..Len(w.nodes)} :
     s[1] = r[1] /\ s[Len(s)] = r[2] /\ IsWalk(w, s)}

ContractJudged(w) ==
  Referenced(w.checks) \subseteq IdsOf(w.nodes) =>
    {d.subject : d \in {x \in SemanticDiagnostics(w) : x.code = "required-path"}}
      = {r \in w.checks.paths : Walks(w, r) = {}}

(* The sweep, which stops early, misses no two phases that share a column, *)
(* whatever order they are written in, and reports no others.              *)
OverlapsReported(w) ==
  ~Repeated(w.phases) =>
    {d.subject : d \in {x \in PhaseProblems(w) : x.code = "phase-overlap"}}
      = {{w.phases[p[1]].id, w.phases[p[2]].id} :
           p \in {q \in (DOMAIN w.phases) \X (DOMAIN w.phases) :
                    LET a == w.phases[q[1]]  b == w.phases[q[2]] IN
                    /\ q[1] # q[2] /\ InRange(a) /\ InRange(b)
                    /\ (a.from..a.to) \cap (b.from..b.to) # {}}}

(* The drawing of a version 2 document does not depend on the order in     *)
(* which its parts are written, nor does the number of any step.           *)
Rewritten(w) == [w EXCEPT !.nodes = Reverse(@), !.edges = Reverse(@),
                          !.phases = Reverse(@), !.groups = Reverse(@)]
OrderIsCanonical(w) == Canonical(Rewritten(w)) = Canonical(w)

(* In a document without problems the main path, if it meets no node       *)
(* twice, is animated first and in order: its edges have the steps of      *)
(* their sources, and no other edge or node shares a step with them.       *)
PathLeads(w) ==
  (Problems(w) = {} /\ Cardinality(Range(w.path)) = Len(w.path)) =>
    /\ \A k \in 1..(Len(w.path) - 1) : \E i \in DOMAIN w.edges :
         /\ <<w.edges[i].from, w.edges[i].to>> = <<w.path[k], w.path[k + 1]>>
         /\ EdgeStep(w, i) = k - 1
    /\ \A i \in DOMAIN w.edges :
         EdgeStep(w, i) < Len(w.path) =>
           <<w.path[EdgeStep(w, i) + 1], w.path[EdgeStep(w, i) + 2]>>
             = <<w.edges[i].from, w.edges[i].to>>
    /\ \A i, j \in DOMAIN w.nodes : i # j => NodeStep(w, i) # NodeStep(w, j)

ContractSound(w) ==
  /\ ContractJudged(w) /\ OverlapsReported(w) /\ OrderIsCanonical(w)
  /\ PathLeads(w) /\ PathLeads(Canonical(w))
=============================================================================
