------------------------- MODULE ComputationsProofs -------------------------
(***************************************************************************)
(* Two computations of the diagram tool, for every input: the comparison   *)
(* of two architectures and the order of versions.                         *)
(***************************************************************************)
EXTENDS ArchitectureDelta, ReleaseOrder, FiniteSetTheorems, WellFoundedInduction, TLAPS

-----------------------------------------------------------------------------
(* The comparison: what it draws.                                          *)
Kinds == {"component", "connection", "boundary"}

(* What a row of a receipt looks like.                                    *)
RowShape(r) ==
  /\ r.kind \in Kinds
  /\ r.classes \subseteq GroupsOf[r.kind]
  /\ \/ /\ r.status = "added" /\ r.classes = {IdentityClass[r.kind]}
     \/ /\ r.status = "removed" /\ r.classes = {IdentityClass[r.kind]}
     \/ r.status = StatusFor(r.classes, r.kind) /\ r.status # "same"

(* The elements that a row of a component is drawn with are those that     *)
(* the check of the page expects of it: the group of the newer picture     *)
(* and, if it has moved, that of the older one.                            *)
LEMMA ComponentsDrawn ==
  ASSUME NEW r, RowShape(r), r.kind = "component"
  PROVE  /\ DrawnElements(r) = ExpectedElements(r)
         /\ {e.state : e \in {e \in DrawnElements(r) : e.tag = "g"}} = PrimaryStates(r)
         /\ \A e \in DrawnElements(r) : e.tag = "g" => e.classes = r.classes
<1>1. r.classes \subseteq {"semantic", "evidence", "geometry"}
  BY DEF RowShape, GroupsOf
<1>2. /\ r.status \in {"added", "removed", "changed", "evidence-changed", "moved"}
      /\ r.status \in {"added", "removed"} => r.classes = {"semantic"}
  BY <1>1 DEF RowShape, StatusFor, IdentityClass
<1> DEFINE Was == IF r.status = "removed" THEN {"removed"}
                  ELSE {r.status} \cup (IF "geometry" \in r.classes THEN {"moved-from"} ELSE {})
<1>3. DrawnElements(r) = {El("g", s, r.classes) : s \in Was}
  BY <1>2 DEF DrawnElements, Phantom, ElementsOf
<1>4. PrimaryStates(r) = Was
  BY <1>2 DEF PrimaryStates
<1>5. ExpectedElements(r) = {El("g", s, r.classes) : s \in Was}
  BY <1>4 DEF ExpectedElements, ElementsOf
<1> HIDE DEF Was
<1>6. \A s \in Was : El("g", s, r.classes).tag = "g" /\ El("g", s, r.classes).state = s
                    /\ El("g", s, r.classes).classes = r.classes
  BY DEF El
<1>7. {e \in DrawnElements(r) : e.tag = "g"} = DrawnElements(r)
  BY <1>3, <1>6
<1>8. {e.state : e \in DrawnElements(r)} = Was
  BY <1>3, <1>6
<1> QED
  BY <1>3, <1>4, <1>5, <1>6, <1>7, <1>8

(* The same of a boundary, whose frame carries its classes and whose       *)
(* label does not.                                                         *)
LEMMA BoundariesDrawn ==
  ASSUME NEW r, RowShape(r), r.kind = "boundary"
  PROVE  /\ DrawnElements(r) = ExpectedElements(r)
         /\ {e.state : e \in {e \in DrawnElements(r) : e.tag = "rect"}} = PrimaryStates(r)
         /\ \A e \in DrawnElements(r) : e.tag = "rect" => e.classes = r.classes
<1>1. r.classes \subseteq {"scope", "geometry"}
  BY DEF RowShape, GroupsOf
<1>2. /\ r.status \in {"added", "removed", "changed", "geometry-changed"}
      /\ r.status \in {"added", "removed"} => r.classes = {"scope"}
  BY <1>1 DEF RowShape, StatusFor, IdentityClass
<1> DEFINE Was == {r.status} \cup (IF r.status \in {"added", "removed"} THEN {} ELSE {"moved-from"})
           Frames == {El("rect", s, r.classes) : s \in Was}
           Names == {El("text", s, {}) : s \in Was}
<1>3. DrawnElements(r) = Frames \cup Names
  BY <1>2 DEF DrawnElements, Phantom, ElementsOf
<1>4. PrimaryStates(r) = Was
  BY <1>2 DEF PrimaryStates
<1>5. ExpectedElements(r) = Frames \cup Names
  BY <1>4 DEF ExpectedElements, ElementsOf
<1> HIDE DEF Was
<1>6. \A s \in Was : /\ El("rect", s, r.classes).tag = "rect" /\ El("rect", s, r.classes).state = s
                     /\ El("rect", s, r.classes).classes = r.classes /\ El("text", s, {}).tag # "rect"
  BY DEF El
<1>7. {e \in DrawnElements(r) : e.tag = "rect"} = Frames
  BY <1>3, <1>6
<1>8. {e.state : e \in Frames} = Was
  BY <1>6
<1> QED
  BY <1>3, <1>4, <1>5, <1>6, <1>7, <1>8

(* The same of a connection: a path, the group of its label if it has      *)
(* one, and a symbol, for each of the forms that the check expects.        *)
LEMMA ConnectionsDrawn ==
  ASSUME NEW r, RowShape(r), r.kind = "connection"
  PROVE  /\ DrawnElements(r) = ExpectedElements(r)
         /\ {e.state : e \in {e \in DrawnElements(r) : e.tag = "path"}} = PrimaryStates(r)
         /\ \A e \in DrawnElements(r) : e.tag = "path" => e.classes = r.classes
<1>1. r.classes \subseteq {"topology", "semantic", "geometry"}
  BY DEF RowShape, GroupsOf
<1>2. /\ r.status \in {"added", "removed", "changed", "rerouted"}
      /\ r.status \in {"added", "removed"} => r.classes = {"topology"}
      /\ r.status = "changed" => "topology" \in r.classes \/ "semantic" \in r.classes
      /\ r.status = "rerouted" => r.classes = {"geometry"}
  BY <1>1 DEF RowShape, StatusFor, IdentityClass
<1> DEFINE Drawn(s, m, l) == {El("path", s, r.classes), Symbol(m)}
                               \cup (IF l # "" THEN {El("g", s, r.classes)} ELSE {})
           Paths(S) == {e.state : e \in {e \in S : e.tag = "path"}}
           Classed(S) == \A e \in S : e.tag = "path" => e.classes = r.classes
<1>3. \A s, m, l : ElementsOf("connection", l, s, r.classes) \cup {Symbol(m)} = Drawn(s, m, l)
  BY DEF ElementsOf
<1>4. \A s, m, l : Paths(Drawn(s, m, l)) = {s} /\ Classed(Drawn(s, m, l))
  <2> SUFFICES ASSUME NEW s, NEW m, NEW l
               PROVE  Paths(Drawn(s, m, l)) = {s} /\ Classed(Drawn(s, m, l))
    OBVIOUS
  <2>1. /\ El("path", s, r.classes).tag = "path" /\ El("path", s, r.classes).state = s
        /\ El("path", s, r.classes).classes = r.classes
        /\ Symbol(m).tag # "path" /\ El("g", s, r.classes).tag # "path"
    BY DEF El, Symbol
  <2>2. {e \in Drawn(s, m, l) : e.tag = "path"} = {El("path", s, r.classes)}
    BY <2>1
  <2> QED
    BY <2>1, <2>2
<1> HIDE DEF Drawn
<1> DEFINE Form(s, m, l) == [state |-> s, marker |-> m, label |-> l]
<1>5. \A S, T : /\ Paths(S \cup T) = Paths(S) \cup Paths(T)
                /\ Classed(S) /\ Classed(T) => Classed(S \cup T)
  OBVIOUS
<1>6. \A s, m, l : ExpectedForms(r) = {Form(s, m, l)} => ExpectedElements(r) = Drawn(s, m, l)
  BY <1>3 DEF ExpectedElements
<1>7. \A s, m, l, t, n, k :
        ExpectedForms(r) = {Form(s, m, l), Form(t, n, k)}
          => ExpectedElements(r) = Drawn(s, m, l) \cup Drawn(t, n, k)
  BY <1>3 DEF ExpectedElements
<1> SUFFICES DrawnElements(r) = ExpectedElements(r) /\ Paths(DrawnElements(r)) = PrimaryStates(r)
             /\ Classed(DrawnElements(r))
  OBVIOUS
<1> HIDE DEF Paths, Classed
<1>8. CASE r.status = "added"
  <2>1. ExpectedForms(r) = {Form("added", "added", r.headLabel)}
    BY <1>8 DEF ExpectedForms
  <2>2. DrawnElements(r) = Drawn("added", "added", r.headLabel)
    BY <1>2, <1>3, <1>8 DEF DrawnElements, Phantom
  <2>3. PrimaryStates(r) = {"added"}
    BY <1>2, <1>8 DEF PrimaryStates
  <2> QED
    BY <1>4, <1>6, <2>1, <2>2, <2>3
<1>9. CASE r.status = "removed"
  <2>1. ExpectedForms(r) = {Form("removed", "removed", r.baseLabel)}
    BY <1>9 DEF ExpectedForms
  <2>2. DrawnElements(r) = Drawn("removed", "removed", r.baseLabel)
    BY <1>2, <1>3, <1>9 DEF DrawnElements, Phantom
  <2>3. PrimaryStates(r) = {"removed"}
    BY <1>2, <1>9 DEF PrimaryStates
  <2> QED
    BY <1>4, <1>6, <2>1, <2>2, <2>3
<1>10. CASE r.status \notin {"added", "removed"} /\ "topology" \in r.classes
  <2>0. r.status = "changed"
    BY <1>2, <1>10
  <2>1. ExpectedForms(r) = {Form("removed", "removed", r.baseLabel), Form("changed", "added", r.headLabel)}
    BY <1>10, <2>0 DEF ExpectedForms
  <2>2. DrawnElements(r) = Drawn("removed", "removed", r.baseLabel) \cup Drawn("changed", "added", r.headLabel)
    <3>1. Phantom(r) = "removed"
      BY <1>10, <2>0 DEF Phantom
    <3>2. DrawnElements(r) = (ElementsOf("connection", r.baseLabel, "removed", r.classes) \cup {Symbol("removed")})
                              \cup (ElementsOf("connection", r.headLabel, "changed", r.classes) \cup {Symbol("added")})
      BY <1>10, <2>0, <3>1 DEF DrawnElements
    <3> QED
      BY <1>3, <3>2
  <2>3. PrimaryStates(r) = {"removed", "changed"}
    BY <1>10, <2>0 DEF PrimaryStates
  <2> DEFINE Old == Drawn("removed", "removed", r.baseLabel)
             New == Drawn("changed", "added", r.headLabel)
  <2>4. /\ DrawnElements(r) = Old \cup New
        /\ ExpectedElements(r) = Old \cup New
    BY <1>7, <2>1, <2>2
  <2>5. /\ Paths(Old) = {"removed"} /\ Classed(Old)
        /\ Paths(New) = {"changed"} /\ Classed(New)
    BY <1>4
  <2> HIDE DEF Old, New
  <2>6. Paths(Old \cup New) = {"removed", "changed"} /\ Classed(Old \cup New)
    BY <1>5, <2>5
  <2> QED
    BY <2>3, <2>4, <2>6
<1>11. CASE r.status \notin {"added", "removed"} /\ "topology" \notin r.classes /\ "geometry" \in r.classes
  <2>1. ExpectedForms(r) = {Form("moved-from", "moved-from", r.baseLabel), Form(r.status, r.status, r.headLabel)}
    BY <1>11 DEF ExpectedForms
  <2>2. DrawnElements(r) = Drawn("moved-from", "moved-from", r.baseLabel) \cup Drawn(r.status, r.status, r.headLabel)
    <3>1. Phantom(r) = "moved-from"
      BY <1>11 DEF Phantom
    <3>2. DrawnElements(r) = (ElementsOf("connection", r.baseLabel, "moved-from", r.classes) \cup {Symbol("moved-from")})
                              \cup (ElementsOf("connection", r.headLabel, r.status, r.classes) \cup {Symbol(r.status)})
      BY <1>11, <3>1 DEF DrawnElements
    <3> QED
      BY <1>3, <3>2
  <2>3. PrimaryStates(r) = {"moved-from", r.status}
    BY <1>11 DEF PrimaryStates
  <2> DEFINE Old == Drawn("moved-from", "moved-from", r.baseLabel)
             New == Drawn(r.status, r.status, r.headLabel)
  <2>4. /\ DrawnElements(r) = Old \cup New
        /\ ExpectedElements(r) = Old \cup New
    BY <1>7, <2>1, <2>2
  <2>5. /\ Paths(Old) = {"moved-from"} /\ Classed(Old)
        /\ Paths(New) = {r.status} /\ Classed(New)
    BY <1>4
  <2> HIDE DEF Old, New
  <2>6. Paths(Old \cup New) = {"moved-from", r.status} /\ Classed(Old \cup New)
    BY <1>5, <2>5
  <2> QED
    BY <2>3, <2>4, <2>6
<1>12. CASE r.status \notin {"added", "removed"} /\ r.classes \cap {"topology", "geometry"} = {}
  <2>0. r.status = "changed"
    BY <1>2, <1>12
  <2>1. ExpectedForms(r) = {Form("changed", "changed", r.headLabel)}
    BY <1>12, <2>0 DEF ExpectedForms
  <2>2. DrawnElements(r) = Drawn("changed", "changed", r.headLabel)
    BY <1>3, <1>12, <2>0 DEF DrawnElements, Phantom
  <2>3. PrimaryStates(r) = {"changed"}
    BY <1>12, <2>0 DEF PrimaryStates
  <2> QED
    BY <1>4, <1>6, <2>1, <2>2, <2>3
<1> QED
  BY <1>8, <1>9, <1>10, <1>11, <1>12

(* So the picture of any receipt passes the check that is made of it.      *)
LEMMA RowsAreDrawn ==
  ASSUME NEW rows, \A r \in rows : RowShape(r)
  PROVE  ArtifactValid(rows)
<1> SUFFICES ASSUME NEW r \in rows
             PROVE  LET primary == {e \in DrawnElements(r) : e.tag = PrimaryTag[r.kind]} IN
                    /\ DrawnElements(r) = ExpectedElements(r)
                    /\ {e.state : e \in primary} = PrimaryStates(r)
                    /\ \A e \in primary : e.classes = r.classes
  BY DEF ArtifactValid
<1>1. CASE r.kind = "component"
  BY <1>1, ComponentsDrawn DEF PrimaryTag
<1>2. CASE r.kind = "connection"
  BY <1>2, ConnectionsDrawn DEF PrimaryTag
<1>3. CASE r.kind = "boundary"
  BY <1>3, BoundariesDrawn DEF PrimaryTag
<1> QED
  BY <1>1, <1>2, <1>3 DEF RowShape, Kinds

-----------------------------------------------------------------------------
RowOf(base, head, kind, id) ==
  LET was == IF id \in Ids(base) THEN ItemOf(base, id) ELSE [label |-> ""]
      is == IF id \in Ids(head) THEN ItemOf(head, id) ELSE [label |-> ""]
      classes == IF id \in Ids(base) \cap Ids(head) THEN Changed(was, is, kind)
                 ELSE {IdentityClass[kind]}
  IN [kind |-> kind, id |-> id, classes |-> classes,
      status |-> IF id \notin Ids(base) THEN "added"
                 ELSE IF id \notin Ids(head) THEN "removed"
                 ELSE StatusFor(classes, kind),
      baseLabel |-> was.label, headLabel |-> is.label]

(* A receipt has a row for every identity whose status is not the same.    *)
LEMMA RowsOf ==
  ASSUME NEW base, NEW head, NEW kind
  PROVE  CompareEntities(base, head, kind)
           = {r \in {RowOf(base, head, kind, id) : id \in Ids(base) \cup Ids(head)} : r.status # "same"}
BY DEF CompareEntities, RowOf

(* The three kinds of row.                                                 *)
LEMMA RowFields ==
  ASSUME NEW base, NEW head, NEW kind, NEW id
  PROVE  /\ RowOf(base, head, kind, id).kind = kind
         /\ RowOf(base, head, kind, id).id = id
         /\ id \notin Ids(base) => /\ RowOf(base, head, kind, id).status = "added"
                                  /\ RowOf(base, head, kind, id).classes = {IdentityClass[kind]}
         /\ id \in Ids(base) /\ id \notin Ids(head)
              => /\ RowOf(base, head, kind, id).status = "removed"
                 /\ RowOf(base, head, kind, id).classes = {IdentityClass[kind]}
         /\ id \in Ids(base) /\ id \in Ids(head)
              => /\ RowOf(base, head, kind, id).classes = Changed(ItemOf(base, id), ItemOf(head, id), kind)
                 /\ RowOf(base, head, kind, id).status
                      = StatusFor(Changed(ItemOf(base, id), ItemOf(head, id), kind), kind)
BY DEF RowOf

(* Every row of a receipt is of that shape.                                *)
LEMMA RowsAreShaped ==
  ASSUME NEW base, NEW head, NEW kind \in Kinds, NEW r \in CompareEntities(base, head, kind)
  PROVE  RowShape(r) /\ r.kind = kind /\ r.status # "same"
<1>1. PICK id \in Ids(base) \cup Ids(head) : r = RowOf(base, head, kind, id)
  BY RowsOf
<1>2. r.status # "same"
  BY RowsOf
<1>3. {IdentityClass[kind]} \subseteq GroupsOf[kind]
  BY DEF Kinds, IdentityClass, GroupsOf
<1>4. r.kind = kind
  BY <1>1, RowFields
<1>5. CASE id \notin Ids(base) \/ id \notin Ids(head)
  <2>1. r.status \in {"added", "removed"} /\ r.classes = {IdentityClass[kind]}
    BY <1>1, <1>5, RowFields
  <2> QED
    BY <1>2, <1>3, <1>4, <2>1 DEF RowShape
<1>6. CASE id \in Ids(base) /\ id \in Ids(head)
  <2>1. r.status = StatusFor(r.classes, kind) /\ r.classes = Changed(ItemOf(base, id), ItemOf(head, id), kind)
    BY <1>1, <1>6, RowFields
  <2>2. r.classes \subseteq GroupsOf[kind]
    BY <2>1 DEF Changed
  <2> QED
    BY <1>2, <1>4, <2>1, <2>2 DEF RowShape
<1> QED
  BY <1>5, <1>6

(* Only an item without a changed group is the same.                       *)
LEMMA StatusesOf ==
  ASSUME NEW kind \in Kinds, NEW classes \in SUBSET GroupsOf[kind]
  PROVE  /\ StatusFor(classes, kind) \notin {"added", "removed"}
         /\ StatusFor(classes, kind) = "same" <=> classes = {}
<1>1. classes # {} => classes \cap {"topology", "semantic", "scope", "evidence", "geometry"} # {}
  BY DEF Kinds, GroupsOf
<1> QED
  BY <1>1 DEF StatusFor, Kinds

(* Every status that a kind of item can have is counted for it.            *)
LEMMA RowsAreCounted ==
  ASSUME NEW r, RowShape(r)
  PROVE  r.status \in CountedStatuses[r.kind]
<1>1. CASE r.kind = "component"
  BY <1>1 DEF RowShape, CountedStatuses, StatusFor, GroupsOf
<1>2. CASE r.kind = "connection"
  BY <1>2 DEF RowShape, CountedStatuses, StatusFor, GroupsOf
<1>3. CASE r.kind = "boundary"
  BY <1>3 DEF RowShape, CountedStatuses, StatusFor, GroupsOf
<1> QED
  BY <1>1, <1>2, <1>3 DEF RowShape, Kinds

(* The other way round.                                                    *)
LEMMA RowMirrored ==
  ASSUME NEW base, NEW head, NEW kind \in Kinds, NEW id \in Ids(base) \cup Ids(head)
  PROVE  /\ RowOf(head, base, kind, id).status = Mirror(RowOf(base, head, kind, id).status)
         /\ RowOf(head, base, kind, id).classes = RowOf(base, head, kind, id).classes
         /\ RowOf(head, base, kind, id).status = "same" <=> RowOf(base, head, kind, id).status = "same"
<1>1. CASE id \notin Ids(base)
  <2>0. id \in Ids(head)
    BY <1>1
  <2>1. RowOf(base, head, kind, id).status = "added" /\ RowOf(head, base, kind, id).status = "removed"
    BY <1>1, <2>0, RowFields
  <2>2. /\ RowOf(base, head, kind, id).classes = {IdentityClass[kind]}
        /\ RowOf(head, base, kind, id).classes = {IdentityClass[kind]}
    BY <1>1, <2>0, RowFields
  <2> QED
    BY <2>1, <2>2 DEF Mirror
<1>2. CASE id \notin Ids(head)
  <2>0. id \in Ids(base)
    BY <1>2
  <2>1. RowOf(base, head, kind, id).status = "removed" /\ RowOf(head, base, kind, id).status = "added"
    BY <1>2, <2>0, RowFields
  <2>2. /\ RowOf(base, head, kind, id).classes = {IdentityClass[kind]}
        /\ RowOf(head, base, kind, id).classes = {IdentityClass[kind]}
    BY <1>2, <2>0, RowFields
  <2> QED
    BY <2>1, <2>2 DEF Mirror
<1>3. CASE id \in Ids(base) /\ id \in Ids(head)
  <2> DEFINE classes == Changed(ItemOf(base, id), ItemOf(head, id), kind)
  <2>1. classes \in SUBSET GroupsOf[kind] /\ classes = Changed(ItemOf(head, id), ItemOf(base, id), kind)
    BY DEF Changed
  <2>2. /\ RowOf(base, head, kind, id).classes = classes
        /\ RowOf(base, head, kind, id).status = StatusFor(classes, kind)
    BY <1>3, RowFields
  <2>3. /\ RowOf(head, base, kind, id).classes = classes
        /\ RowOf(head, base, kind, id).status = StatusFor(classes, kind)
    BY <1>3, <2>1, RowFields
  <2> HIDE DEF classes
  <2>4. StatusFor(classes, kind) \notin {"added", "removed"}
    BY <2>1, StatusesOf
  <2>5. Mirror(StatusFor(classes, kind)) = StatusFor(classes, kind)
    BY <2>4 DEF Mirror
  <2> QED
    BY <2>2, <2>3, <2>5
<1> QED
  BY <1>1, <1>2, <1>3

Forward(r) == <<r.kind, r.id, Mirror(r.status), r.classes>>
Backward(r) == <<r.kind, r.id, r.status, r.classes>>

LEMMA RowsMirrored ==
  ASSUME NEW base, NEW head, NEW kind \in Kinds
  PROVE  {Forward(r) : r \in CompareEntities(base, head, kind)}
           = {Backward(r) : r \in CompareEntities(head, base, kind)}
<1> DEFINE Row(id) == RowOf(base, head, kind, id)
           Back(id) == RowOf(head, base, kind, id)
           Both == Ids(base) \cup Ids(head)
<1>1. \A id \in Both : Forward(Row(id)) = Backward(Back(id)) /\ (Row(id).status = "same" <=> Back(id).status = "same")
  <2> SUFFICES ASSUME NEW id \in Both
               PROVE  /\ Forward(Row(id)) = Backward(Back(id))
                      /\ Row(id).status = "same" <=> Back(id).status = "same"
    OBVIOUS
  <2>1. /\ Row(id).kind = kind /\ Row(id).id = id
        /\ Back(id).kind = kind /\ Back(id).id = id
    BY RowFields
  <2>2. /\ Back(id).status = Mirror(Row(id).status)
        /\ Back(id).classes = Row(id).classes
        /\ Back(id).status = "same" <=> Row(id).status = "same"
    BY RowMirrored
  <2> QED
    BY <2>1, <2>2 DEF Forward, Backward
<1>2. {Forward(r) : r \in CompareEntities(base, head, kind)}
        = {Forward(Row(id)) : id \in {i \in Both : Row(i).status # "same"}}
  BY RowsOf
<1>3. {Backward(r) : r \in CompareEntities(head, base, kind)}
        = {Backward(Back(id)) : id \in {i \in Both : Back(i).status # "same"}}
  BY RowsOf
<1> QED
  BY <1>1, <1>2, <1>3

-----------------------------------------------------------------------------
(* Nothing to report.                                                      *)
(* Where identities are stable an identity is that of one item.            *)
LEMMA OneItemPerId ==
  ASSUME NEW items, IsFiniteSet(items), Stable(items)
  PROVE  /\ \A i \in items, j \in items : i.id = j.id => i = j
         /\ \A i \in items : ItemOf(items, i.id) = i
<1> DEFINE f == [i \in items |-> i.id]
<1>1. f \in Surjection(items, Ids(items))
  BY DEF Surjection, Ids
<1>2. IsFiniteSet(Ids(items))
  BY <1>1, FS_Surjection
<1>3. f \in Injection(items, Ids(items))
  BY <1>1, <1>2, FS_SurjSameCardinalityImpliesInj DEF Stable
<1>4. \A i \in items, j \in items : i.id = j.id => i = j
  BY <1>3 DEF Injection, IsInjective
<1> QED
  BY <1>4 DEF ItemOf

Alike(base, head, kind) ==
  /\ Ids(base) = Ids(head)
  /\ \A i \in base, j \in head : i.id = j.id => \A g \in GroupsOf[kind] : i[g] = j[g]

(* There is nothing to report exactly if both sides have the same          *)
(* identities and no group of an item differs.                             *)
LEMMA NoRows ==
  ASSUME NEW base, NEW head, NEW kind \in Kinds,
         IsFiniteSet(base), Stable(base), IsFiniteSet(head), Stable(head)
  PROVE  CompareEntities(base, head, kind) = {} <=> Alike(base, head, kind)
<1> DEFINE Same(id) == RowOf(base, head, kind, id).status = "same"
<1>1. CompareEntities(base, head, kind) = {} <=> \A id \in Ids(base) \cup Ids(head) : Same(id)
  BY RowsOf
<1>2. \A id \in Ids(base) \cup Ids(head) : Same(id) => id \in Ids(base) /\ id \in Ids(head)
  BY RowFields
<1>3. ASSUME NEW i \in base, NEW j \in head, i.id = j.id
      PROVE  Same(i.id) <=> \A g \in GroupsOf[kind] : i[g] = j[g]
  <2>1. i.id \in Ids(base) /\ i.id \in Ids(head)
    BY <1>3 DEF Ids
  <2>2. ItemOf(base, i.id) = i /\ ItemOf(head, i.id) = j
    BY <1>3, OneItemPerId
  <2>3. RowOf(base, head, kind, i.id).status = StatusFor(Changed(i, j, kind), kind)
    BY <2>1, <2>2, RowFields
  <2>4. Changed(i, j, kind) \in SUBSET GroupsOf[kind]
    BY DEF Changed
  <2>5. Same(i.id) <=> Changed(i, j, kind) = {}
    BY <2>3, <2>4, StatusesOf
  <2> QED
    BY <2>5 DEF Changed
<1> HIDE DEF Same
<1>4. ASSUME \A id \in Ids(base) \cup Ids(head) : Same(id)
      PROVE  Alike(base, head, kind)
  <2>1. Ids(base) = Ids(head)
    BY <1>2, <1>4
  <2>2. \A i \in base : i.id \in Ids(base)
    BY DEF Ids
  <2> QED
    BY <1>3, <1>4, <2>1, <2>2 DEF Alike
<1>5. ASSUME Alike(base, head, kind), NEW id \in Ids(base) \cup Ids(head)
      PROVE  Same(id)
  <2>1. PICK i \in base, j \in head : i.id = id /\ j.id = id
    BY <1>5 DEF Alike, Ids
  <2> QED
    BY <1>3, <1>5, <2>1 DEF Alike
<1> QED
  BY <1>1, <1>4, <1>5

(* Connections have no field outside the groups.                           *)
LEMMA SameConnections ==
  ASSUME NEW base, NEW head, Authored(base), Authored(head), LabelsInGroups(base, head),
         Stable(base.connections), Stable(head.connections)
  PROVE  Alike(base.connections, head.connections, "connection") <=> base.connections = head.connections
<1>1. ASSUME Alike(base.connections, head.connections, "connection"),
             NEW i \in base.connections, NEW j \in head.connections, i.id = j.id
      PROVE  i = j
  <2>1. \A g \in {"topology", "semantic", "geometry"} : i[g] = j[g]
    BY <1>1 DEF Alike, GroupsOf
  <2>2. i.topology = j.topology /\ i.semantic = j.semantic /\ i.geometry = j.geometry
    BY <2>1
  <2>3. i.label = j.label
    BY <2>2 DEF LabelsInGroups
  <2> QED
    BY <1>1, <2>2, <2>3 DEF Authored
<1>2. ASSUME Alike(base.connections, head.connections, "connection")
      PROVE  base.connections = head.connections
  <2>1. \A i \in base.connections : \E j \in head.connections : i.id = j.id
    BY <1>2 DEF Alike, Ids
  <2>2. \A j \in head.connections : \E i \in base.connections : i.id = j.id
    BY <1>2 DEF Alike, Ids
  <2>3. \A i \in base.connections : i \in head.connections
    BY <1>1, <1>2, <2>1
  <2>4. \A j \in head.connections : j \in base.connections
    BY <1>1, <1>2, <2>2
  <2> QED
    BY <2>3, <2>4
<1>3. ASSUME base.connections = head.connections
      PROVE  Alike(base.connections, head.connections, "connection")
  BY <1>3, OneItemPerId DEF Alike, Authored
<1> QED
  BY <1>2, <1>3

(* Nor have boundaries.                                                    *)
LEMMA SameBoundaries ==
  ASSUME NEW base, NEW head, Authored(base), Authored(head), LabelsInGroups(base, head),
         Stable(base.boundaries), Stable(head.boundaries)
  PROVE  Alike(base.boundaries, head.boundaries, "boundary") <=> base.boundaries = head.boundaries
<1>1. ASSUME Alike(base.boundaries, head.boundaries, "boundary"),
             NEW i \in base.boundaries, NEW j \in head.boundaries, i.id = j.id
      PROVE  i = j
  <2>1. \A g \in {"scope", "geometry"} : i[g] = j[g]
    BY <1>1 DEF Alike, GroupsOf
  <2>2. i.scope = j.scope /\ i.geometry = j.geometry
    BY <2>1
  <2>3. i.label = j.label
    BY <1>1 DEF LabelsInGroups
  <2> QED
    BY <1>1, <2>2, <2>3 DEF Authored
<1>2. ASSUME Alike(base.boundaries, head.boundaries, "boundary")
      PROVE  base.boundaries = head.boundaries
  <2>1. \A i \in base.boundaries : \E j \in head.boundaries : i.id = j.id
    BY <1>2 DEF Alike, Ids
  <2>2. \A j \in head.boundaries : \E i \in base.boundaries : i.id = j.id
    BY <1>2 DEF Alike, Ids
  <2>3. \A i \in base.boundaries : i \in head.boundaries
    BY <1>1, <1>2, <2>1
  <2>4. \A j \in head.boundaries : j \in base.boundaries
    BY <1>1, <1>2, <2>2
  <2> QED
    BY <2>3, <2>4
<1>3. ASSUME base.boundaries = head.boundaries
      PROVE  Alike(base.boundaries, head.boundaries, "boundary")
  BY <1>3, OneItemPerId DEF Alike, Authored
<1> QED
  BY <1>2, <1>3

(* Components have one, which the comparison does not see.                 *)
LEMMA PlainComponents ==
  ASSUME NEW c, NEW d,
         c = [id |-> c.id, label |-> c.label, semantic |-> c.semantic, evidence |-> c.evidence,
              geometry |-> c.geometry, brand |-> c.brand],
         d = [id |-> d.id, label |-> d.label, semantic |-> d.semantic, evidence |-> d.evidence,
              geometry |-> d.geometry, brand |-> d.brand]
  PROVE  [c EXCEPT !.brand = ""] = [d EXCEPT !.brand = ""]
           <=> /\ c.id = d.id /\ c.label = d.label /\ c.semantic = d.semantic
               /\ c.evidence = d.evidence /\ c.geometry = d.geometry
<1> DEFINE Items == [id : {c.id, d.id}, label : {c.label, d.label}, semantic : {c.semantic, d.semantic},
                     evidence : {c.evidence, d.evidence}, geometry : {c.geometry, d.geometry},
                     brand : {c.brand, d.brand, ""}]
           x == [c EXCEPT !.brand = ""]
           y == [d EXCEPT !.brand = ""]
<1>1. c \in Items /\ d \in Items
  OBVIOUS
<1>2. x \in Items /\ y \in Items
  BY <1>1
<1>3. /\ x.id = c.id /\ x.label = c.label /\ x.semantic = c.semantic /\ x.evidence = c.evidence
      /\ x.geometry = c.geometry /\ x.brand = ""
      /\ y.id = d.id /\ y.label = d.label /\ y.semantic = d.semantic /\ y.evidence = d.evidence
      /\ y.geometry = d.geometry /\ y.brand = ""
  BY <1>1
<1> HIDE DEF x, y
<1> QED
  BY <1>2, <1>3 DEF x, y

LEMMA SameComponents ==
  ASSUME NEW base, NEW head, Authored(base), Authored(head), LabelsInGroups(base, head),
         Stable(base.components), Stable(head.components)
  PROVE  Alike(base.components, head.components, "component")
           <=> {[c EXCEPT !.brand = ""] : c \in base.components} = {[c EXCEPT !.brand = ""] : c \in head.components}
<1> DEFINE Plain(c) == [c EXCEPT !.brand = ""]
           Was == {Plain(c) : c \in base.components}
           Is == {Plain(c) : c \in head.components}
<1>0. \A c, d \in base.components \cup head.components :
        Plain(c) = Plain(d) <=> /\ c.id = d.id /\ c.label = d.label /\ c.semantic = d.semantic
                                /\ c.evidence = d.evidence /\ c.geometry = d.geometry
  BY PlainComponents DEF Authored
<1> HIDE DEF Plain
<1>1. ASSUME Alike(base.components, head.components, "component"),
             NEW i \in base.components, NEW j \in head.components, i.id = j.id
      PROVE  Plain(i) = Plain(j)
  <2>1. \A g \in {"semantic", "evidence", "geometry"} : i[g] = j[g]
    BY <1>1 DEF Alike, GroupsOf
  <2>2. i.semantic = j.semantic /\ i.evidence = j.evidence /\ i.geometry = j.geometry
    BY <2>1
  <2>3. i.label = j.label
    BY <2>2 DEF LabelsInGroups
  <2> QED
    BY <1>0, <1>1, <2>2, <2>3
<1>2. ASSUME Alike(base.components, head.components, "component")
      PROVE  Was = Is
  <2>1. \A i \in base.components : \E j \in head.components : i.id = j.id
    BY <1>2 DEF Alike, Ids
  <2>2. \A j \in head.components : \E i \in base.components : i.id = j.id
    BY <1>2 DEF Alike, Ids
  <2>3. \A i \in base.components : Plain(i) \in Is
    BY <1>1, <1>2, <2>1
  <2>4. \A j \in head.components : Plain(j) \in Was
    BY <1>1, <1>2, <2>2
  <2> QED
    BY <2>3, <2>4
<1>3. ASSUME Was = Is
      PROVE  Alike(base.components, head.components, "component")
  <2>1. \A i \in base.components : \E j \in head.components : Plain(i) = Plain(j)
    BY <1>3
  <2>2. \A j \in head.components : \E i \in base.components : Plain(i) = Plain(j)
    BY <1>3
  <2>3. \A i \in base.components, j \in head.components : Plain(i) = Plain(j)
          => /\ i.id = j.id /\ i.semantic = j.semantic
             /\ i.evidence = j.evidence /\ i.geometry = j.geometry
    BY <1>0
  <2>4. Ids(base.components) = Ids(head.components)
    BY <2>1, <2>2, <2>3 DEF Ids
  <2>5. ASSUME NEW i \in base.components, NEW j \in head.components, i.id = j.id
        PROVE  \A g \in GroupsOf["component"] : i[g] = j[g]
    <3>1. PICK k \in head.components : Plain(i) = Plain(k)
      BY <2>1
    <3>2. k = j
      BY <2>3, <2>5, <3>1, OneItemPerId DEF Authored
    <3>3. i.semantic = j.semantic /\ i.evidence = j.evidence /\ i.geometry = j.geometry
      BY <2>3, <3>1, <3>2
    <3> QED
      BY <3>3 DEF GroupsOf
  <2> QED
    BY <2>4, <2>5 DEF Alike
<1> QED
  BY <1>2, <1>3 DEF Plain

RowsIn(base, head) ==
  CompareEntities(base.components, head.components, "component")
    \cup CompareEntities(base.connections, head.connections, "connection")
    \cup CompareEntities(base.boundaries, head.boundaries, "boundary")

(* A comparison is refused whichever document comes first.                 *)
LEMMA RefusedBothWays ==
  ASSUME NEW base, NEW head, Refusal(base, head) = "none"
  PROVE  /\ Refusal(head, base) = "none" /\ base.type = head.type
         /\ Stable(base.components) /\ Stable(head.components)
         /\ Stable(base.connections) /\ Stable(head.connections)
         /\ Stable(base.boundaries) /\ Stable(head.boundaries)
<1>1. Mismatch(base, head) = Mismatch(head, base)
  BY DEF Mismatch
<1>2. {base.type, head.type} = {head.type, base.type}
  OBVIOUS
<1>3. Ids(base.components) \cap Ids(head.components) = Ids(head.components) \cap Ids(base.components)
  OBVIOUS
<1>4. /\ {base.type, head.type} = {"architecture"}
      /\ Stable(base.components) /\ Stable(head.components)
      /\ Ids(base.components) \cap Ids(head.components) # {}
      /\ Stable(base.connections) /\ Stable(head.connections)
      /\ Stable(base.boundaries) /\ Stable(head.boundaries)
      /\ ~ Mismatch(base, head)
  BY DEF Refusal
<1>5. Refusal(head, base) = "none"
  BY <1>1, <1>2, <1>3, <1>4 DEF Refusal
<1> QED
  BY <1>4, <1>5

(* Documents are equal if their fields are.                                *)
LEMMA SameFields ==
  ASSUME NEW T, NEW P, NEW C, NEW B, NEW N, NEW L, NEW O, NEW R,
         NEW x \in [type : T, components : P, connections : C, boundaries : B, presentation : N,
                    locale : L, output : O, repository : R],
         NEW y \in [type : T, components : P, connections : C, boundaries : B, presentation : N,
                    locale : L, output : O, repository : R],
         x.type = y.type, x.components = y.components, x.connections = y.connections,
         x.boundaries = y.boundaries, x.presentation = y.presentation, x.locale = y.locale,
         x.output = y.output, x.repository = y.repository
  PROVE  x = y
OBVIOUS

LEMMA IsDocument ==
  ASSUME NEW T, NEW P, NEW C, NEW B, NEW N, NEW L, NEW O, NEW R, NEW doc, Authored(doc),
         doc.type \in T, doc.components \in P, doc.connections \in C, doc.boundaries \in B,
         doc.presentation \in N, doc.locale \in L, doc.output \in O, doc.repository \in R
  PROVE  doc \in [type : T, components : P, connections : C, boundaries : B, presentation : N,
                  locale : L, output : O, repository : R]
<1>1. doc = [type |-> doc.type, components |-> doc.components, connections |-> doc.connections,
             boundaries |-> doc.boundaries, presentation |-> doc.presentation,
             locale |-> doc.locale, output |-> doc.output, repository |-> doc.repository]
  BY DEF Authored
<1>2. [type |-> doc.type, components |-> doc.components, connections |-> doc.connections,
       boundaries |-> doc.boundaries, presentation |-> doc.presentation,
       locale |-> doc.locale, output |-> doc.output, repository |-> doc.repository]
        \in [type : T, components : P, connections : C, boundaries : B, presentation : N,
             locale : L, output : O, repository : R]
  OBVIOUS
<1> QED
  BY <1>1, <1>2

(* What two documents are compared by.                                     *)
LEMMA SameDocuments ==
  ASSUME NEW base, NEW head, Authored(base), Authored(head), base.type = head.type
  PROVE  Compared(base) = Compared(head)
           <=> /\ {[c EXCEPT !.brand = ""] : c \in base.components} = {[c EXCEPT !.brand = ""] : c \in head.components}
               /\ base.connections = head.connections /\ base.boundaries = head.boundaries
               /\ base.presentation = head.presentation
               /\ NormalizeRepository(base.repository) = NormalizeRepository(head.repository)
<1> DEFINE Plain(doc) == {[c EXCEPT !.brand = ""] : c \in doc.components}
           Norm(doc) == NormalizeRepository(doc.repository)
           Docs == [type : {base.type, head.type},
                    components : {base.components, head.components, Plain(base), Plain(head)},
                    connections : {base.connections, head.connections},
                    boundaries : {base.boundaries, head.boundaries},
                    presentation : {base.presentation, head.presentation},
                    locale : {base.locale, head.locale, ""}, output : {base.output, head.output, ""},
                    repository : {base.repository, head.repository, Norm(base), Norm(head)}]
<1>1. ASSUME NEW doc \in {base, head}
      PROVE  /\ Compared(doc) \in Docs
             /\ Compared(doc).type = doc.type /\ Compared(doc).components = Plain(doc)
             /\ Compared(doc).connections = doc.connections /\ Compared(doc).boundaries = doc.boundaries
             /\ Compared(doc).presentation = doc.presentation /\ Compared(doc).repository = Norm(doc)
             /\ Compared(doc).locale = "" /\ Compared(doc).output = ""
  <2>1. doc \in Docs
    BY IsDocument
  <2> DEFINE x == CanonicalArchitecture(doc)
  <2>2. Norm(doc) \in {base.repository, head.repository, Norm(base), Norm(head)}
    OBVIOUS
  <2>3. Plain(doc) \in {base.components, head.components, Plain(base), Plain(head)}
    OBVIOUS
  <2> HIDE DEF Norm
  <2>4. x = [doc EXCEPT !.output = "", !.repository = Norm(doc)]
    BY <2>1 DEF CanonicalArchitecture, Norm
  <2>5. /\ x \in Docs /\ x.type = doc.type /\ x.components = doc.components
        /\ x.connections = doc.connections /\ x.boundaries = doc.boundaries
        /\ x.presentation = doc.presentation /\ x.repository = Norm(doc) /\ x.output = ""
    BY <2>1, <2>2, <2>4
  <2>6. Compared(doc) = [x EXCEPT !.locale = "", !.components = Plain(doc)]
    BY <2>5 DEF Compared
  <2> HIDE DEF x, Plain
  <2> QED
    BY <2>3, <2>5, <2>6
<1>2. Compared(base) = Compared(head)
        <=> /\ Plain(base) = Plain(head)
            /\ base.connections = head.connections /\ base.boundaries = head.boundaries
            /\ base.presentation = head.presentation /\ Norm(base) = Norm(head)
  <2> HIDE DEF Plain, Norm
  <2> DEFINE x == Compared(base)
             y == Compared(head)
  <2>1. /\ x \in Docs /\ x.type = base.type /\ x.components = Plain(base)
        /\ x.connections = base.connections /\ x.boundaries = base.boundaries
        /\ x.presentation = base.presentation /\ x.repository = Norm(base)
        /\ x.locale = "" /\ x.output = ""
    BY <1>1
  <2>2. /\ y \in Docs /\ y.type = head.type /\ y.components = Plain(head)
        /\ y.connections = head.connections /\ y.boundaries = head.boundaries
        /\ y.presentation = head.presentation /\ y.repository = Norm(head)
        /\ y.locale = "" /\ y.output = ""
    BY <1>1
  <2> HIDE DEF x, y
  <2>3. x = y <=> /\ Plain(base) = Plain(head)
                  /\ base.connections = head.connections /\ base.boundaries = head.boundaries
                  /\ base.presentation = head.presentation /\ Norm(base) = Norm(head)
    <3>1. ASSUME Plain(base) = Plain(head),
                 base.connections = head.connections, base.boundaries = head.boundaries,
                 base.presentation = head.presentation, Norm(base) = Norm(head)
          PROVE  x = y
      <4>1. /\ x.type = y.type /\ x.components = y.components /\ x.connections = y.connections
            /\ x.boundaries = y.boundaries /\ x.presentation = y.presentation /\ x.locale = y.locale
            /\ x.output = y.output /\ x.repository = y.repository
        BY <2>1, <2>2, <3>1
      <4> QED
        BY <2>1, <2>2, <4>1, SameFields
    <3>2. ASSUME x = y
          PROVE  /\ Plain(base) = Plain(head)
                 /\ base.connections = head.connections /\ base.boundaries = head.boundaries
                 /\ base.presentation = head.presentation /\ Norm(base) = Norm(head)
      BY <2>1, <2>2, <3>2
    <3> QED
      BY <3>1, <3>2
  <2> QED
    BY <2>3 DEF x, y
<1> QED
  BY <1>2

(* Whatever the two documents, if a comparison is not refused it reports   *)
(* a change exactly if what is compared differs, counts every row once,    *)
(* reports the same rows the other way round with added and removed        *)
(* exchanged, and draws a picture that passes its own check                *)
(* (compareArchitecture, buildDeltaSvg and validateArchitectureDeltaHtml   *)
(* of delta/architecture-delta.mjs).                                       *)
THEOREM DeltaTells ==
  ASSUME NEW base, NEW head, Authored(base), Authored(head), LabelsInGroups(base, head)
  PROVE  DeltaTellsAll(base, head)
<1> SUFFICES ASSUME Refusal(base, head) = "none" PROVE DeltaTellsAll(base, head)
  BY DEF DeltaTellsAll
<1> DEFINE receipt == CompareArchitecture(base, head, TRUE)
           back == CompareArchitecture(head, base, TRUE)
           Counted(k) == {r \in receipt.rows : r.kind = k /\ r.status \in CountedStatuses[k]}
<1>1. /\ receipt.rows = RowsIn(base, head) /\ back.rows = RowsIn(head, base)
      /\ receipt.presentationChanged = (base.presentation # head.presentation)
      /\ receipt.provenanceChanged = (NormalizeRepository(base.repository) # NormalizeRepository(head.repository))
  BY DEF CompareArchitecture, RowsIn
<1>2. \A r \in RowsIn(base, head) : RowShape(r)
  BY RowsAreShaped DEF RowsIn, Kinds
<1>3. RowsIn(base, head) = {} <=> /\ Alike(base.components, head.components, "component")
                                 /\ Alike(base.connections, head.connections, "connection")
                                 /\ Alike(base.boundaries, head.boundaries, "boundary")
  <2>1. /\ CompareEntities(base.components, head.components, "component") = {}
             <=> Alike(base.components, head.components, "component")
        /\ CompareEntities(base.connections, head.connections, "connection") = {}
             <=> Alike(base.connections, head.connections, "connection")
        /\ CompareEntities(base.boundaries, head.boundaries, "boundary") = {}
             <=> Alike(base.boundaries, head.boundaries, "boundary")
    BY RefusedBothWays, NoRows DEF Authored, Kinds
  <2> QED
    BY <2>1 DEF RowsIn
<1>4. (receipt.rows = {} /\ ~ receipt.presentationChanged /\ ~ receipt.provenanceChanged)
        <=> Compared(base) = Compared(head)
  <2>1. /\ base.type = head.type
        /\ Stable(base.components) /\ Stable(head.components)
        /\ Stable(base.connections) /\ Stable(head.connections)
        /\ Stable(base.boundaries) /\ Stable(head.boundaries)
    BY RefusedBothWays
  <2>2. RowsIn(base, head) = {}
          <=> /\ {[c EXCEPT !.brand = ""] : c \in base.components} = {[c EXCEPT !.brand = ""] : c \in head.components}
              /\ base.connections = head.connections
              /\ base.boundaries = head.boundaries
    BY <1>3, <2>1, SameComponents, SameConnections, SameBoundaries
  <2> DEFINE Plain(doc) == {[c EXCEPT !.brand = ""] : c \in doc.components}
             Norm(doc) == NormalizeRepository(doc.repository)
  <2>3. Compared(base) = Compared(head)
          <=> /\ Plain(base) = Plain(head)
              /\ base.connections = head.connections /\ base.boundaries = head.boundaries
              /\ base.presentation = head.presentation /\ Norm(base) = Norm(head)
    BY <2>1, SameDocuments
  <2> HIDE DEF receipt, Plain, Norm
  <2> QED
    BY <1>1, <2>2, <2>3 DEF Plain, Norm
<1>5. receipt.rows = UNION {Counted(k) : k \in DOMAIN GroupsOf}
  <2>1. \A r \in receipt.rows : r.kind \in DOMAIN GroupsOf /\ r.status \in CountedStatuses[r.kind]
    BY <1>1, <1>2, RowsAreCounted DEF RowShape, Kinds, GroupsOf
  <2> HIDE DEF receipt
  <2> QED
    BY <2>1
<1>6. {<<r.kind, r.id, Mirror(r.status), r.classes>> : r \in receipt.rows}
        = {<<r.kind, r.id, r.status, r.classes>> : r \in back.rows}
  <2>1. {Forward(r) : r \in RowsIn(base, head)} = {Backward(r) : r \in RowsIn(head, base)}
    <3> DEFINE Fore(x, y, k) == {Forward(r) : r \in CompareEntities(x, y, k)}
               Aft(x, y, k) == {Backward(r) : r \in CompareEntities(x, y, k)}
    <3>1. \A x, y : \A k \in Kinds : Fore(x, y, k) = Aft(y, x, k)
      BY RowsMirrored
    <3>2. {Forward(r) : r \in RowsIn(base, head)}
            = Fore(base.components, head.components, "component")
                \cup Fore(base.connections, head.connections, "connection")
                \cup Fore(base.boundaries, head.boundaries, "boundary")
      BY DEF RowsIn
    <3>3. {Backward(r) : r \in RowsIn(head, base)}
            = Aft(head.components, base.components, "component")
                \cup Aft(head.connections, base.connections, "connection")
                \cup Aft(head.boundaries, base.boundaries, "boundary")
      BY DEF RowsIn
    <3> HIDE DEF Fore, Aft
    <3> QED
      BY <3>1, <3>2, <3>3 DEF Kinds
  <2> QED
    BY <1>1, <2>1 DEF Forward, Backward
<1>7. ArtifactValid(receipt.rows)
  BY <1>1, <1>2, RowsAreDrawn
<1> HIDE DEF receipt, back
<1> QED
  BY <1>4, <1>5, <1>6, <1>7, RefusedBothWays DEF DeltaTellsAll, receipt, back

-----------------------------------------------------------------------------
(* The order of versions.                                                  *)
(* Every set of numbers has a least element.                               *)
LEMMA LeastOf ==
  ASSUME NEW S \in SUBSET Nat, S # {}
  PROVE  \E m \in S : \A k \in S : m <= k
<1>1. PICK m \in S : \A k \in S : ~ (<<k, m>> \in OpToRel(<, Nat))
  BY WFMin, NatLessThanWellFounded, Zenon
<1>2. \A k \in S : ~ (k < m)
  BY <1>1 DEF OpToRel
<1> QED
  BY <1>2

Signs == {-1, 0, 1}
(* x, y and z are the signs of comparing a with b, b with c and a with c.  *)
Agree(x, y, z) ==
  /\ x \in Signs /\ y \in Signs /\ z \in Signs
  /\ x = 0 => z = y
  /\ y = 0 => z = x
  /\ x = y => z = x

(* What the first difference decides.                                      *)
LEMMA FirstOtherIs ==
  ASSUME NEW D \in SUBSET Nat, NEW s \in [D -> Signs]
  PROVE  /\ FirstOther(s) \in Signs
         /\ FirstOther(s) = 0 <=> \A i \in D : s[i] = 0
         /\ FirstOther(s) # 0 => \E i \in D : s[i] = FirstOther(s) /\ \A j \in D : j < i => s[j] = 0
<1> DEFINE other == {i \in D : s[i] # 0}
           least == CHOOSE i \in other : \A j \in other : i <= j
<1>1. CASE other = {}
  BY <1>1 DEF FirstOther, Signs
<1>2. CASE other # {}
  <2>1. \E i \in other : \A j \in other : i <= j
    BY <1>2, LeastOf
  <2>2. least \in other /\ \A j \in other : least <= j
    BY <2>1
  <2>3. FirstOther(s) = s[least]
    BY <1>2 DEF FirstOther
  <2> HIDE DEF least
  <2>4. \A j \in D : j < least => s[j] = 0
    BY <2>2
  <2> QED
    BY <2>2, <2>3, <2>4
<1> QED
  BY <1>1, <1>2

(* If the comparisons agree at every place they agree at the first place   *)
(* where there is a difference.                                            *)
LEMMA FirstOthersAgree ==
  ASSUME NEW D \in SUBSET Nat, NEW r \in [D -> Signs], NEW s \in [D -> Signs], NEW t \in [D -> Signs],
         \A i \in D : Agree(r[i], s[i], t[i])
  PROVE  Agree(FirstOther(r), FirstOther(s), FirstOther(t))
<1> DEFINE x == FirstOther(r)
           y == FirstOther(s)
           z == FirstOther(t)
<1>0. x \in Signs /\ y \in Signs /\ z \in Signs
  BY FirstOtherIs
<1>1. ASSUME x = 0 PROVE z = y
  <2>1. \A i \in D : t[i] = s[i]
    BY <1>1, FirstOtherIs DEF Agree
  <2>2. t = [i \in D |-> t[i]] /\ s = [i \in D |-> s[i]]
    OBVIOUS
  <2>3. t = s
    BY <2>1, <2>2, Zenon
  <2> QED
    BY <2>3
<1>2. ASSUME y = 0 PROVE z = x
  <2>1. \A i \in D : t[i] = r[i]
    BY <1>2, FirstOtherIs DEF Agree
  <2>2. t = [i \in D |-> t[i]] /\ r = [i \in D |-> r[i]]
    OBVIOUS
  <2>3. t = r
    BY <2>1, <2>2, Zenon
  <2> QED
    BY <2>3
<1>3. ASSUME x = y, x # 0 PROVE z = x
  <2>1. PICK i \in D : r[i] = x /\ \A j \in D : j < i => r[j] = 0
    BY <1>3, FirstOtherIs
  <2>2. PICK k \in D : s[k] = y /\ \A j \in D : j < k => s[j] = 0
    BY <1>3, FirstOtherIs
  <2>3. PICK m \in D : m <= i /\ m <= k /\ (m = i \/ m = k)
    BY <2>1, <2>2
  <2>4. t[m] = x /\ \A j \in D : j < m => t[j] = 0
    BY <1>3, <2>1, <2>2, <2>3 DEF Agree
  <2>5. z # 0
    BY <1>3, <2>4, FirstOtherIs
  <2>6. PICK n \in D : t[n] = z /\ \A j \in D : j < n => t[j] = 0
    BY <2>5, FirstOtherIs
  <2>7. n = m
    BY <1>3, <2>4, <2>5, <2>6
  <2> QED
    BY <2>4, <2>6, <2>7
<1> HIDE DEF x, y, z
<1>4. Agree(x, y, z)
  BY <1>0, <1>1, <1>2, <1>3 DEF Agree
<1> QED
  BY <1>4 DEF x, y, z

-----------------------------------------------------------------------------
(* Strings.                                                                *)
LEMMA FirstDifference ==
  ASSUME NEW a \in Seq(Nat), NEW b \in Seq(Nat), \E i \in DOMAIN a \cap DOMAIN b : a[i] # b[i]
  PROVE  \E i \in DOMAIN a \cap DOMAIN b : a[i] # b[i] /\ \A j \in 1..(i - 1) : a[j] = b[j]
<1> DEFINE other == {i \in DOMAIN a \cap DOMAIN b : a[i] # b[i]}
<1>1. other \in SUBSET Nat /\ other # {}
  OBVIOUS
<1>2. PICK m \in other : \A k \in other : m <= k
  BY <1>1, LeastOf
<1>3. DOMAIN a = 1..Len(a) /\ DOMAIN b = 1..Len(b) /\ Len(a) \in Nat /\ Len(b) \in Nat
  OBVIOUS
<1>4. ASSUME NEW j \in 1..(m - 1) PROVE a[j] = b[j]
  <2>1. j \in DOMAIN a \cap DOMAIN b
    BY <1>3
  <2>2. j \notin other
    BY <1>2, <1>1
  <2> QED
    BY <2>1, <2>2
<1> QED
  BY <1>2, <1>4

(* Two strings are equal or one of them is spelt before the other.         *)
LEMMA SpeltApart ==
  ASSUME NEW a \in Seq(Nat), NEW b \in Seq(Nat)
  PROVE  /\ a # b => SpeltBefore(a, b) \/ SpeltBefore(b, a)
         /\ ~ (SpeltBefore(a, b) /\ SpeltBefore(b, a))
         /\ a = b => ~ SpeltBefore(a, b)
<1>1. ASSUME a # b PROVE SpeltBefore(a, b) \/ SpeltBefore(b, a)
  <2>1. CASE \E i \in DOMAIN a \cap DOMAIN b : a[i] # b[i]
    <3>1. PICK i \in DOMAIN a \cap DOMAIN b : a[i] # b[i] /\ \A j \in 1..(i - 1) : a[j] = b[j]
      BY <2>1, FirstDifference
    <3>2. a[i] < b[i] \/ b[i] < a[i]
      BY <3>1
    <3> QED
      BY <3>1, <3>2 DEF SpeltBefore
  <2>2. CASE \A i \in DOMAIN a \cap DOMAIN b : a[i] = b[i]
    <3>1. Len(a) # Len(b)
      BY <1>1, <2>2
    <3>2. CASE Len(a) < Len(b)
      BY <2>2, <3>2 DEF SpeltBefore
    <3>3. CASE Len(b) < Len(a)
      BY <2>2, <3>3 DEF SpeltBefore
    <3> QED
      BY <3>1, <3>2, <3>3
  <2> QED
    BY <2>1, <2>2
<1>2. ASSUME SpeltBefore(a, b), SpeltBefore(b, a) PROVE FALSE
  <2>1. ASSUME NEW x \in Seq(Nat), NEW y \in Seq(Nat), SpeltBefore(y, x),
               NEW i \in DOMAIN x \cap DOMAIN y, x[i] < y[i], \A j \in 1..(i - 1) : x[j] = y[j]
        PROVE  FALSE
    <3>1. CASE Len(y) < Len(x) /\ \A j \in DOMAIN y : y[j] = x[j]
      BY <2>1, <3>1
    <3>2. CASE \E k \in DOMAIN x \cap DOMAIN y : y[k] < x[k] /\ \A j \in 1..(k - 1) : y[j] = x[j]
      <4>1. PICK k \in DOMAIN x \cap DOMAIN y : y[k] < x[k] /\ \A j \in 1..(k - 1) : y[j] = x[j]
        BY <3>2
      <4>2. /\ i \in Nat /\ k \in Nat /\ 1 <= i /\ 1 <= k
            /\ x[i] \in Nat /\ y[i] \in Nat /\ x[k] \in Nat /\ y[k] \in Nat
        OBVIOUS
      <4>3. CASE i < k
        BY <2>1, <4>1, <4>2, <4>3
      <4>4. CASE k < i
        BY <2>1, <4>1, <4>2, <4>4
      <4>5. CASE i = k
        BY <2>1, <4>1, <4>2, <4>5
      <4> QED
        BY <4>2, <4>3, <4>4, <4>5
    <3> QED
      BY <2>1, <3>1, <3>2 DEF SpeltBefore
  <2>2. CASE \E i \in DOMAIN a \cap DOMAIN b : a[i] < b[i] /\ \A j \in 1..(i - 1) : a[j] = b[j]
    BY <1>2, <2>1, <2>2
  <2>3. CASE \E i \in DOMAIN a \cap DOMAIN b : b[i] < a[i] /\ \A j \in 1..(i - 1) : b[j] = a[j]
    BY <1>2, <2>1, <2>3
  <2>4. CASE Len(a) < Len(b) /\ Len(b) < Len(a)
    BY <2>4
  <2> QED
    BY <1>2, <2>2, <2>3, <2>4 DEF SpeltBefore
<1>3. ASSUME a = b PROVE ~ SpeltBefore(a, b)
  BY <1>3 DEF SpeltBefore
<1> QED
  BY <1>1, <1>2, <1>3

(* Spelling is transitive.                                                 *)
LEMMA SpeltOn ==
  ASSUME NEW a \in Seq(Nat), NEW b \in Seq(Nat), NEW c \in Seq(Nat),
         SpeltBefore(a, b), SpeltBefore(b, c)
  PROVE  SpeltBefore(a, c)
<1>0. /\ DOMAIN a = 1..Len(a) /\ DOMAIN b = 1..Len(b) /\ DOMAIN c = 1..Len(c)
      /\ Len(a) \in Nat /\ Len(b) \in Nat /\ Len(c) \in Nat
      /\ \A i \in DOMAIN a : a[i] \in Nat
      /\ \A i \in DOMAIN b : b[i] \in Nat
      /\ \A i \in DOMAIN c : c[i] \in Nat
  OBVIOUS
<1>1. ASSUME NEW i \in DOMAIN a \cap DOMAIN b, a[i] < b[i], \A j \in 1..(i - 1) : a[j] = b[j],
             NEW k \in DOMAIN b \cap DOMAIN c, b[k] < c[k], \A j \in 1..(k - 1) : b[j] = c[j]
      PROVE  SpeltBefore(a, c)
  <2> DEFINE m == IF i <= k THEN i ELSE k
  <2>1. /\ i \in Nat /\ k \in Nat /\ 1 <= i /\ 1 <= k
        /\ i <= Len(a) /\ i <= Len(b) /\ k <= Len(b) /\ k <= Len(c)
    BY <1>0
  <2>2. m \in DOMAIN a /\ m \in DOMAIN b /\ m \in DOMAIN c
    BY <1>0, <2>1
  <2>3. a[m] < c[m]
    <3>1. CASE i < k
      BY <1>0, <1>1, <2>1, <2>2, <3>1
    <3>2. CASE k < i
      BY <1>0, <1>1, <2>1, <2>2, <3>2
    <3>3. CASE i = k
      BY <1>0, <1>1, <2>1, <2>2, <3>3
    <3> QED
      BY <2>1, <3>1, <3>2, <3>3
  <2>4. \A j \in 1..(m - 1) : a[j] = c[j]
    BY <1>1, <2>1
  <2> HIDE DEF m
  <2> QED
    BY <2>2, <2>3, <2>4 DEF SpeltBefore
<1>2. ASSUME NEW i \in DOMAIN a \cap DOMAIN b, a[i] < b[i], \A j \in 1..(i - 1) : a[j] = b[j],
             Len(b) < Len(c), \A j \in DOMAIN b : b[j] = c[j]
      PROVE  SpeltBefore(a, c)
  <2>1. i \in DOMAIN c /\ a[i] < c[i]
    BY <1>0, <1>2
  <2>2. \A j \in 1..(i - 1) : j \in DOMAIN b
    BY <1>0
  <2>3. \A j \in 1..(i - 1) : a[j] = c[j]
    BY <1>2, <2>2
  <2> QED
    BY <2>1, <2>3 DEF SpeltBefore
<1>3. ASSUME Len(a) < Len(b), \A j \in DOMAIN a : a[j] = b[j],
             NEW k \in DOMAIN b \cap DOMAIN c, b[k] < c[k], \A j \in 1..(k - 1) : b[j] = c[j]
      PROVE  SpeltBefore(a, c)
  <2>1. CASE k \in DOMAIN a
    <3>1. a[k] < c[k]
      BY <1>3, <2>1
    <3>2. \A j \in 1..(k - 1) : j \in DOMAIN a
      BY <1>0, <2>1
    <3>3. \A j \in 1..(k - 1) : a[j] = c[j]
      BY <1>3, <3>2
    <3> QED
      BY <2>1, <3>1, <3>3 DEF SpeltBefore
  <2>2. CASE k \notin DOMAIN a
    <3>1. Len(a) < Len(c) /\ \A j \in DOMAIN a : j \in 1..(k - 1)
      BY <1>0, <1>3, <2>2
    <3>2. \A j \in DOMAIN a : a[j] = c[j]
      BY <1>3, <3>1
    <3> QED
      BY <3>1, <3>2 DEF SpeltBefore
  <2> QED
    BY <2>1, <2>2
<1>4. ASSUME Len(a) < Len(b), \A j \in DOMAIN a : a[j] = b[j],
             Len(b) < Len(c), \A j \in DOMAIN b : b[j] = c[j]
      PROVE  SpeltBefore(a, c)
  <2>1. Len(a) < Len(c)
    BY <1>0, <1>4
  <2>2. \A j \in DOMAIN a : j \in DOMAIN b
    BY <1>0, <1>4
  <2>3. \A j \in DOMAIN a : a[j] = c[j]
    BY <1>4, <2>2, Zenon
  <2> QED
    BY <2>1, <2>3 DEF SpeltBefore
<1> QED
  BY <1>1, <1>2, <1>3, <1>4 DEF SpeltBefore

(* So it is a total order.                                                 *)
LEMMA SpellingsAgree ==
  ASSUME NEW a \in Seq(Nat), NEW b \in Seq(Nat), NEW c \in Seq(Nat)
  PROVE  /\ Agree(AsSpelt(a, b), AsSpelt(b, c), AsSpelt(a, c))
         /\ AsSpelt(a, b) = 0 <=> a = b
<1>1. \A x \in Seq(Nat), y \in Seq(Nat) :
        /\ AsSpelt(x, y) \in Signs
        /\ AsSpelt(x, y) = 0 <=> x = y
        /\ AsSpelt(x, y) = -1 <=> SpeltBefore(x, y)
        /\ AsSpelt(x, y) = 1 <=> SpeltBefore(y, x)
  BY SpeltApart DEF AsSpelt, Signs
<1>2. ASSUME AsSpelt(a, b) = AsSpelt(b, c) PROVE AsSpelt(a, c) = AsSpelt(a, b)
  <2>1. CASE SpeltBefore(a, b)
    BY <1>1, <1>2, <2>1, SpeltOn
  <2>2. CASE SpeltBefore(b, a)
    BY <1>1, <1>2, <2>2, SpeltOn
  <2>3. CASE a = b
    BY <1>2, <2>3
  <2> QED
    BY <2>1, <2>2, <2>3, SpeltApart
<1> QED
  BY <1>1, <1>2 DEF Agree

-----------------------------------------------------------------------------
(* One comparison after another.                                           *)
LEMMA ThenAgree ==
  ASSUME NEW x, NEW y, NEW z, Agree(x, y, z), NEW p, NEW q, NEW r, Agree(p, q, r)
  PROVE  Agree(IF x # 0 THEN x ELSE p, IF y # 0 THEN y ELSE q, IF z # 0 THEN z ELSE r)
BY DEF Agree, Signs

ByLength(a, b) == IF Len(a) = Len(b) THEN 0 ELSE IF Len(a) < Len(b) THEN -1 ELSE 1

LEMMA LengthsAgree ==
  ASSUME NEW S, NEW a \in Seq(S), NEW b \in Seq(S), NEW c \in Seq(S)
  PROVE  Agree(ByLength(a, b), ByLength(b, c), ByLength(a, c))
<1>1. Len(a) \in Nat /\ Len(b) \in Nat /\ Len(c) \in Nat
  OBVIOUS
<1> QED
  BY <1>1 DEF Agree, Signs, ByLength

(* Numbers are ordered by length and then by spelling.                     *)
LEMMA NumbersAgree ==
  ASSUME NEW a \in Seq(Nat), NEW b \in Seq(Nat), NEW c \in Seq(Nat)
  PROVE  /\ Agree(CompareNumericIdentifiers(a, b), CompareNumericIdentifiers(b, c), CompareNumericIdentifiers(a, c))
         /\ CompareNumericIdentifiers(a, b) = 0 <=> a = b
<1>1. \A x \in Seq(Nat), y \in Seq(Nat) :
        CompareNumericIdentifiers(x, y) = IF ByLength(x, y) # 0 THEN ByLength(x, y) ELSE AsSpelt(x, y)
  BY DEF CompareNumericIdentifiers, ByLength
<1>2. CompareNumericIdentifiers(a, b) = 0 <=> a = b
  BY SpellingsAgree DEF CompareNumericIdentifiers
<1>3. /\ Agree(ByLength(a, b), ByLength(b, c), ByLength(a, c))
      /\ Agree(AsSpelt(a, b), AsSpelt(b, c), AsSpelt(a, c))
  BY LengthsAgree, SpellingsAgree
<1>4. Agree(IF ByLength(a, b) # 0 THEN ByLength(a, b) ELSE AsSpelt(a, b),
            IF ByLength(b, c) # 0 THEN ByLength(b, c) ELSE AsSpelt(b, c),
            IF ByLength(a, c) # 0 THEN ByLength(a, c) ELSE AsSpelt(a, c))
  BY <1>3, ThenAgree
<1> QED
  BY <1>1, <1>2, <1>4

(* Numbers come before the other identifiers.                              *)
LEMMA IdentifiersAgree ==
  ASSUME NEW a \in Seq(Nat), NEW b \in Seq(Nat), NEW c \in Seq(Nat)
  PROVE  /\ Agree(CompareIdentifiers(a, b), CompareIdentifiers(b, c), CompareIdentifiers(a, c))
         /\ CompareIdentifiers(a, b) = 0 <=> a = b
<1>1. CompareIdentifiers(a, b) = 0 <=> a = b
  BY NumbersAgree, SpellingsAgree DEF CompareIdentifiers
<1>2. \A x \in Seq(Nat), y \in Seq(Nat) :
        /\ Numeric(x) /\ Numeric(y) => CompareIdentifiers(x, y) = CompareNumericIdentifiers(x, y)
        /\ Numeric(x) /\ ~ Numeric(y) => CompareIdentifiers(x, y) = -1
        /\ ~ Numeric(x) /\ Numeric(y) => CompareIdentifiers(x, y) = 1
        /\ ~ Numeric(x) /\ ~ Numeric(y) => CompareIdentifiers(x, y) = AsSpelt(x, y)
  BY DEF CompareIdentifiers, Numeric
<1>3. /\ \A x \in Seq(Nat), y \in Seq(Nat) : CompareNumericIdentifiers(x, y) \in Signs
      /\ \A x \in Seq(Nat), y \in Seq(Nat) : AsSpelt(x, y) \in Signs
  BY NumbersAgree, SpellingsAgree DEF Agree
<1>4. CASE Numeric(a) /\ Numeric(b) /\ Numeric(c)
  BY <1>1, <1>2, <1>4, NumbersAgree
<1>5. CASE ~ Numeric(a) /\ ~ Numeric(b) /\ ~ Numeric(c)
  BY <1>1, <1>2, <1>5, SpellingsAgree
<1>6. CASE /\ Numeric(a) \/ Numeric(b) \/ Numeric(c)
           /\ ~ (Numeric(a) /\ Numeric(b) /\ Numeric(c))
  <2>1. /\ CompareIdentifiers(a, b) \in Signs /\ CompareIdentifiers(b, c) \in Signs
        /\ CompareIdentifiers(a, c) \in Signs
    BY <1>2, <1>3 DEF Signs
  <2>2. CompareIdentifiers(b, c) = 0 <=> b = c
    BY NumbersAgree, SpellingsAgree DEF CompareIdentifiers
  <2>3. CompareIdentifiers(a, b) = CompareIdentifiers(b, c) => CompareIdentifiers(a, c) = CompareIdentifiers(a, b)
    BY <1>1, <1>2, <1>6
  <2> QED
    BY <1>1, <2>1, <2>2, <2>3 DEF Agree
<1> QED
  BY <1>4, <1>5, <1>6

-----------------------------------------------------------------------------
(* The first place with a difference decides.                              *)
LEMMA FirstOtherAt ==
  ASSUME NEW D \in SUBSET Nat, NEW s \in [D -> Signs], NEW i \in D,
         s[i] # 0, \A j \in D : j < i => s[j] = 0
  PROVE  FirstOther(s) = s[i]
<1>1. FirstOther(s) # 0
  BY FirstOtherIs
<1>2. PICK n \in D : s[n] = FirstOther(s) /\ \A j \in D : j < n => s[j] = 0
  BY <1>1, FirstOtherIs
<1>3. n = i
  BY <1>1, <1>2
<1> QED
  BY <1>2, <1>3

(* Prereleases of at most n identifiers, the missing ones before all.      *)
Padded(a, b, n) ==
  [i \in 1..n |-> IF i \in DOMAIN a /\ i \in DOMAIN b THEN CompareIdentifiers(a[i], b[i])
                  ELSE IF i \in DOMAIN b THEN -1
                  ELSE IF i \in DOMAIN a THEN 1 ELSE 0]

(* Comparing prereleases is comparing them padded.                         *)
LEMMA PrereleasesPadded ==
  ASSUME NEW a \in Seq(Seq(Nat)), NEW b \in Seq(Seq(Nat)), NEW n \in Nat,
         Len(a) <= n, Len(b) <= n, a # << >>, b # << >>
  PROVE  /\ Padded(a, b, n) \in [1..n -> Signs]
         /\ ComparePrerelease(a, b) = FirstOther(Padded(a, b, n))
<1> DEFINE D == DOMAIN a \cap DOMAIN b
           s == [i \in D |-> CompareIdentifiers(a[i], b[i])]
           p == Padded(a, b, n)
<1>0. /\ DOMAIN a = 1..Len(a) /\ DOMAIN b = 1..Len(b) /\ Len(a) \in Nat /\ Len(b) \in Nat
      /\ n \in Nat /\ Len(a) <= n /\ Len(b) <= n /\ D \in SUBSET Nat /\ D \in SUBSET (1..n) /\ 1..n \in SUBSET Nat
  OBVIOUS
<1>L. Len(a) \in Nat /\ Len(b) \in Nat
  OBVIOUS
<1>D. /\ \A i \in 1..n : i \in DOMAIN a <=> i <= Len(a)
      /\ \A i \in 1..n : i \in DOMAIN b <=> i <= Len(b)
      /\ \A i \in 1..n : i \in D <=> i <= Len(a) /\ i <= Len(b)
  BY <1>0
<1>1. \A i \in D : CompareIdentifiers(a[i], b[i]) \in Signs
  BY IdentifiersAgree DEF Agree
<1>2. s \in [D -> Signs] /\ p \in [1..n -> Signs]
  BY <1>1 DEF Padded, Signs
<1>3. ComparePrerelease(a, b) = IF FirstOther(s) # 0 THEN FirstOther(s) ELSE ByLength(a, b)
  BY DEF ComparePrerelease, ByLength
<1>4. \A i \in D : p[i] = s[i]
  BY <1>0 DEF Padded
<1>5. /\ \A i \in 1..n : i \in DOMAIN b /\ i \notin DOMAIN a => p[i] = -1
      /\ \A i \in 1..n : i \in DOMAIN a /\ i \notin DOMAIN b => p[i] = 1
      /\ \A i \in 1..n : i \notin DOMAIN a /\ i \notin DOMAIN b => p[i] = 0
  BY DEF Padded
<1> HIDE DEF s, p, D
<1>6. CASE FirstOther(s) # 0
  <2>1. PICK i \in D : s[i] = FirstOther(s) /\ \A j \in D : j < i => s[j] = 0
    BY <1>0, <1>2, <1>6, FirstOtherIs
  <2>2. i \in 1..n /\ p[i] # 0 /\ p[i] = s[i]
    BY <1>0, <1>4, <1>6, <2>1
  <2>3. \A j \in 1..n : j < i => p[j] = 0
    <3>1. \A j \in 1..n : j < i => j \in D
      BY <1>0, <1>D
    <3> QED
      BY <1>4, <2>1, <3>1
  <2>4. FirstOther(p) = p[i]
    BY <1>0, <1>2, <2>2, <2>3, FirstOtherAt
  <2> QED
    BY <1>2, <1>3, <1>6, <2>1, <2>2, <2>4 DEF p
<1>7. CASE FirstOther(s) = 0
  <2>1. \A i \in D : p[i] = 0
    <3>1. D \in SUBSET Nat /\ s \in [D -> Signs]
      BY <1>0, <1>2
    <3>2. \A i \in D : s[i] = 0
      BY <1>7, <3>1, FirstOtherIs
    <3> QED
      BY <1>4, <3>2
  <2>2. CASE Len(a) = Len(b)
    <3>1. \A i \in 1..n : p[i] = 0
      BY <1>0, <1>5, <1>D, <2>1, <2>2
    <3>2. FirstOther(p) = 0
      BY <1>0, <1>2, <3>1, FirstOtherIs
    <3> QED
      BY <1>2, <1>3, <1>7, <2>2, <3>2 DEF p, ByLength
  <2>3. CASE Len(a) < Len(b)
    <3> DEFINE i == Len(a) + 1
    <3>1. i \in 1..n /\ i > Len(a) /\ i <= Len(b)
      BY <1>0, <2>3
    <3>2. p[i] = -1
      BY <1>5, <1>D, <1>0, <3>1
    <3>3. \A j \in 1..n : j < i => p[j] = 0
      BY <1>0, <1>D, <2>1, <2>3
    <3> HIDE DEF i
    <3>4. FirstOther(p) = -1
      <4>1. p[i] # 0 /\ 1..n \in SUBSET Nat
        BY <1>0, <3>2
      <4>2. FirstOther(p) = p[i]
        BY <1>2, <3>1, <3>3, <4>1, FirstOtherAt
      <4> QED
        BY <3>2, <4>2
    <3>5. ByLength(a, b) = -1
      BY <1>L, <2>3 DEF ByLength
    <3> QED
      BY <1>2, <1>3, <1>7, <3>4, <3>5 DEF p
  <2>4. CASE Len(b) < Len(a)
    <3> DEFINE i == Len(b) + 1
    <3>1. i \in 1..n /\ i > Len(b) /\ i <= Len(a)
      BY <1>0, <2>4
    <3>2. p[i] = 1
      BY <1>5, <1>D, <1>0, <3>1
    <3>3. \A j \in 1..n : j < i => p[j] = 0
      BY <1>0, <1>D, <2>1, <2>4
    <3> HIDE DEF i
    <3>4. FirstOther(p) = 1
      <4>1. p[i] # 0 /\ 1..n \in SUBSET Nat
        BY <1>0, <3>2
      <4>2. FirstOther(p) = p[i]
        BY <1>2, <3>1, <3>3, <4>1, FirstOtherAt
      <4> QED
        BY <3>2, <4>2
    <3>5. ByLength(a, b) = 1
      BY <1>L, <2>4 DEF ByLength
    <3> QED
      BY <1>2, <1>3, <1>7, <3>4, <3>5 DEF p
  <2>5. Len(a) = Len(b) \/ Len(a) < Len(b) \/ Len(b) < Len(a)
    BY <1>L
  <2> QED
    BY <2>2, <2>3, <2>4, <2>5
<1> QED
  BY <1>6, <1>7

(* Prereleases are totally ordered, the empty one last.                    *)
LEMMA PrereleasesAgree ==
  ASSUME NEW a \in Seq(Seq(Nat)), NEW b \in Seq(Seq(Nat)), NEW c \in Seq(Seq(Nat))
  PROVE  /\ Agree(ComparePrerelease(a, b), ComparePrerelease(b, c), ComparePrerelease(a, c))
         /\ ComparePrerelease(a, b) = 0 <=> a = b
<1> DEFINE M(x, y) == IF x >= y THEN x ELSE y
           n == M(Len(a), M(Len(b), Len(c)))
<1>1. n \in Nat /\ Len(a) <= n /\ Len(b) <= n /\ Len(c) <= n
  OBVIOUS
<1> HIDE DEF n
<1>2. ASSUME a # << >>, b # << >>, c # << >>
      PROVE  Agree(ComparePrerelease(a, b), ComparePrerelease(b, c), ComparePrerelease(a, c))
  <2>1. \A i \in 1..n : Agree(Padded(a, b, n)[i], Padded(b, c, n)[i], Padded(a, c, n)[i])
    <3> SUFFICES ASSUME NEW i \in 1..n
                 PROVE  Agree(Padded(a, b, n)[i], Padded(b, c, n)[i], Padded(a, c, n)[i])
      OBVIOUS
    <3>1. CASE i \in DOMAIN a /\ i \in DOMAIN b /\ i \in DOMAIN c
      <4>1. Agree(CompareIdentifiers(a[i], b[i]), CompareIdentifiers(b[i], c[i]), CompareIdentifiers(a[i], c[i]))
        BY <3>1, IdentifiersAgree
      <4> QED
        BY <3>1, <4>1 DEF Padded
    <3>2. CASE ~ (i \in DOMAIN a /\ i \in DOMAIN b /\ i \in DOMAIN c)
      <4>1. /\ i \in DOMAIN a /\ i \in DOMAIN b => CompareIdentifiers(a[i], b[i]) \in Signs
            /\ i \in DOMAIN b /\ i \in DOMAIN c => CompareIdentifiers(b[i], c[i]) \in Signs
            /\ i \in DOMAIN a /\ i \in DOMAIN c => CompareIdentifiers(a[i], c[i]) \in Signs
        BY IdentifiersAgree DEF Agree
      <4> QED
        BY <3>2, <4>1 DEF Padded, Agree, Signs
    <3> QED
      BY <3>1, <3>2
  <2>2. /\ Padded(a, b, n) \in [1..n -> Signs] /\ ComparePrerelease(a, b) = FirstOther(Padded(a, b, n))
        /\ Padded(b, c, n) \in [1..n -> Signs] /\ ComparePrerelease(b, c) = FirstOther(Padded(b, c, n))
        /\ Padded(a, c, n) \in [1..n -> Signs] /\ ComparePrerelease(a, c) = FirstOther(Padded(a, c, n))
    BY <1>1, <1>2, PrereleasesPadded
  <2>3. 1..n \in SUBSET Nat
    BY <1>1
  <2> QED
    BY <2>1, <2>2, <2>3, FirstOthersAgree
<1>3. \A x \in Seq(Seq(Nat)), y \in Seq(Seq(Nat)) :
        /\ x = << >> /\ y = << >> => ComparePrerelease(x, y) = 0
        /\ x = << >> /\ y # << >> => ComparePrerelease(x, y) = 1
        /\ x # << >> /\ y = << >> => ComparePrerelease(x, y) = -1
  BY DEF ComparePrerelease
<1>4. ASSUME NEW x \in Seq(Seq(Nat)), NEW y \in Seq(Seq(Nat)), x # << >>, y # << >>
      PROVE  /\ ComparePrerelease(x, y) \in Signs
             /\ ComparePrerelease(x, y) = 0 <=> x = y
  <2> DEFINE m == M(Len(x), Len(y))
  <2>1. m \in Nat /\ Len(x) <= m /\ Len(y) <= m /\ 1..m \in SUBSET Nat
    OBVIOUS
  <2> HIDE DEF m
  <2>2. Padded(x, y, m) \in [1..m -> Signs] /\ ComparePrerelease(x, y) = FirstOther(Padded(x, y, m))
    BY <1>4, <2>1, PrereleasesPadded
  <2>3. /\ ComparePrerelease(x, y) \in Signs
        /\ ComparePrerelease(x, y) = 0 <=> \A i \in 1..m : Padded(x, y, m)[i] = 0
    BY <2>1, <2>2, FirstOtherIs
  <2>4. ASSUME \A i \in 1..m : Padded(x, y, m)[i] = 0 PROVE x = y
    <3>1. \A i \in 1..m : i \in DOMAIN x <=> i \in DOMAIN y
      BY <2>4 DEF Padded
    <3>2. DOMAIN x = 1..Len(x) /\ DOMAIN y = 1..Len(y) /\ Len(x) \in Nat /\ Len(y) \in Nat
      OBVIOUS
    <3>3. Len(x) = Len(y)
      <4>1. CASE Len(x) < Len(y)
        <5>1. Len(y) \in 1..m /\ Len(y) \in DOMAIN y /\ Len(y) \notin DOMAIN x
          BY <2>1, <3>2, <4>1
        <5> QED
          BY <3>1, <5>1
      <4>2. CASE Len(y) < Len(x)
        <5>1. Len(x) \in 1..m /\ Len(x) \in DOMAIN x /\ Len(x) \notin DOMAIN y
          BY <2>1, <3>2, <4>2
        <5> QED
          BY <3>1, <5>1
      <4> QED
        <5>1. Len(x) \in Nat /\ Len(y) \in Nat
          OBVIOUS
        <5>2. Len(x) = Len(y) \/ Len(x) < Len(y) \/ Len(y) < Len(x)
          BY <5>1
        <5> QED
          BY <4>1, <4>2, <5>2
    <3>4. \A i \in DOMAIN x : x[i] = y[i]
      <4> SUFFICES ASSUME NEW i \in DOMAIN x PROVE x[i] = y[i]
        OBVIOUS
      <4>1. i \in 1..m /\ i \in DOMAIN y
        BY <2>1, <3>2, <3>3
      <4>2. CompareIdentifiers(x[i], y[i]) = 0
        BY <2>4, <4>1 DEF Padded
      <4>3. x[i] \in Seq(Nat) /\ y[i] \in Seq(Nat)
        BY <4>1
      <4> QED
        BY <4>2, <4>3, IdentifiersAgree
    <3>5. x = [i \in 1..Len(x) |-> x[i]] /\ y = [i \in 1..Len(y) |-> y[i]]
      OBVIOUS
    <3>6. [i \in 1..Len(x) |-> x[i]] = [i \in 1..Len(y) |-> y[i]]
      BY <3>2, <3>3, <3>4
    <3> QED
      BY <3>5, <3>6, Zenon
  <2>5. ASSUME x = y PROVE \A i \in 1..m : Padded(x, y, m)[i] = 0
    <3>1. \A i \in DOMAIN x : CompareIdentifiers(x[i], x[i]) = 0
      BY IdentifiersAgree
    <3> QED
      BY <2>5, <3>1 DEF Padded
  <2> QED
    BY <2>3, <2>4, <2>5
<1>5. ComparePrerelease(a, b) = 0 <=> a = b
  BY <1>3, <1>4
<1>6. CASE a = << >> \/ b = << >> \/ c = << >>
  <2>1. /\ ComparePrerelease(a, b) \in Signs /\ ComparePrerelease(b, c) \in Signs
        /\ ComparePrerelease(a, c) \in Signs
    BY <1>3, <1>4 DEF Signs
  <2>2. ComparePrerelease(b, c) = 0 <=> b = c
    BY <1>3, <1>4
  <2>3. ComparePrerelease(a, b) = ComparePrerelease(b, c) => ComparePrerelease(a, c) = ComparePrerelease(a, b)
    BY <1>3, <1>5, <1>6, <2>2
  <2> QED
    BY <1>5, <2>1, <2>2, <2>3 DEF Agree
<1> QED
  BY <1>2, <1>5, <1>6

(* So are the three numbers of a version.                                  *)
CompareCores(x, y) == FirstOther([i \in 1..3 |-> CompareNumericIdentifiers(x[i], y[i])])

LEMMA CoresAgree ==
  ASSUME NEW a \in [1..3 -> Seq(Nat)], NEW b \in [1..3 -> Seq(Nat)], NEW c \in [1..3 -> Seq(Nat)]
  PROVE  /\ Agree(CompareCores(a, b), CompareCores(b, c), CompareCores(a, c))
         /\ CompareCores(a, b) = 0 <=> a = b
<1> DEFINE F(x, y) == [i \in 1..3 |-> CompareNumericIdentifiers(x[i], y[i])]
<1>1. ASSUME NEW i \in 1..3
      PROVE  /\ Agree(F(a, b)[i], F(b, c)[i], F(a, c)[i])
             /\ F(a, b)[i] = 0 <=> a[i] = b[i]
  BY NumbersAgree
<1>2. 1..3 \in SUBSET Nat
  OBVIOUS
<1>3. F(a, b) \in [1..3 -> Signs] /\ F(b, c) \in [1..3 -> Signs] /\ F(a, c) \in [1..3 -> Signs]
  BY NumbersAgree DEF Agree
<1> HIDE DEF F
<1>4. Agree(FirstOther(F(a, b)), FirstOther(F(b, c)), FirstOther(F(a, c)))
  BY <1>1, <1>2, <1>3, FirstOthersAgree
<1>5. FirstOther(F(a, b)) = 0 <=> \A i \in 1..3 : a[i] = b[i]
  BY <1>1, <1>2, <1>3, FirstOtherIs
<1>6. (\A i \in 1..3 : a[i] = b[i]) <=> a = b
  <2>1. a = [i \in 1..3 |-> a[i]] /\ b = [i \in 1..3 |-> b[i]]
    OBVIOUS
  <2> QED
    BY <2>1, Zenon
<1> QED
  BY <1>4, <1>5, <1>6 DEF F, CompareCores

(* And so are versions, by one and then the other.                         *)
LEMMA VersionsAgree ==
  ASSUME NEW a \in ReleaseVersions, NEW b \in ReleaseVersions, NEW c \in ReleaseVersions
  PROVE  /\ Agree(CompareSemver(a, b), CompareSemver(b, c), CompareSemver(a, c))
         /\ CompareSemver(a, b) = 0 <=> a = b
<1> DEFINE Core(x, y) == CompareCores(x.core, y.core)
           Rest(x, y) == ComparePrerelease(x.prerelease, y.prerelease)
<1>1. \A v \in ReleaseVersions : v.core \in [1..3 -> Seq(Nat)] /\ v.prerelease \in Seq(Seq(Nat))
  BY DEF ReleaseVersions
<1>2. /\ Agree(Core(a, b), Core(b, c), Core(a, c))
      /\ Core(a, b) = 0 <=> a.core = b.core
  <2>1. /\ a.core \in [1..3 -> Seq(Nat)] /\ b.core \in [1..3 -> Seq(Nat)]
        /\ c.core \in [1..3 -> Seq(Nat)]
    BY <1>1
  <2> QED
    BY <2>1, CoresAgree
<1>3. /\ Agree(Rest(a, b), Rest(b, c), Rest(a, c))
      /\ Rest(a, b) = 0 <=> a.prerelease = b.prerelease
  BY <1>1, PrereleasesAgree
<1>4. \A x, y : CompareSemver(x, y) = IF Core(x, y) # 0 THEN Core(x, y) ELSE Rest(x, y)
  BY DEF CompareSemver, CompareCores
<1>5. a = b <=> a.core = b.core /\ a.prerelease = b.prerelease
  <2>1. ASSUME NEW C, NEW P, NEW v \in [core : C, prerelease : P], NEW w \in [core : C, prerelease : P],
               v.core = w.core, v.prerelease = w.prerelease
        PROVE  v = w
    BY <2>1
  <2> QED
    BY <2>1 DEF ReleaseVersions
<1> HIDE DEF Core, Rest
<1>6. Agree(IF Core(a, b) # 0 THEN Core(a, b) ELSE Rest(a, b),
            IF Core(b, c) # 0 THEN Core(b, c) ELSE Rest(b, c),
            IF Core(a, c) # 0 THEN Core(a, c) ELSE Rest(a, c))
  BY <1>2, <1>3, ThenAgree
<1> QED
  BY <1>2, <1>3, <1>4, <1>5, <1>6

(* compareSemver of scripts/update-contract.mjs is a total order of all    *)
(* versions, of any length: it is antisymmetric, tells apart what differs  *)
(* and is transitive, so no chain of updates leads back to a version that  *)
(* was left.                                                               *)
THEOREM VersionsTotallyOrdered ==
  ASSUME NEW a \in ReleaseVersions, NEW b \in ReleaseVersions, NEW c \in ReleaseVersions
  PROVE  TotallyOrdered(a, b, c)
<1>1. CompareSemver(a, b) = 0 <=> a = b
  BY VersionsAgree
<1>2. Agree(CompareSemver(a, b), CompareSemver(b, c), CompareSemver(a, c))
  BY VersionsAgree
<1>3. Agree(CompareSemver(a, b), CompareSemver(b, a), CompareSemver(a, a)) /\ CompareSemver(a, a) = 0
  BY VersionsAgree
<1> QED
  BY <1>1, <1>2, <1>3 DEF TotallyOrdered, Agree, Signs
=============================================================================
