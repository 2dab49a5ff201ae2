-------------------------- MODULE ArchitectureDelta --------------------------
(***************************************************************************)
(* The comparison of two architecture documents                            *)
(* (delta/architecture-delta.mjs): which of their items changed and how,   *)
(* and the picture that shows both, which is checked against the receipt   *)
(* before it is kept.                                                      *)
(*                                                                         *)
(* A document is [type, components, connections, boundaries, presentation, *)
(* locale, output, repository].  An item is a record with one value for    *)
(* each group of fields that the comparison tells apart.                   *)
(***************************************************************************)
EXTENDS Naturals, FiniteSets

CONSTANTS LowerCase,      \* of the URLs and revisions of repositories
          IdentityOf,     \* parseRepositoryRemote: what a URL names
          FullRevisions   \* forty hexadecimal digits
NoRepository == [url |-> "", revision |-> "", link |-> ""]

(* The groups of fields of each kind of item.  A component's brand and the *)
(* document's locale are in none.                                          *)
GroupsOf == [component |-> {"semantic", "evidence", "geometry"},
             connection |-> {"topology", "semantic", "geometry"},
             boundary |-> {"scope", "geometry"}]
IdentityClass == [component |-> "semantic", connection |-> "topology", boundary |-> "scope"]

NormalizeRepository(r) ==
  IF r = NoRepository THEN r ELSE [r EXCEPT !.url = LowerCase[@], !.revision = LowerCase[@]]

(* canonicalArchitecture: where a page is written is not part of it.       *)
CanonicalArchitecture(doc) ==
  [doc EXCEPT !.output = "", !.repository = NormalizeRepository(@)]

-----------------------------------------------------------------------------
(* compareArchitecture.                                                    *)
Ids(items) == {i.id : i \in items}
Stable(items) == "" \notin Ids(items) /\ Cardinality(Ids(items)) = Cardinality(items)
ItemOf(items, id) == CHOOSE i \in items : i.id = id

(* Mutant: a change of evidence is not one of the component's.             *)
ChangedAuthored(before, after, kind) ==
  {g \in GroupsOf[kind] \ {"evidence"} : before[g] # after[g]}

Changed(before, after, kind) == {g \in GroupsOf[kind] : before[g] # after[g]}

StatusFor(classes, kind) ==
  IF classes \cap {"topology", "semantic", "scope"} # {} THEN "changed"
  ELSE IF "evidence" \in classes THEN "evidence-changed"
  ELSE IF "geometry" \in classes
       THEN (CASE kind = "connection" -> "rerouted" [] kind = "component" -> "moved"
               [] kind = "boundary" -> "geometry-changed")
  ELSE "same"

CompareEntities(base, head, kind) ==
  LET Row(id) ==
        LET was == IF id \in Ids(base) THEN ItemOf(base, id) ELSE [label |-> ""]
            is == IF id \in Ids(head) THEN ItemOf(head, id) ELSE [label |-> ""]
            classes == IF id \in Ids(base) \cap Ids(head) THEN Changed(was, is, kind)
                       ELSE {IdentityClass[kind]}
        IN [kind |-> kind, id |-> id, classes |-> classes,
            status |-> IF id \notin Ids(base) THEN "added"
                       ELSE IF id \notin Ids(head) THEN "removed"
                       ELSE StatusFor(classes, kind),
            baseLabel |-> was.label, headLabel |-> is.label]
  IN {r \in {Row(id) : id \in Ids(base) \cup Ids(head)} : r.status # "same"}

Mismatch(base, head) ==
  LET b == NormalizeRepository(base.repository)
      h == NormalizeRepository(head.repository)
  IN NoRepository \notin {b, h} /\ IdentityOf[b.url] # IdentityOf[h.url]

Refusal(base, head) ==
  IF {base.type, head.type} # {"architecture"} THEN "delta/type-mismatch"
  ELSE IF ~ (Stable(base.components) /\ Stable(head.components)) THEN "delta/stable-id"
  ELSE IF Ids(base.components) \cap Ids(head.components) = {} THEN "delta/no-shared-component-id"
  ELSE IF ~ (Stable(base.connections) /\ Stable(head.connections)) THEN "delta/relationship-id"
  ELSE IF ~ (Stable(base.boundaries) /\ Stable(head.boundaries)) THEN "delta/boundary-key-ambiguous"
  ELSE IF Mismatch(base, head) THEN "delta/repository-mismatch"
  ELSE "none"

(* summaryFor: the statuses that are counted, for each kind.               *)
CountedStatuses ==
  [component |-> {"added", "changed", "evidence-changed", "removed", "moved"},
   connection |-> {"added", "changed", "removed", "rerouted"},
   boundary |-> {"added", "changed", "removed", "geometry-changed"}]
SummaryFor(rows) ==
  [k \in DOMAIN GroupsOf |-> [s \in CountedStatuses[k] |->
     Cardinality({r \in rows : r.kind = k /\ r.status = s})]]

CompareArchitecture(base, head, verified) ==
  LET rows == CompareEntities(base.components, head.components, "component")
                \cup CompareEntities(base.connections, head.connections, "connection")
                \cup CompareEntities(base.boundaries, head.boundaries, "boundary")
      b == NormalizeRepository(base.repository)
      h == NormalizeRepository(head.repository)
  IN [rows |-> rows, summary |-> SummaryFor(rows),
      presentationChanged |-> base.presentation # head.presentation,
      provenanceChanged |-> b # h,
      pinned |-> verified /\ NoRepository \notin {b, h}
                   /\ {b.revision, h.revision} \subseteq FullRevisions]

-----------------------------------------------------------------------------
(* The picture.  An element that carries the identity of a row is          *)
(* [tag, state, classes]; those of one row are drawn from the newer        *)
(* picture, from the older one, and as symbols.                            *)
El(tag, state, classes) == [tag |-> tag, state |-> state, classes |-> classes]

(* The elements of an item in one picture: a group, a path and the group   *)
(* of its label, a frame and the text of its label.                        *)
ElementsOf(kind, label, state, classes) ==
  CASE kind = "component" -> {El("g", state, classes)}
    [] kind = "connection" -> {El("path", state, classes)}
         \cup (IF label # "" THEN {El("g", state, classes)} ELSE {})
    [] kind = "boundary" -> {El("rect", state, classes), El("text", state, {})}

Symbol(state) == El("text", state, {})

(* buildDeltaSvg: which form of a row the older picture lends, if any.     *)
Phantom(row) ==
  IF \/ row.status = "removed"
     \/ row.kind = "connection" /\ "topology" \in row.classes /\ row.status # "added"
  THEN "removed"
  ELSE IF row.status = "added" THEN "none"
  ELSE IF row.kind = "boundary" THEN "moved-from"
  ELSE IF "geometry" \in row.classes THEN "moved-from" ELSE "none"

DrawnElements(row) ==
  LET old == Phantom(row) IN
  (IF row.status = "removed" THEN {} ELSE ElementsOf(row.kind, row.headLabel, row.status, row.classes))
  \cup (IF old = "none" THEN {} ELSE ElementsOf(row.kind, row.baseLabel, old, row.classes))
  \cup (IF row.kind = "connection"
        THEN (IF old = "none" THEN {} ELSE {Symbol(old)})
             \cup (IF row.status = "removed" THEN {}
                   ELSE {Symbol(IF "topology" \in row.classes THEN "added" ELSE row.status)})
        ELSE {})

(* expectedReviewTargetSignature: the forms a row is expected to have.     *)
ExpectedForms(row) ==
  LET Form(state, marker, label) == [state |-> state, marker |-> marker, label |-> label] IN
  CASE row.status = "added" -> {Form("added", "added", row.headLabel)}
    [] row.status = "removed" -> {Form("removed", "removed", row.baseLabel)}
    [] row.status \notin {"added", "removed"} /\ "topology" \in row.classes ->
         {Form("removed", "removed", row.baseLabel), Form("changed", "added", row.headLabel)}
    [] row.status \notin {"added", "removed"} /\ "topology" \notin row.classes /\ "geometry" \in row.classes ->
         {Form("moved-from", "moved-from", row.baseLabel), Form(row.status, row.status, row.headLabel)}
    [] OTHER -> {Form("changed", "changed", row.headLabel)}

(* reviewPrimaryStates: the states of the elements that stand for a row.   *)
PrimaryStates(row) ==
  {row.status} \cup
  (CASE row.kind = "component" -> IF "geometry" \in row.classes THEN {"moved-from"} ELSE {}
     [] row.kind = "connection" ->
          IF row.status = "changed" /\ "topology" \in row.classes THEN {"removed"}
          ELSE IF "geometry" \in row.classes THEN {"moved-from"} ELSE {}
     [] row.kind = "boundary" ->
          IF row.status \in {"changed", "geometry-changed"} THEN {"moved-from"} ELSE {})

ExpectedElements(row) ==
  IF row.kind = "connection"
  THEN UNION {ElementsOf("connection", f.label, f.state, row.classes) \cup {Symbol(f.marker)} :
                f \in ExpectedForms(row)}
  ELSE UNION {ElementsOf(row.kind, "", s, row.classes) : s \in PrimaryStates(row)}

(* validateArchitectureDeltaHtml, as far as it is about the rows.          *)
PrimaryTag == [component |-> "g", connection |-> "path", boundary |-> "rect"]
ArtifactValid(rows) ==
  \A r \in rows :
    LET primary == {e \in DrawnElements(r) : e.tag = PrimaryTag[r.kind]} IN
    /\ DrawnElements(r) = ExpectedElements(r)
    /\ {e.state : e \in primary} = PrimaryStates(r)
    /\ \A e \in primary : e.classes = r.classes

-----------------------------------------------------------------------------
(* The documents, without the two fields that no group has.                *)
Compared(doc) ==
  [CanonicalArchitecture(doc) EXCEPT !.locale = "",
     !.components = {[c EXCEPT !.brand = ""] : c \in @}]

Mirror(status) == CASE status = "added" -> "removed" [] status = "removed" -> "added" [] OTHER -> status

(* What is compared: items of the fields that the groups are of.  The      *)
(* label of a component or a connection is one of its semantic fields, and *)
(* that of a boundary is part of its identity.                             *)
Authored(doc) ==
  /\ doc = [type |-> doc.type, components |-> doc.components, connections |-> doc.connections,
            boundaries |-> doc.boundaries, presentation |-> doc.presentation,
            locale |-> doc.locale, output |-> doc.output, repository |-> doc.repository]
  /\ IsFiniteSet(doc.components) /\ IsFiniteSet(doc.connections) /\ IsFiniteSet(doc.boundaries)
  /\ \A c \in doc.components :
       c = [id |-> c.id, label |-> c.label, semantic |-> c.semantic, evidence |-> c.evidence,
            geometry |-> c.geometry, brand |-> c.brand]
  /\ \A c \in doc.connections :
       c = [id |-> c.id, label |-> c.label, topology |-> c.topology, semantic |-> c.semantic,
            geometry |-> c.geometry]
  /\ \A b \in doc.boundaries :
       b = [id |-> b.id, label |-> b.label, scope |-> b.scope, geometry |-> b.geometry]

LabelsInGroups(base, head) ==
  /\ \A c \in base.components, d \in head.components : c.semantic = d.semantic => c.label = d.label
  /\ \A c \in base.connections, d \in head.connections : c.semantic = d.semantic => c.label = d.label
  /\ \A b \in base.boundaries, d \in head.boundaries : b.id = d.id => b.label = d.label

(* A receipt without a change is one of equal documents; every row is      *)
(* counted once; the comparison the other way round has the same rows,     *)
(* added and removed exchanged; and the picture that is drawn from a       *)
(* receipt passes the check that is made of it, for every combination of   *)
(* changes.                                                                *)
DeltaTellsAll(base, head) ==
  LET receipt == CompareArchitecture(base, head, TRUE)
      back == CompareArchitecture(head, base, TRUE)
      Counted(k) == {r \in receipt.rows : r.kind = k /\ r.status \in CountedStatuses[k]}
  IN Refusal(base, head) = "none" =>
       /\ Refusal(head, base) = "none"
       /\ (receipt.rows = {} /\ ~ receipt.presentationChanged /\ ~ receipt.provenanceChanged)
            <=> Compared(base) = Compared(head)
       /\ receipt.rows = UNION {Counted(k) : k \in DOMAIN GroupsOf}
       /\ {<<r.kind, r.id, Mirror(r.status), r.classes>> : r \in receipt.rows}
            = {<<r.kind, r.id, r.status, r.classes>> : r \in back.rows}
       /\ ArtifactValid(receipt.rows)

(* The page says "No authored architecture changes." of documents that are *)
(* the same.                                                               *)
NoChangeMeansEqual(base, head) ==
  LET receipt == CompareArchitecture(base, head, TRUE) IN
  (/\ Refusal(base, head) = "none"
   /\ receipt.rows = {} /\ ~ receipt.presentationChanged /\ ~ receipt.provenanceChanged)
  => CanonicalArchitecture(base) = CanonicalArchitecture(head)
=============================================================================
