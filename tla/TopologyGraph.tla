--------------------------- MODULE TopologyGraph ---------------------------
(***************************************************************************)
(* The topology graph repository of one process: concurrent callers upsert *)
(* vertices and edges, each in three statements, and clean up what a run   *)
(* did not see, in a loop of a match and a delete.  The repository's lock  *)
(* of a source (topologySourceLocks) is shared by upserts and exclusive to *)
(* a cleanup; a caller holds it from Begin until it is idle again.         *)
(*                                                                         *)
(* Vertices and edges go through the same three statements and are both    *)
(* called objects here.  KeyOf gives the VID of an entity and the (source, *)
(* target, rank) of a relation; both are hashes and may collide within a   *)
(* source.  Properties other than synced_at are left out.  Each nGQL       *)
(* statement is atomic in the store.                                       *)
(***************************************************************************)
EXTENDS Integers, FiniteSets

CONSTANTS
  Entities, Relations,  \* identities that callers may write
  KeyOf,                \* VID of an entity, edge key of a relation
  SourceOf, TypeOf,     \* source_id; tag or edge type
  EndsOf,               \* the two entities of a relation
  Sources, Types, Keys,
  Callers,              \* goroutines of the process
  Times,                \* snapshot times
  BatchSize,            \* topologyCleanupBatchSize
  None

Objects == Entities \cup Relations

(* An identity, its edge and both its endpoints belong to one source, and  *)
(* an edge key determines the keys of its ends.                            *)
ASSUME GraphAssumption ==
  /\ KeyOf \in [Objects -> Keys]
  /\ SourceOf \in [Objects -> Sources]
  /\ TypeOf \in [Objects -> Types]
  /\ EndsOf \in [Relations -> SUBSET Entities]
  /\ \A e \in Entities, x \in Relations : KeyOf[e] # KeyOf[x]
  /\ \A o, q \in Objects : KeyOf[o] = KeyOf[q] =>
       SourceOf[o] = SourceOf[q] /\ TypeOf[o] = TypeOf[q]
  /\ \A x \in Relations : \A e \in EndsOf[x] : SourceOf[e] = SourceOf[x]
  /\ Times \subseteq Nat
  /\ BatchSize \in Nat \ {0}
  /\ None \notin Objects \cup Sources \cup Types

VARIABLES
  graph,  \* what is stored under each key: an identity and its synced_at
  op      \* the call each caller is in

vars == <<graph, op>>

Absent == [id |-> None, synced |-> 0]

(* "insert", "fetch", "update" are the statements of an upsert, "match"    *)
(* and "delete" those of a cleanup: the stage names the next one.          *)
Writing == {"insert", "fetch", "update"}
Cleaning == {"match", "delete"}

Idle == [stage |-> "idle", object |-> None, source |-> None, type |-> None,
         at |-> 0, batch |-> {}]

TypeOK ==
  /\ graph \in [Keys -> [id : Objects \cup {None}, synced : Nat]]
  /\ op \in [Callers -> [stage : {"idle"} \cup Writing \cup Cleaning,
                         object : Objects \cup {None},
                         source : Sources \cup {None}, type : Types \cup {None},
                         at : Nat, batch : SUBSET Keys]]
  /\ \A k \in Keys : graph[k].id # None => KeyOf[graph[k].id] = k
  /\ \A c \in Callers :
       /\ op[c].stage \in Writing =>
            op[c].object \in Objects /\ op[c].source = SourceOf[op[c].object]
       /\ op[c].stage \in Cleaning =>
            op[c].source \in Sources /\ op[c].type \in Types

-----------------------------------------------------------------------------
Present(k) == graph[k].id # None

AlwaysFree(c, s) == TRUE  \* mutant of WriteLockFree and CleanupLockFree

(* lockTopologySourceWrite and lockTopologySourceCleanup.                  *)
WriteLockFree(c, s) ==
  \A d \in Callers \ {c} : op[d].stage \in Cleaning => op[d].source # s

CleanupLockFree(c, s) ==
  \A d \in Callers \ {c} : op[d].stage # "idle" => op[d].source # s

GotoUnlocked(c, stage) ==      \* mutant of Goto: no deferred unlock
  op' = [op EXCEPT ![c] = [Idle EXCEPT !.stage = stage]]

Goto(c, stage) == op' = [op EXCEPT ![c].stage = stage]
Return(c) == op' = [op EXCEPT ![c] = Idle]

(* UpsertVertex or UpsertRelation takes the lock.                          *)
BeginUpsert(c, o, t) ==
  /\ op[c].stage = "idle"
  /\ WriteLockFree(c, SourceOf[o])
  /\ op' = [op EXCEPT ![c] = [Idle EXCEPT !.stage = "insert", !.object = o,
                                !.source = SourceOf[o], !.at = t]]
  /\ UNCHANGED graph

(* INSERT ... IF NOT EXISTS                                                *)
Insert(c) ==
  LET k == KeyOf[op[c].object] IN
  /\ op[c].stage = "insert"
  /\ graph' = IF Present(k) THEN graph
              ELSE [graph EXCEPT ![k] = [id |-> op[c].object,
                                         synced |-> op[c].at]]
  /\ Goto(c, "fetch")

SameIdentity(k, o) == graph[k].id = o

(* FETCH PROP: a foreign identity, or no row at all, is an error.          *)
Fetch(c) ==
  /\ op[c].stage = "fetch"
  /\ IF SameIdentity(KeyOf[op[c].object], op[c].object)
     THEN Goto(c, "update") ELSE Return(c)
  /\ UNCHANGED graph

Unconditional(k, t) == Present(k)  \* mutant of NotNewer: no WHEN clause

NotNewer(k, t) == Present(k) /\ graph[k].synced <= t

(* UPDATE ... WHEN synced_at <= the snapshot: a newer object stays as it   *)
(* is and the call still succeeds; a missing one is an error.              *)
Update(c) ==
  LET k == KeyOf[op[c].object] IN
  /\ op[c].stage = "update"
  /\ graph' = IF NotNewer(k, op[c].at)
              THEN [graph EXCEPT ![k].synced = op[c].at] ELSE graph
  /\ Return(c)

-----------------------------------------------------------------------------
EdgeTouches(k, v) ==
  \E x \in Relations : KeyOf[x] = k /\ \E e \in EndsOf[x] : KeyOf[e] = v

HasEdge(v) == \E k \in Keys : Present(k) /\ EdgeTouches(k, v)

(* The vertices that the cleanup's MATCH returns, without its LIMIT.       *)
Orphans(s, type, t) ==
  {k \in Keys : \E e \in Entities :
     /\ graph[k].id = e
     /\ SourceOf[e] = s /\ TypeOf[e] = type
     /\ graph[k].synced < t
     /\ ~HasEdge(k)}

BeginCleanup(c, s, type, t) ==
  /\ op[c].stage = "idle"
  /\ CleanupLockFree(c, s)
  /\ op' = [op EXCEPT ![c] = [Idle EXCEPT !.stage = "match", !.source = s,
                                !.type = type, !.at = t]]
  /\ UNCHANGED graph

NextRound(c, stage, batch) ==
  op' = [op EXCEPT ![c] = [@ EXCEPT !.stage = stage, !.batch = batch]]

(* A batch of at most BatchSize; an empty one ends the loop.               *)
Match(c) ==
  LET found == Orphans(op[c].source, op[c].type, op[c].at) IN
  /\ op[c].stage = "match"
  /\ IF found = {} THEN Return(c)
     ELSE \E batch \in SUBSET found :
            /\ batch # {}
            /\ \/ batch = found /\ Cardinality(found) <= BatchSize
               \/ Cardinality(batch) = BatchSize
            /\ NextRound(c, "delete", batch)
  /\ UNCHANGED graph

(* DELETE VERTEX by id: nothing is looked at again.                        *)
DeleteBatch(c) ==
  /\ op[c].stage = "delete"
  /\ graph' = [k \in Keys |-> IF k \in op[c].batch THEN Absent ELSE graph[k]]
  /\ NextRound(c, "match", {})

(* One pipeline, LOOKUP | DELETE EDGE, under the cleanup lock.             *)
DeleteRelationsNotSeen(c, s, type, t) ==
  /\ op[c].stage = "idle"
  /\ CleanupLockFree(c, s)
  /\ graph' = [k \in Keys |->
       IF \E x \in Relations : /\ graph[k].id = x
                               /\ SourceOf[x] = s /\ TypeOf[x] = type
                               /\ graph[k].synced < t
       THEN Absent ELSE graph[k]]
  /\ UNCHANGED op

(* A lost connection, a rejected statement or a canceled context.  That    *)
(* the statement was executed all the same is this action after its own.   *)
Fail(c) ==
  /\ op[c].stage # "idle"
  /\ Return(c)
  /\ UNCHANGED graph

-----------------------------------------------------------------------------
Init ==
  /\ graph = [k \in Keys |-> Absent]
  /\ op = [c \in Callers |-> Idle]

Statement(c) ==
  \/ Insert(c) \/ Fetch(c) \/ Update(c)
  \/ Match(c) \/ DeleteBatch(c)

Begin(c) ==
  \E t \in Times :
    \/ \E o \in Objects : BeginUpsert(c, o, t)
    \/ \E s \in Sources, type \in Types :
         \/ BeginCleanup(c, s, type, t)
         \/ DeleteRelationsNotSeen(c, s, type, t)

Next == \E c \in Callers : Begin(c) \/ Statement(c) \/ Fail(c)

Spec == Init /\ [][Next]_vars

(* Every statement returns: the client bounds each call by a timeout.      *)
Fairness == \A c \in Callers : WF_vars(Statement(c))

FairSpec == Spec /\ Fairness

-----------------------------------------------------------------------------
(* Between its three statements an upsert cannot lose its object: FETCH    *)
(* always finds a row, and UPDATE finds the identity that FETCH has seen,  *)
(* although cleanups delete by id whatever they matched earlier.           *)
UpsertFindsItsObject ==
  \A c \in Callers :
    /\ op[c].stage = "fetch" => Present(KeyOf[op[c].object])
    /\ op[c].stage = "update" => graph[KeyOf[op[c].object]].id = op[c].object

(* The delete of a cleanup acts on what its match saw; all the same it     *)
(* only removes vertices of its source and type that are still older than  *)
(* its cutoff and still have no edge when they go.                         *)
CleanupSparesSeen ==
  [][\A c \in Callers, k \in Keys :
       /\ op[c].stage = "delete"
       /\ op'[c] # op[c]
       /\ graph[k].id # None
       /\ graph'[k].id = None
       => /\ SourceOf[graph[k].id] = op[c].source
          /\ TypeOf[graph[k].id] = op[c].type
          /\ graph[k].synced < op[c].at
          /\ ~HasEdge(k)]_vars

(* A stored object is only ever refreshed in the name of the identity that *)
(* it was inserted for, and its synced_at never goes back, in whatever     *)
(* order upserts of older and newer runs and of colliding keys interleave. *)
RefreshedByOwner ==
  [][\A k \in Keys :
       /\ graph[k].id # None
       /\ graph'[k].id # None
       /\ graph'[k] # graph[k]
       => /\ graph'[k].id = graph[k].id
          /\ graph'[k].synced >= graph[k].synced
          /\ \E c \in Callers : op[c].stage = "update"
                                /\ op[c].object = graph[k].id]_vars

(* The loop of DeleteOrphanVerticesNotSeen has no bound of its own: it     *)
(* ends because no writer can bring back what it has deleted meanwhile.    *)
CleanupEnds ==
  \A c \in Callers : op[c].stage \in Cleaning ~> op[c].stage = "idle"
=============================================================================
