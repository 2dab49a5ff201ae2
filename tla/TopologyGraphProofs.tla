------------------------ MODULE TopologyGraphProofs ------------------------
(***************************************************************************)
(* Proofs about TopologyGraph.  The source locks exclude every other call  *)
(* on the source of a cleanup; hence what a match has found stays an       *)
(* orphan until it is deleted, and what an upsert has inserted stays until *)
(* it has been updated.                                                    *)
(***************************************************************************)
EXTENDS TopologyGraph, TLAPS

(* A cleanup has its source for itself.                                    *)
CleanupIsAlone ==
  \A c, d \in Callers :
    c # d /\ op[c].stage \in Cleaning /\ op[d].stage # "idle"
      => op[c].source # op[d].source

LockInv == TypeOK /\ CleanupIsAlone

(* A batch is still what the match found.                                  *)
BatchStaysOrphaned ==
  \A c \in Callers : op[c].stage = "delete" =>
    op[c].batch \subseteq Orphans(op[c].source, op[c].type, op[c].at)

GraphInv == LockInv /\ UpsertFindsItsObject /\ BatchStaysOrphaned

-----------------------------------------------------------------------------
(* The lock discipline: TypeOK and CleanupIsAlone are inductive.           *)
LEMMA LockInit == Init => LockInv
BY GraphAssumption
DEF Init, LockInv, TypeOK, CleanupIsAlone, Idle, Absent, Writing, Cleaning

(* A call that begins: its entry check is the lock it takes.               *)
LEMMA LockBegin ==
  ASSUME LockInv, NEW c \in Callers, Begin(c)
  PROVE  LockInv'
<1> USE GraphAssumption DEF LockInv, TypeOK, CleanupIsAlone, Writing, Cleaning, Idle
<1>1. ASSUME NEW t \in Times, NEW o \in Objects, BeginUpsert(c, o, t)
      PROVE  LockInv'
  <2>1. TypeOK'
    BY <1>1 DEF BeginUpsert
  <2>2. CleanupIsAlone'
    BY <1>1 DEF BeginUpsert, WriteLockFree
  <2> QED BY <2>1, <2>2
<1>2. ASSUME NEW t \in Times, NEW s \in Sources, NEW type \in Types,
             BeginCleanup(c, s, type, t)
      PROVE  LockInv'
  <2>1. TypeOK'
    BY <1>2 DEF BeginCleanup
  <2>2. CleanupIsAlone'
    BY <1>2 DEF BeginCleanup, CleanupLockFree
  <2> QED BY <2>1, <2>2
<1>3. ASSUME NEW t \in Times, NEW s \in Sources, NEW type \in Types,
             DeleteRelationsNotSeen(c, s, type, t)
      PROVE  LockInv'
  BY <1>3 DEF DeleteRelationsNotSeen, Absent
<1> QED BY <1>1, <1>2, <1>3 DEF Begin

(* The two halves of TypeOK: what is stored, and who is in which call.      *)
GraphOK ==
  /\ graph \in [Keys -> [id : Objects \cup {None}, synced : Nat]]
  /\ \A k \in Keys : graph[k].id # None => KeyOf[graph[k].id] = k

CallsOK ==
  /\ op \in [Callers -> [stage : {"idle"} \cup Writing \cup Cleaning,
                         object : Objects \cup {None},
                         source : Sources \cup {None}, type : Types \cup {None},
                         at : Nat, batch : SUBSET Keys]]
  /\ \A c \in Callers :
       /\ op[c].stage \in Writing =>
            op[c].object \in Objects /\ op[c].source = SourceOf[op[c].object]
       /\ op[c].stage \in Cleaning =>
            op[c].source \in Sources /\ op[c].type \in Types

LEMMA LockHalves == LockInv <=> GraphOK /\ CallsOK /\ CleanupIsAlone
BY DEF LockInv, TypeOK, GraphOK, CallsOK

LEMMA LockHalvesNext == GraphOK' /\ CallsOK' /\ CleanupIsAlone' => LockInv'
BY DEF LockInv, TypeOK, GraphOK, CallsOK

(* The next statement of the same call.                                    *)
LEMMA LockGoto ==
  ASSUME CallsOK, CleanupIsAlone, NEW c \in Callers, NEW stage, Goto(c, stage),
         \/ op[c].stage \in Writing /\ stage \in Writing
         \/ op[c].stage \in Cleaning /\ stage \in Cleaning
  PROVE  CallsOK' /\ CleanupIsAlone'
<1>1. op' = [op EXCEPT ![c].stage = stage]
  BY DEF Goto
<1>2. CallsOK'
  BY <1>1 DEF CallsOK, Writing, Cleaning
<1>3. CleanupIsAlone'
  BY <1>1 DEF CallsOK, CleanupIsAlone, Writing, Cleaning
<1> QED BY <1>2, <1>3

LEMMA LockReturn ==
  ASSUME CallsOK, CleanupIsAlone, NEW c \in Callers, Return(c)
  PROVE  CallsOK' /\ CleanupIsAlone'
<1>1. op' = [op EXCEPT ![c] = Idle]
  BY DEF Return
<1>2. CallsOK'
  BY <1>1 DEF CallsOK, Idle, Writing, Cleaning
<1>3. CleanupIsAlone'
  BY <1>1 DEF CallsOK, CleanupIsAlone, Idle, Writing, Cleaning
<1> QED BY <1>2, <1>3

(* The next statement of a cleanup, with the batch it is for.              *)
LEMMA LockLoop ==
  ASSUME CallsOK, CleanupIsAlone, NEW c \in Callers, NEW stage \in Cleaning,
         NEW batch \in SUBSET Keys, op[c].stage \in Cleaning,
         NextRound(c, stage, batch)
  PROVE  CallsOK' /\ CleanupIsAlone'
<1> DEFINE call == [op[c] EXCEPT !.stage = stage, !.batch = batch]
<1>1. /\ call \in [stage : {"idle"} \cup Writing \cup Cleaning,
                  object : Objects \cup {None},
                  source : Sources \cup {None}, type : Types \cup {None},
                  at : Nat, batch : SUBSET Keys]
      /\ call.stage = stage
      /\ call.source = op[c].source
      /\ call.type = op[c].type
  BY DEF CallsOK
<1>2. op' = [op EXCEPT ![c] = call]
  BY DEF NextRound
<1> HIDE DEF call
<1>3. \A d \in Callers : op'[d] = IF d = c THEN call ELSE op[d]
  BY <1>2 DEF CallsOK
<1>4. CallsOK'
  BY <1>1, <1>2, <1>3 DEF CallsOK, Writing, Cleaning
<1>5. CleanupIsAlone'
  BY <1>1, <1>3 DEF CleanupIsAlone, Writing, Cleaning
<1> QED BY <1>4, <1>5

(* A statement keeps the lock of its call or, returning, gives it back.    *)
LEMMA LockStatement ==
  ASSUME LockInv, NEW c \in Callers, Statement(c) \/ Fail(c)
  PROVE  LockInv'
<1>0. GraphOK /\ CallsOK /\ CleanupIsAlone
  BY LockHalves
<1>1. CASE Insert(c)
  <2>1. /\ op[c].object \in Objects
        /\ KeyOf[op[c].object] \in Keys
        /\ op[c].at \in Nat
    BY <1>0, <1>1, GraphAssumption DEF Insert, CallsOK, Writing
  <2>2. GraphOK'
    BY <1>0, <1>1, <2>1 DEF Insert, GraphOK
  <2>3. CallsOK' /\ CleanupIsAlone'
    BY <1>0, <1>1, LockGoto DEF Insert, Writing
  <2> QED BY <2>2, <2>3, LockHalvesNext
<1>2. CASE Fetch(c)
  <2>1. GraphOK'
    BY <1>0, <1>2 DEF Fetch, GraphOK
  <2>2. CallsOK' /\ CleanupIsAlone'
    BY <1>0, <1>2, LockGoto, LockReturn DEF Fetch, Writing
  <2> QED BY <2>1, <2>2, LockHalvesNext
<1>3. CASE Update(c)
  <2>1. /\ KeyOf[op[c].object] \in Keys
        /\ op[c].at \in Nat
    BY <1>0, <1>3, GraphAssumption DEF Update, CallsOK, Writing
  <2>2. GraphOK'
    BY <1>0, <1>3, <2>1 DEF Update, GraphOK
  <2>3. CallsOK' /\ CleanupIsAlone'
    BY <1>0, <1>3, LockReturn DEF Update
  <2> QED BY <2>2, <2>3, LockHalvesNext
<1>4. CASE Match(c)
  <2>1. GraphOK'
    BY <1>0, <1>4 DEF Match, GraphOK
  <2>2. CASE Return(c)
    BY <1>0, <2>1, <2>2, LockReturn, LockHalvesNext
  <2>3. CASE \E batch \in SUBSET Orphans(op[c].source, op[c].type, op[c].at) :
               NextRound(c, "delete", batch)
    <3>1. PICK batch \in SUBSET Orphans(op[c].source, op[c].type, op[c].at) :
               NextRound(c, "delete", batch)
      BY <2>3
    <3>2. batch \subseteq Keys
      BY DEF Orphans
    <3>3. op[c].stage = "match"
      BY <1>4 DEF Match
    <3>4. CallsOK' /\ CleanupIsAlone'
      BY <1>0, <3>1, <3>2, <3>3, LockLoop DEF Cleaning
    <3> QED BY <2>1, <3>4, LockHalvesNext
  <2> QED BY <1>4, <2>2, <2>3 DEF Match
<1>5. CASE DeleteBatch(c)
  <2>1. GraphOK'
    BY <1>0, <1>5 DEF DeleteBatch, GraphOK, Absent
  <2>2. CallsOK' /\ CleanupIsAlone'
    BY <1>0, <1>5, LockLoop DEF DeleteBatch, Cleaning
  <2> QED BY <2>1, <2>2, LockHalvesNext
<1>6. CASE Fail(c)
  <2>1. GraphOK'
    BY <1>0, <1>6 DEF Fail, GraphOK
  <2>2. CallsOK' /\ CleanupIsAlone'
    BY <1>0, <1>6, LockReturn DEF Fail
  <2> QED BY <2>1, <2>2, LockHalvesNext
<1> QED BY <1>1, <1>2, <1>3, <1>4, <1>5, <1>6 DEF Statement

LEMMA LockStep == LockInv /\ [Next]_vars => LockInv'
<1> SUFFICES ASSUME LockInv, [Next]_vars PROVE LockInv'
  OBVIOUS
<1>1. CASE UNCHANGED vars
  BY <1>1 DEF vars, LockInv, TypeOK, CleanupIsAlone
<1>2. CASE Next
  BY <1>2, LockBegin, LockStatement DEF Next
<1> QED BY <1>1, <1>2

(* Type correctness: every stored identity lies under its own key, and a   *)
(* call holds the lock of the source that its statements are about.        *)
THEOREM TypeCorrect == Spec => []TypeOK
<1>1. LockInv => TypeOK
  BY DEF LockInv
<1> QED BY LockInit, LockStep, <1>1, PTL DEF Spec

-----------------------------------------------------------------------------
(* The keys of objects of other sources than s.                            *)
Foreign(s) == {k \in Keys : \E o \in Objects : KeyOf[o] = k /\ SourceOf[o] # s}

(* Changes under foreign keys create no edge at an orphan of s.            *)
LEMMA OrphansKept ==
  ASSUME GraphOK, NEW s, NEW type, NEW t,
         \A k \in Keys \ Foreign(s) : graph'[k] = graph[k]
  PROVE  \A v \in Orphans(s, type, t) : graph'[v] = graph[v] /\ ~HasEdge(v)'
<1> SUFFICES ASSUME NEW v \in Orphans(s, type, t)
             PROVE  graph'[v] = graph[v] /\ ~HasEdge(v)'
  OBVIOUS
<1>1. PICK e \in Entities : /\ graph[v].id = e
                           /\ SourceOf[e] = s /\ TypeOf[e] = type
                           /\ graph[v].synced < t
  BY DEF Orphans
<1>2. v \in Keys /\ ~HasEdge(v)
  BY DEF Orphans
<1>3. KeyOf[e] = v /\ e \in Objects
  BY <1>1, <1>2, GraphAssumption DEF GraphOK, Objects
<1>4. v \notin Foreign(s)
  BY <1>1, <1>3, GraphAssumption DEF Foreign
<1>5. ASSUME NEW k \in Keys, NEW x \in Relations, KeyOf[x] = k,
             NEW f \in EndsOf[x], KeyOf[f] = v
      PROVE  k \notin Foreign(s)
  <2>1. f \in Entities /\ SourceOf[x] = SourceOf[f] /\ x \in Objects
    BY <1>5, GraphAssumption DEF Objects
  <2>2. SourceOf[f] = s
    BY <1>1, <1>3, <1>5, <2>1, GraphAssumption DEF Objects
  <2> QED BY <1>5, <2>1, <2>2, GraphAssumption DEF Foreign
<1>6. ~HasEdge(v)'
  BY <1>2, <1>5 DEF HasEdge, Present, EdgeTouches
<1> QED BY <1>2, <1>4, <1>6

(* While a cleanup holds its source, the steps of others are foreign to it.*)
LEMMA OthersAreForeign ==
  ASSUME GraphInv, NEW c \in Callers, op[c].stage \in Cleaning,
         NEW d \in Callers, d # c, Begin(d) \/ Statement(d) \/ Fail(d)
  PROVE  \A k \in Keys \ Foreign(op[c].source) : graph'[k] = graph[k]
<1>0. GraphOK /\ CallsOK /\ CleanupIsAlone /\ BatchStaysOrphaned
  BY LockHalves DEF GraphInv
<1>1. CASE Insert(d) \/ Update(d)
  <2>1. /\ op[d].object \in Objects
        /\ SourceOf[op[d].object] # op[c].source
    BY <1>0, <1>1 DEF Insert, Update, CallsOK, CleanupIsAlone, Writing
  <2> QED BY <1>0, <1>1, <2>1 DEF Insert, Update, GraphOK, Foreign
<1>2. CASE DeleteBatch(d)
  <2>1. op[d].source # op[c].source
    BY <1>0, <1>2 DEF DeleteBatch, CleanupIsAlone
  <2>2. ASSUME NEW k \in op[d].batch, k \in Keys
        PROVE  k \in Foreign(op[c].source)
    <3>1. k \in Orphans(op[d].source, op[d].type, op[d].at)
      BY <1>0, <1>2, <2>2 DEF DeleteBatch, BatchStaysOrphaned
    <3> QED BY <1>0, <2>1, <3>1, GraphAssumption
            DEF Orphans, Foreign, GraphOK, Objects
  <2> QED BY <1>2, <2>2 DEF DeleteBatch
<1>3. CASE Begin(d)
  <2>1. ASSUME NEW t \in Times, NEW s \in Sources, NEW type \in Types,
               DeleteRelationsNotSeen(d, s, type, t),
               NEW k \in Keys, graph'[k] # graph[k]
        PROVE  k \in Foreign(op[c].source)
    <3>1. op[c].source # s
      BY <2>1 DEF DeleteRelationsNotSeen, CleanupLockFree, Cleaning
    <3>2. PICK x \in Relations : graph[k].id = x /\ SourceOf[x] = s
      BY <2>1 DEF DeleteRelationsNotSeen
    <3>3. KeyOf[x] = k /\ x \in Objects
      BY <1>0, <3>2, GraphAssumption DEF GraphOK, Objects
    <3> QED BY <3>1, <3>2, <3>3 DEF Foreign
  <2> QED BY <1>3, <2>1 DEF Begin, BeginUpsert, BeginCleanup
<1>4. CASE Fetch(d) \/ Match(d) \/ Fail(d)
  BY <1>4 DEF Fetch, Match, Fail
<1> QED BY <1>1, <1>2, <1>3, <1>4 DEF Statement

(* A step of one caller leaves the calls of the others alone.              *)
LEMMA OthersUntouched ==
  ASSUME CallsOK, NEW c \in Callers, NEW d \in Callers, d # c,
         Begin(d) \/ Statement(d) \/ Fail(d)
  PROVE  op'[c] = op[c]
<1>1. CASE Begin(d)
  BY <1>1 DEF CallsOK, Begin, BeginUpsert, BeginCleanup, DeleteRelationsNotSeen
<1>2. CASE Statement(d)
  BY <1>2 DEF CallsOK, Statement, Insert, Fetch, Update, Match, DeleteBatch,
              Goto, Return, NextRound
<1>3. CASE Fail(d)
  BY <1>3 DEF CallsOK, Fail, Return
<1> QED BY <1>1, <1>2, <1>3

-----------------------------------------------------------------------------
LEMMA GraphInit == Init => GraphInv
BY LockInit
DEF Init, GraphInv, UpsertFindsItsObject, BatchStaysOrphaned, Idle

(* The stages that each step leaves a call in.                             *)
LEMMA NextStage ==
  ASSUME CallsOK, NEW c \in Callers
  PROVE  /\ Begin(c) => op'[c].stage \in {"idle", "insert", "match"}
         /\ Insert(c) => op'[c].stage = "fetch"
         /\ Fetch(c) => op'[c].stage \in {"update", "idle"}
         /\ Update(c) \/ Fail(c) => op'[c].stage = "idle"
         /\ Match(c) => op'[c].stage \in {"delete", "idle"}
         /\ DeleteBatch(c) => op'[c].stage = "match"
<1> USE DEF CallsOK
<1>1. ASSUME Begin(c) PROVE op'[c].stage \in {"idle", "insert", "match"}
  <2>1. ASSUME NEW o \in Objects, NEW t \in Times, BeginUpsert(c, o, t)
        PROVE  op'[c].stage = "insert"
    BY <2>1 DEF BeginUpsert, Idle
  <2>2. ASSUME NEW s \in Sources, NEW type \in Types, NEW t \in Times,
               BeginCleanup(c, s, type, t)
        PROVE  op'[c].stage = "match"
    BY <2>2 DEF BeginCleanup, Idle
  <2>3. ASSUME NEW s \in Sources, NEW type \in Types, NEW t \in Times,
               DeleteRelationsNotSeen(c, s, type, t)
        PROVE  op'[c].stage = "idle"
    BY <2>3 DEF DeleteRelationsNotSeen
  <2> QED BY <1>1, <2>1, <2>2, <2>3 DEF Begin
<1>2. Insert(c) => op'[c].stage = "fetch"
  BY DEF Insert, Goto
<1>3. Fetch(c) => op'[c].stage \in {"update", "idle"}
  BY DEF Fetch, Goto, Return, Idle
<1>4. Update(c) \/ Fail(c) => op'[c].stage = "idle"
  BY DEF Update, Fail, Return, Idle
<1>5. \A stage, batch : NextRound(c, stage, batch) => op'[c].stage = stage
  BY DEF NextRound
<1>6. Match(c) => op'[c].stage \in {"delete", "idle"}
  BY <1>5 DEF Match, Return, Idle
<1>7. DeleteBatch(c) => op'[c].stage = "match"
  BY <1>5 DEF DeleteBatch
<1> QED BY <1>1, <1>2, <1>3, <1>4, <1>6, <1>7

(* A batch is matched by its own cleanup and kept by the steps of others.  *)
LEMMA BatchStep ==
  ASSUME GraphInv, NEW d \in Callers, Begin(d) \/ Statement(d) \/ Fail(d)
  PROVE  BatchStaysOrphaned'
<1>0. GraphOK /\ CallsOK /\ BatchStaysOrphaned
  BY LockHalves DEF GraphInv
<1> SUFFICES ASSUME NEW c \in Callers, op'[c].stage = "delete"
             PROVE  (op[c].batch \subseteq
                        Orphans(op[c].source, op[c].type, op[c].at))'
  BY DEF BatchStaysOrphaned
<1>1. CASE d # c
  <2>1. op'[c] = op[c]
    BY <1>0, <1>1, OthersUntouched
  <2>2. \A k \in Keys \ Foreign(op[c].source) : graph'[k] = graph[k]
    BY <1>1, <2>1, OthersAreForeign DEF Cleaning
  <2>3. \A v \in Orphans(op[c].source, op[c].type, op[c].at) :
          graph'[v] = graph[v] /\ ~HasEdge(v)'
    BY <1>0, <2>2, OrphansKept
  <2>4. op[c].batch \subseteq Orphans(op[c].source, op[c].type, op[c].at)
    BY <1>0, <2>1 DEF BatchStaysOrphaned
  <2> QED BY <2>1, <2>3, <2>4 DEF Orphans
<1>2. CASE d = c
  <2>1. Match(c)
    BY <1>0, <1>2, NextStage DEF Statement
  <2>2. PICK batch \in SUBSET Orphans(op[c].source, op[c].type, op[c].at) :
          NextRound(c, "delete", batch)
    BY <1>0, <2>1 DEF Match, Return, Idle, CallsOK
  <2>3. /\ op'[c].batch = batch /\ op'[c].source = op[c].source
        /\ op'[c].type = op[c].type /\ op'[c].at = op[c].at
    BY <1>0, <2>2 DEF NextRound, CallsOK
  <2>4. graph' = graph
    BY <2>1 DEF Match
  <2> QED BY <2>2, <2>3, <2>4 DEF Orphans, HasEdge, Present
<1> QED BY <1>1, <1>2

(* Objects under keys of the source of an upsert keep their identity while *)
(* others step: whoever removes something has locked another source.       *)
LEMMA IdentityKept ==
  ASSUME GraphInv, NEW c \in Callers, op[c].stage \in Writing,
         NEW d \in Callers, d # c, Begin(d) \/ Statement(d) \/ Fail(d),
         NEW k \in Keys, k = KeyOf[op[c].object], Present(k)
  PROVE  graph'[k].id = graph[k].id
<1>0. GraphOK /\ CallsOK /\ CleanupIsAlone /\ BatchStaysOrphaned
  BY LockHalves DEF GraphInv
<1>1. op[c].object \in Objects /\ op[c].source = SourceOf[op[c].object]
  BY <1>0 DEF CallsOK
<1>2. ASSUME NEW o \in Objects, KeyOf[o] = k
      PROVE  SourceOf[o] = op[c].source
  BY <1>1, <1>2, GraphAssumption
<1>3. CASE Insert(d)
  BY <1>0, <1>3 DEF Insert, Present, GraphOK
<1>4. CASE Update(d)
  BY <1>0, <1>4 DEF Update, GraphOK
<1>5. CASE DeleteBatch(d)
  <2>1. op[d].source # op[c].source
    BY <1>0, <1>5 DEF DeleteBatch, CleanupIsAlone, Cleaning, Writing
  <2>2. k \notin op[d].batch
    <3> SUFFICES ASSUME k \in op[d].batch PROVE FALSE
      OBVIOUS
    <3>1. k \in Orphans(op[d].source, op[d].type, op[d].at)
      BY <1>0, <1>5 DEF DeleteBatch, BatchStaysOrphaned
    <3>2. PICK e \in Entities : graph[k].id = e /\ SourceOf[e] = op[d].source
      BY <3>1 DEF Orphans
    <3>3. e \in Objects /\ KeyOf[e] = k
      BY <1>0, <3>2, GraphAssumption DEF GraphOK, Objects
    <3> QED BY <1>2, <2>1, <3>2, <3>3
  <2> QED BY <1>5, <2>2 DEF DeleteBatch
<1>6. CASE Begin(d)
  <2>1. ASSUME NEW t \in Times, NEW s \in Sources, NEW type \in Types,
               DeleteRelationsNotSeen(d, s, type, t)
        PROVE  graph'[k] = graph[k]
    <3>1. op[c].source # s
      BY <2>1 DEF DeleteRelationsNotSeen, CleanupLockFree, Writing
    <3>2. ASSUME NEW x \in Relations, graph[k].id = x
          PROVE  SourceOf[x] # s
      BY <1>0, <1>2, <3>1, <3>2, GraphAssumption DEF GraphOK, Objects
    <3> QED BY <2>1, <3>2 DEF DeleteRelationsNotSeen
  <2> QED BY <1>6, <2>1 DEF Begin, BeginUpsert, BeginCleanup
<1>7. CASE Fetch(d) \/ Match(d) \/ Fail(d)
  BY <1>7 DEF Fetch, Match, Fail
<1> QED BY <1>3, <1>4, <1>5, <1>6, <1>7 DEF Statement

LEMMA UpsertStep ==
  ASSUME GraphInv, NEW d \in Callers, Begin(d) \/ Statement(d) \/ Fail(d)
  PROVE  UpsertFindsItsObject'
<1>0. GraphOK /\ CallsOK /\ UpsertFindsItsObject
  BY LockHalves DEF GraphInv
<1> SUFFICES ASSUME NEW c \in Callers, op'[c].stage \in {"fetch", "update"}
             PROVE  /\ op'[c].stage = "fetch" =>
                         graph'[KeyOf[op'[c].object]].id # None
                    /\ op'[c].stage = "update" =>
                         graph'[KeyOf[op'[c].object]].id = op'[c].object
  BY DEF UpsertFindsItsObject, Present
<1>1. CASE d # c
  <2>1. op'[c] = op[c]
    BY <1>0, <1>1, OthersUntouched
  <2>2. KeyOf[op[c].object] \in Keys /\ op[c].object # None
    BY <1>0, <2>1, GraphAssumption DEF CallsOK, Writing
  <2>3. Present(KeyOf[op[c].object])
    BY <1>0, <2>1, <2>2 DEF UpsertFindsItsObject, Present
  <2>4. graph'[KeyOf[op[c].object]].id = graph[KeyOf[op[c].object]].id
    BY <1>1, <2>1, <2>2, <2>3, IdentityKept DEF Writing
  <2> QED BY <1>0, <2>1, <2>3, <2>4 DEF UpsertFindsItsObject, Present
<1>2. CASE d = c
  <2>1. Insert(c) \/ Fetch(c)
    BY <1>0, <1>2, NextStage DEF Statement
  <2>2. CASE Insert(c)
    <3>1. /\ op'[c].stage = "fetch" /\ op'[c].object = op[c].object
          /\ op[c].object \in Objects /\ KeyOf[op[c].object] \in Keys
      BY <1>0, <2>2, GraphAssumption DEF Insert, Goto, CallsOK, Writing
    <3> QED BY <1>0, <2>2, <3>1, GraphAssumption DEF Insert, Present, GraphOK
  <2>3. CASE Fetch(c)
    <3>1. SameIdentity(KeyOf[op[c].object], op[c].object) /\ Goto(c, "update")
      BY <1>0, <2>3 DEF Fetch, Return, Idle, CallsOK
    <3>2. op'[c].stage = "update" /\ op'[c].object = op[c].object
      BY <1>0, <3>1 DEF Goto, CallsOK
    <3> QED BY <2>3, <3>1, <3>2 DEF Fetch, SameIdentity
  <2> QED BY <2>1, <2>2, <2>3
<1> QED BY <1>1, <1>2

LEMMA GraphStep == GraphInv /\ [Next]_vars => GraphInv'
<1> SUFFICES ASSUME GraphInv, [Next]_vars PROVE GraphInv'
  OBVIOUS
<1>1. LockInv'
  BY LockStep DEF GraphInv
<1>2. CASE UNCHANGED vars
  BY <1>1, <1>2 DEF vars, GraphInv, UpsertFindsItsObject, BatchStaysOrphaned,
                    Orphans, HasEdge, Present
<1>3. CASE Next
  BY <1>1, <1>3, BatchStep, UpsertStep DEF Next, GraphInv
<1> QED BY <1>2, <1>3

LEMMA GraphAlways == Spec => []GraphInv
BY GraphInit, GraphStep, PTL DEF Spec

(* No cleanup pulls its object from under an upsert: what INSERT wrote or  *)
(* found is there for FETCH, and what FETCH approved is there for UPDATE.  *)
THEOREM UpsertsFindTheirObjects == Spec => []UpsertFindsItsObject
<1>1. GraphInv => UpsertFindsItsObject
  BY DEF GraphInv
<1> QED BY GraphAlways, <1>1, PTL

(* Deleting by id what an earlier statement matched removes only vertices  *)
(* that are still unseen and unlinked.                                     *)
THEOREM CleanupsSpareSeenObjects == Spec => CleanupSparesSeen
<1> DEFINE Spares ==
      \A c \in Callers, k \in Keys :
       /\ op[c].stage = "delete"
       /\ op'[c] # op[c]
       /\ graph[k].id # None
       /\ graph'[k].id = None
       => /\ SourceOf[graph[k].id] = op[c].source
          /\ TypeOf[graph[k].id] = op[c].type
          /\ graph[k].synced < op[c].at
          /\ ~HasEdge(k)
<1>1. GraphInv /\ [Next]_vars => [Spares]_vars
  <2> SUFFICES ASSUME GraphInv, Next, NEW c \in Callers, NEW k \in Keys,
                      op[c].stage = "delete", op'[c] # op[c],
                      graph[k].id # None, graph'[k].id = None
               PROVE  /\ SourceOf[graph[k].id] = op[c].source
                      /\ TypeOf[graph[k].id] = op[c].type
                      /\ graph[k].synced < op[c].at
                      /\ ~HasEdge(k)
    BY DEF vars
  <2>0. CallsOK /\ BatchStaysOrphaned
    BY LockHalves DEF GraphInv
  <2>1. Begin(c) \/ Statement(c) \/ Fail(c)
    BY <2>0, OthersUntouched DEF Next
  <2>2. DeleteBatch(c)
    BY <2>1 DEF Begin, BeginUpsert, BeginCleanup, DeleteRelationsNotSeen,
                Statement, Insert, Fetch, Update, Match, Fail
  <2>3. k \in op[c].batch
    BY <2>2 DEF DeleteBatch
  <2>4. k \in Orphans(op[c].source, op[c].type, op[c].at)
    BY <2>0, <2>3 DEF BatchStaysOrphaned
  <2> QED BY <2>4 DEF Orphans
<1> QED BY GraphAlways, <1>1, PTL DEF Spec, CleanupSparesSeen

(* A stored object is refreshed by its own identity and never set back.    *)
THEOREM OwnersRefresh == Spec => RefreshedByOwner
<1> DEFINE Refresh ==
      \A k \in Keys :
       /\ graph[k].id # None
       /\ graph'[k].id # None
       /\ graph'[k] # graph[k]
       => /\ graph'[k].id = graph[k].id
          /\ graph'[k].synced >= graph[k].synced
          /\ \E c \in Callers : op[c].stage = "update"
                                /\ op[c].object = graph[k].id
<1>1. GraphInv /\ [Next]_vars => [Refresh]_vars
  <2> SUFFICES ASSUME GraphInv, Next, NEW k \in Keys,
                      graph[k].id # None, graph'[k].id # None,
                      graph'[k] # graph[k]
               PROVE  /\ graph'[k].id = graph[k].id
                      /\ graph'[k].synced >= graph[k].synced
                      /\ \E c \in Callers : op[c].stage = "update"
                                            /\ op[c].object = graph[k].id
    BY DEF vars
  <2>0. GraphOK /\ CallsOK /\ UpsertFindsItsObject
    BY LockHalves DEF GraphInv
  <2>1. PICK c \in Callers : Begin(c) \/ Statement(c) \/ Fail(c)
    BY DEF Next
  <2>2. Update(c)
    <3>1. graph' # graph
      OBVIOUS
    <3>2. ~DeleteBatch(c)
      BY DEF DeleteBatch, Absent
    <3>3. ASSUME NEW t \in Times, NEW s \in Sources, NEW type \in Types
          PROVE  ~DeleteRelationsNotSeen(c, s, type, t)
      BY DEF DeleteRelationsNotSeen, Absent
    <3>4. ~Insert(c)
      BY <2>0 DEF Insert, Present, GraphOK
    <3>5. ~Begin(c)
      BY <3>1, <3>3 DEF Begin, BeginUpsert, BeginCleanup
    <3> QED BY <2>1, <3>1, <3>2, <3>4, <3>5 DEF Statement, Fetch, Match, Fail
  <2>3. /\ k = KeyOf[op[c].object]
        /\ NotNewer(k, op[c].at)
        /\ graph' = [graph EXCEPT ![k].synced = op[c].at]
    BY <2>0, <2>2 DEF Update, GraphOK
  <2>4. graph[k].synced \in Nat /\ op[c].at \in Nat
    BY <2>0 DEF GraphOK, CallsOK
  <2>5. op[c].stage = "update" /\ op[c].object = graph[k].id
    BY <2>0, <2>2, <2>3 DEF Update, UpsertFindsItsObject
  <2> QED BY <2>0, <2>3, <2>4, <2>5 DEF NotNewer, GraphOK
<1> QED BY GraphAlways, <1>1, PTL DEF Spec, RefreshedByOwner
=============================================================================
