-------------------------- MODULE SyncWorkerProofs --------------------------
(***************************************************************************)
(* Theorems about SyncWorker, for any number of runs and records, any page *)
(* size and any choice of faults: the invariant of the worker, the life    *)
(* cycle of the rows of all its runs, and what its passes and its cleanup  *)
(* leave in the graph.                                                     *)
(***************************************************************************)
EXTENDS SyncWorker, FiniteSetTheorems, SequenceTheorems, TLAPS

Rows == [status : {"absent", "queued"} \cup InFlight \cup Ended,
         cancel : BOOLEAN, lapsed : BOOLEAN]

Execs == [pc : Steps, ctx : {"live", "lost", "shutdown"}, status : InFlight,
          total : 0..Cardinality(Records), seen : Seq(Records),
          again : Seq(Records), todo : SUBSET Records,
          listed : SUBSET Records, quiet : BOOLEAN]

Stamps == {Absent, 1} \cup {Snapshot(e) : e \in Runs}

First == {"begin", "read", "write", "advance", "closing", "validate"}
Second == {"recheck", "agreed", "publish"}
Third == {"clean", "delete", "complete"}

(* What a row and its executor know of each other: the pass that is under  *)
(* way is the phase that the executor last wrote, the cleanup begins only  *)
(* with the publication, and no mark can be set from then on.              *)
RunInv(r, x) ==
  /\ r.status \in {"absent", "queued"} => x = NotExecuting /\ ~r.cancel
  /\ x.pc = "idle" => r.status \in {"absent", "queued", "canceled"}
  /\ x.pc \in First => x.status = "running"
  /\ x.pc \in Second => x.status = "validating"
  /\ x.pc \in Third =>
       /\ x.status = "publishing" /\ r.status \in {"publishing"} \cup Ended
       /\ ~r.cancel
  /\ r.status \in {"publishing", "succeeded"} => ~r.cancel
  /\ r.status = "succeeded" => x.pc \in {"failing", "done"}
  /\ Len(x.again) <= x.total

(* A run is created when its predecessors have ended.                      *)
InOrder ==
  \A d, e \in Runs :
    d < e /\ row[e].status # "absent" => row[d].status \in Ended

Inv ==
  /\ row \in [Runs -> Rows]
  /\ exec \in [Runs -> Execs]
  /\ source \subseteq Records
  /\ graph \in [Records -> Stamps]
  /\ \A e \in Runs : RunInv(row[e], exec[e])
  /\ InOrder

(* How the life of one run may go on, its executor beginning with a claim. *)
Lives(r, s) ==
  \/ s.status = r.status /\ s.cancel = r.cancel
  \/ r.status \in {"running", "validating"} /\ s.status = r.status /\ s.cancel
  \/ r.status = "queued" /\ s.status = "canceled" /\ s.cancel
  \/ r.status = "running" /\ s.status = "validating" /\ s.cancel = r.cancel
  \/ /\ r.status = "validating" /\ s.status = "publishing"
     /\ s.cancel = r.cancel /\ ~r.cancel
  \/ /\ r.status = "publishing" /\ s.status = "succeeded"
     /\ s.cancel = r.cancel /\ ~r.cancel
  \/ r.status \in InFlight /\ s.status = "failed" /\ s.cancel = r.cancel
  \/ /\ r.status \in {"running", "validating"} /\ s.status = "canceled"
     /\ s.cancel = r.cancel

Begins(e, s, x) ==
  \/ /\ row[e].status = "absent" /\ s.status = "queued" /\ ~s.cancel
     /\ x.pc = "idle" /\ exec[e].pc = "idle"
     /\ \A d \in Runs : d < e => row[d].status \in Ended
  \/ /\ row[e].status = "queued" /\ s.status = "running" /\ s.cancel = row[e].cancel
     /\ x.pc # "idle" /\ exec[e].pc = "idle"

MovesTo(e, s, x) ==
  /\ s \in Rows /\ x \in Execs /\ RunInv(s, x)
  /\ row' = [row EXCEPT ![e] = s]
  /\ exec' = [exec EXCEPT ![e] = x]
  /\ \/ Lives(row[e], s) /\ (x.pc = "idle" <=> exec[e].pc = "idle")
     \/ Begins(e, s, x)

Moves(e) == \E s \in Rows, x \in Execs : MovesTo(e, s, x)

-----------------------------------------------------------------------------
LEMMA RunsNat ==
  ASSUME NEW e \in Runs
  PROVE  e \in Nat /\ Snapshot(e) \in Nat
BY WorkerAssumption, FS_CardinalityType DEF WorkerAssumption, Snapshot

(* The source lists each of its records, and no others.                    *)
LEMMA ListingTyped ==
  ASSUME source \subseteq Records
  PROVE  /\ Listing \in Seq(Records)
         /\ Len(Listing) = Cardinality(source)
         /\ Len(Listing) \in 0..Cardinality(Records)
         /\ Range(Listing) = source
<1> DEFINE upTo(r) == {x \in source : x <= r}
           n == Cardinality(source)
           rank == [r \in source |-> Cardinality(upTo(r))]
<1>1. IsFiniteSet(source) /\ n \in Nat /\ n <= Cardinality(Records)
  BY WorkerAssumption, FS_Subset, FS_CardinalityType DEF WorkerAssumption
<1>2. source \subseteq Nat
  BY WorkerAssumption DEF WorkerAssumption
<1>3. ASSUME NEW r \in source
      PROVE  IsFiniteSet(upTo(r)) /\ rank[r] \in 1..n
  <2>1. upTo(r) \in SUBSET source /\ r \in upTo(r)
    BY <1>2
  <2>2. IsFiniteSet(upTo(r)) /\ Cardinality(upTo(r)) <= n
    BY <1>1, <2>1, FS_Subset
  <2>3. Cardinality(upTo(r)) \in Nat /\ Cardinality(upTo(r)) # 0
    BY <2>1, <2>2, FS_CardinalityType, FS_EmptySet
  <2> QED
    BY <1>1, <2>2, <2>3
<1>4. ASSUME NEW r \in source, NEW s \in source, r < s
      PROVE  rank[r] # rank[s]
  <2>0. r \in Nat /\ s \in Nat
    BY <1>2
  <2>1. upTo(r) \in SUBSET upTo(s) /\ s \in upTo(s) /\ s \notin upTo(r)
    <3>1. ASSUME NEW x \in upTo(r) PROVE x \in upTo(s)
      <4>1. x \in Nat /\ x <= r
        BY <1>2
      <4> QED
        BY <1>4, <2>0, <4>1
    <3>2. s \in upTo(s) /\ s \notin upTo(r)
      BY <1>4, <2>0
    <3> QED
      BY <3>1, <3>2
  <2> HIDE DEF upTo
  <2>2. upTo(r) # upTo(s)
    BY <2>1
  <2>3. Cardinality(upTo(r)) # Cardinality(upTo(s))
    BY <1>3, <2>1, <2>2, FS_Subset
  <2> QED
    BY <2>3
<1>5. rank \in Injection(source, 1..n)
  <2>1. rank \in [source -> 1..n]
    BY <1>3
  <2>2. ASSUME NEW r \in source, NEW s \in source, rank[r] = rank[s]
        PROVE  r = s
    <3>1. r \in Nat /\ s \in Nat
      BY <1>2
    <3>2. ~(r < s) /\ ~(s < r)
      BY <1>4, <2>2
    <3> QED
      BY <3>1, <3>2
  <2> QED
    BY <2>1, <2>2 DEF Injection, IsInjective
<1>6. rank \in Surjection(source, 1..n)
  <2>1. IsFiniteSet(1..n) /\ Cardinality(1..n) = n
    BY <1>1, FS_Interval
  <2> QED
    BY <1>5, <2>1, FS_Injection
<1>7. ASSUME NEW k \in 1..n
      PROVE  \E r \in source : Cardinality({x \in source : x <= r}) = k
  BY <1>6 DEF Surjection
<1>8. Listing \in [1..n -> source]
  BY <1>7 DEF Listing
<1>9. ASSUME NEW k \in 1..n
       PROVE  Cardinality({x \in source : x <= Listing[k]}) = k
  BY <1>7 DEF Listing
<1>10. ASSUME NEW r \in source
       PROVE  \E k \in 1..n : Listing[k] = r
  <2>1. rank[r] \in 1..n /\ Listing[rank[r]] \in source
    BY <1>3, <1>8
  <2>2. rank[Listing[rank[r]]] = rank[r]
    BY <1>9, <2>1
  <2> QED
    BY <1>5, <2>1, <2>2 DEF Injection, IsInjective
<1>11. Range(Listing) = source
  BY <1>8, <1>10 DEF Range
<1>12. Listing \in [1..n -> Records]
  BY <1>8
<1>13. Listing \in Seq(Records) /\ Len(Listing) = n
  BY <1>1, <1>12
<1> QED
  BY <1>1, <1>13, <1>11, WorkerAssumption, FS_CardinalityType DEF WorkerAssumption

LEMMA PageTyped ==
  ASSUME source \subseteq Records, NEW offset \in Nat
  PROVE  PageAt(offset) \in Seq(Records)
<1> DEFINE end == offset + PageSize
           last == IF end < Len(Listing) THEN end ELSE Len(Listing)
<1>1. Listing \in Seq(Records) /\ last \in Nat /\ last <= Len(Listing)
  BY ListingTyped, WorkerAssumption DEF WorkerAssumption
<1>2. SubSeq(Listing, offset + 1, last) \in Seq(Records)
  BY <1>1
<1> QED
  BY <1>2 DEF PageAt

-----------------------------------------------------------------------------
(* The ways on and the ways out of an executor.                            *)
LEMMA Facts ==
  ASSUME Inv, NEW e \in Runs
  PROVE  /\ row[e] \in Rows /\ exec[e] \in Execs /\ RunInv(row[e], exec[e])
         /\ row = [row EXCEPT ![e] = row[e]]
         /\ exec = [exec EXCEPT ![e] = exec[e]]
BY DEF Inv

LEMMA NotExecutingTyped ==
  /\ NotExecuting \in Execs
  /\ NotExecuting.pc = "idle" /\ Len(NotExecuting.again) = 0
  /\ NotExecuting.total = 0 /\ NotExecuting.quiet = FALSE
<1>1. Cardinality(Records) \in Nat
  BY WorkerAssumption, FS_CardinalityType DEF WorkerAssumption
<1> QED
  BY <1>1 DEF NotExecuting, Execs, Steps, InFlight

LEMMA GotoTyped ==
  ASSUME Inv, NEW e \in Runs, NEW pc \in Steps, Goto(e, pc)
  PROVE  \E x \in Execs :
           /\ exec' = [exec EXCEPT ![e] = x]
           /\ x = [exec[e] EXCEPT !.pc = pc]
<1> DEFINE x == [exec[e] EXCEPT !.pc = pc]
<1>1. x \in Execs
  BY Facts DEF Execs
<1>2. exec' = [exec EXCEPT ![e] = x]
  BY DEF Goto, Inv
<1> QED
  BY <1>1, <1>2

LEMMA ReturnTyped ==
  ASSUME Inv, NEW e \in Runs, Return(e)
  PROVE  \E x \in Execs :
           /\ exec' = [exec EXCEPT ![e] = x]
           /\ x.pc = "done" /\ Len(x.again) <= x.total
<1> DEFINE x == [NotExecuting EXCEPT !.pc = "done", !.ctx = exec[e].ctx]
<1>1. exec[e].ctx \in {"live", "lost", "shutdown"}
  BY Facts DEF Execs
<1>2. x \in Execs /\ x.pc = "done" /\ Len(x.again) <= x.total
  <2>1. x \in Execs
    BY <1>1, NotExecutingTyped DEF Execs, Steps
  <2>2. x.pc = "done" /\ x.again = NotExecuting.again /\ x.total = NotExecuting.total
    BY DEF NotExecuting
  <2> QED
    BY <2>1, <2>2, NotExecutingTyped
<1>3. exec' = [exec EXCEPT ![e] = x]
  BY DEF Return
<1> HIDE DEF x
<1> QED
  BY <1>2, <1>3

WaysOut == {"canceling", "failing", "done"}

LEMMA OutTyped ==
  ASSUME Inv, NEW e \in Runs, NEW pc \in WaysOut, Goto(e, pc)
  PROVE  \E x \in Execs :
           /\ exec' = [exec EXCEPT ![e] = x]
           /\ x.pc = pc /\ Len(x.again) <= x.total
<1>1. pc \in Steps
  BY DEF WaysOut, Steps
<1>2. PICK x \in Execs : /\ exec' = [exec EXCEPT ![e] = x]
                         /\ x = [exec[e] EXCEPT !.pc = pc]
  BY <1>1, GotoTyped
<1>3. x.pc = pc /\ x.again = exec[e].again /\ x.total = exec[e].total
  BY <1>2, Facts DEF Execs
<1> QED
  BY <1>2, <1>3, Facts DEF RunInv

LEMMA FailOrCancelTyped ==
  ASSUME Inv, NEW e \in Runs, FailOrCancel(e)
  PROVE  \E x \in Execs :
           /\ exec' = [exec EXCEPT ![e] = x]
           /\ x.pc \in WaysOut /\ Len(x.again) <= x.total
<1>1. CASE Return(e)
  BY <1>1, ReturnTyped DEF WaysOut
<1>2. CASE Goto(e, "canceling")
  BY <1>2, OutTyped DEF WaysOut
<1>3. CASE Goto(e, "failing")
  BY <1>3, OutTyped DEF WaysOut
<1> QED
  BY <1>1, <1>2, <1>3 DEF FailOrCancel

(* A way out, whatever becomes of the row.                                 *)
LEMMA OutMoves ==
  ASSUME Inv, NEW e \in Runs, exec[e].pc # "idle",
         NEW s \in Rows, NEW x \in Execs,
         row' = [row EXCEPT ![e] = s], exec' = [exec EXCEPT ![e] = x],
         x.pc \in WaysOut, Len(x.again) <= x.total,
         s.status \notin {"absent", "queued"},
         s.status = "succeeded" => x.pc # "canceling",
         s.status \in {"publishing", "succeeded"} => ~s.cancel,
         Lives(row[e], s)
  PROVE  Moves(e)
<1>1. RunInv(s, x)
  BY DEF RunInv, WaysOut, First, Second, Third
<1>2. x.pc # "idle"
  BY DEF WaysOut
<1> QED
  BY <1>1, <1>2 DEF Moves, MovesTo

LEMMA Underway ==
  ASSUME Inv, NEW e \in Runs, exec[e].pc \notin {"idle", "failing", "done"}
  PROVE  /\ row[e].status \notin {"absent", "queued", "succeeded"}
         /\ Lives(row[e], row[e])
         /\ row[e].status = "publishing" => ~row[e].cancel
BY Facts, NotExecutingTyped DEF RunInv, Lives

LEMMA FailOrCancelMoves ==
  ASSUME Inv, NEW e \in Runs, exec[e].pc \notin {"idle", "failing", "done"},
         FailOrCancel(e), UNCHANGED row
  PROVE  Moves(e)
<1>1. PICK x \in Execs : /\ exec' = [exec EXCEPT ![e] = x]
                         /\ x.pc \in WaysOut /\ Len(x.again) <= x.total
  BY FailOrCancelTyped
<1>2. row' = [row EXCEPT ![e] = row[e]] /\ row[e] \in Rows
  BY Facts
<1> QED
  BY <1>1, <1>2, Underway, OutMoves

LEMMA ReturnMoves ==
  ASSUME Inv, NEW e \in Runs, exec[e].pc \notin {"idle", "failing", "done"},
         Return(e), UNCHANGED row
  PROVE  Moves(e)
<1>1. PICK x \in Execs : /\ exec' = [exec EXCEPT ![e] = x]
                         /\ x.pc = "done" /\ Len(x.again) <= x.total
  BY ReturnTyped
<1>2. row' = [row EXCEPT ![e] = row[e]] /\ row[e] \in Rows
  BY Facts
<1> QED
  BY <1>1, <1>2, Underway, OutMoves DEF WaysOut

LEMMA GoOutMoves ==
  ASSUME Inv, NEW e \in Runs, exec[e].pc \notin {"idle", "failing", "done"},
         NEW pc \in {"failing", "canceling"}, Goto(e, pc), UNCHANGED row
  PROVE  Moves(e)
<1>1. PICK x \in Execs : /\ exec' = [exec EXCEPT ![e] = x]
                         /\ x.pc = pc /\ Len(x.again) <= x.total
  BY OutTyped DEF WaysOut
<1>2. row' = [row EXCEPT ![e] = row[e]] /\ row[e] \in Rows
  BY Facts
<1> QED
  BY <1>1, <1>2, Underway, OutMoves DEF WaysOut

(* A step of the executor that leaves its row alone.                       *)
LEMMA ExecMoves ==
  ASSUME Inv, NEW e \in Runs, NEW x \in Execs,
         exec' = [exec EXCEPT ![e] = x], UNCHANGED row,
         RunInv(row[e], x), x.pc = "idle" <=> exec[e].pc = "idle"
  PROVE  Moves(e)
<1>1. Lives(row[e], row[e])
  BY DEF Lives
<1> QED
  BY <1>1, Facts DEF Moves, MovesTo

LEMMA GoOnMoves ==
  ASSUME Inv, NEW e \in Runs, exec[e].pc \notin {"idle", "failing", "done"},
         NEW pc \in Steps, Goto(e, pc), UNCHANGED row,
         \/ pc \in First /\ exec[e].pc \in First
         \/ pc \in Second /\ exec[e].pc \in Second
         \/ pc \in Third /\ exec[e].pc \in Third
  PROVE  Moves(e)
<1>1. PICK x \in Execs : /\ exec' = [exec EXCEPT ![e] = x]
                         /\ x = [exec[e] EXCEPT !.pc = pc]
  BY GotoTyped
<1>2. /\ x.pc = pc /\ x.status = exec[e].status
      /\ x.again = exec[e].again /\ x.total = exec[e].total
  BY <1>1, Facts DEF Execs
<1>3. RunInv(row[e], x)
  BY <1>2, Facts, Underway DEF RunInv, First, Second, Third
<1> QED
  BY <1>1, <1>2, <1>3, ExecMoves DEF First, Second, Third

-----------------------------------------------------------------------------
(* The steps of the executor.                                              *)
LEMMA BeginMoves == ASSUME Inv, NEW e \in Runs, Begin(e) PROVE Moves(e)
<1>1. CASE Goto(e, "read")
  BY <1>1, GoOnMoves DEF Begin, First, Steps
<1>2. CASE FailOrCancel(e)
  BY <1>2, FailOrCancelMoves DEF Begin
<1> QED
  BY <1>1, <1>2 DEF Begin

LEMMA CheckMoves == ASSUME Inv, NEW e \in Runs, StopAtCheck(e) PROVE Moves(e)
<1>1. exec[e].pc \notin {"idle", "failing", "done"}
  BY DEF StopAtCheck, Checked
<1> QED
  BY <1>1, ReturnMoves, GoOutMoves DEF StopAtCheck

LEMMA TroubleMoves == ASSUME Inv, NEW e \in Runs, Trouble(e) PROVE Moves(e)
<1>1. exec[e].pc \notin {"idle", "failing", "done"}
  BY DEF Trouble, Checked
<1> QED
  BY <1>1, FailOrCancelMoves, GoOutMoves DEF Trouble

LEMMA ReadMoves == ASSUME Inv, NEW e \in Runs, Read(e) PROVE Moves(e)
<1> DEFINE page == PageAt(Len(exec[e].seen))
<1>1. CASE Goto(e, "failing")
  BY <1>1, GoOutMoves DEF Read
<1>2. CASE /\ exec' = [exec EXCEPT ![e].pc = "write", ![e].todo = Range(page),
                          ![e].seen = @ \o page, ![e].total = Len(Listing)]
           /\ PageFits(exec[e].seen, exec[e].total, page)
  <2> DEFINE x == [exec[e] EXCEPT !.pc = "write", !.todo = Range(page),
                     !.seen = @ \o page, !.total = Len(Listing)]
  <2>1. exec[e] \in Execs /\ source \subseteq Records
    BY Facts DEF Inv
  <2>2. exec[e].seen \in Seq(Records) /\ Len(exec[e].seen) \in Nat
    BY <2>1 DEF Execs
  <2>3. page \in Seq(Records)
    BY <2>1, <2>2, PageTyped
  <2>4. exec[e].seen \o page \in Seq(Records) /\ Range(page) \subseteq Records
    BY <2>2, <2>3 DEF Range
  <2>5. Len(Listing) \in 0..Cardinality(Records)
    BY <2>1, ListingTyped
  <2> HIDE DEF page
  <2>6. x \in Execs
    BY <2>1, <2>4, <2>5 DEF Execs, Steps
  <2>7. /\ x.pc = "write" /\ x.status = exec[e].status /\ x.again = exec[e].again
        /\ x.total = Len(Listing)
    BY <2>1 DEF Execs
  <2>8. exec' = [exec EXCEPT ![e] = x]
    <3>1. exec \in [Runs -> Execs]
      BY DEF Inv
    <3> QED
      BY <1>2, <3>1
  <2>9. Len(exec[e].again) <= Len(Listing)
    BY <1>2, <2>1, <2>2, <2>5, Facts DEF PageFits, RunInv, Execs
  <2>10. RunInv(row[e], x)
    BY <2>7, <2>9, Facts, Underway DEF RunInv, First, Second, Third, Read
  <2> QED
    BY <2>6, <2>7, <2>8, <2>10, ExecMoves DEF Read
<1> QED
  BY <1>1, <1>2 DEF Read

LEMMA WriteMoves ==
  ASSUME Inv, NEW e \in Runs, Write(e) \/ Written(e) \/ Advance(e) \/ PassCheck(e)
  PROVE  Moves(e)
<1>1. CASE Write(e)
  <2>1. PICK r \in exec[e].todo : exec' = [exec EXCEPT ![e].todo = @ \ {r}]
    BY <1>1 DEF Write
  <2> DEFINE x == [exec[e] EXCEPT !.todo = @ \ {r}]
  <2>2. exec[e] \in Execs
    BY Facts
  <2>3. x \in Execs
    BY <2>2 DEF Execs
  <2>4. x.pc = exec[e].pc /\ x.status = exec[e].status /\ x.again = exec[e].again
        /\ x.total = exec[e].total
    BY <2>2 DEF Execs
  <2>5. exec' = [exec EXCEPT ![e] = x]
    BY <2>1 DEF Inv
  <2>6. RunInv(row[e], x)
    BY <1>1, <2>4, Facts, Underway DEF RunInv, Write
  <2> QED
    BY <1>1, <2>3, <2>4, <2>5, <2>6, ExecMoves DEF Write
<1>2. CASE Written(e)
  BY <1>2, GoOnMoves, GoOutMoves, ReturnMoves DEF Written, First, Steps
<1>3. CASE Advance(e)
  <2>1. CASE FailOrCancel(e)
    BY <1>3, <2>1, FailOrCancelMoves DEF Advance
  <2>2. CASE Goto(e, "read") \/ Goto(e, "closing")
    BY <1>3, <2>2, GoOnMoves DEF Advance, First, Steps
  <2> QED
    BY <1>3, <2>1, <2>2 DEF Advance
<1>4. CASE PassCheck(e)
  BY <1>4, GoOnMoves DEF PassCheck, First, Second, Steps
<1> QED
  BY <1>1, <1>2, <1>3, <1>4

LEMMA RecheckMoves == ASSUME Inv, NEW e \in Runs, Recheck(e) PROVE Moves(e)
<1> DEFINE again == exec[e].again \o PageAt(Len(exec[e].again))
           total == exec[e].total
           pc == IF Len(again) = total THEN "agreed" ELSE exec[e].pc
           x == [exec[e] EXCEPT !.again = again, !.pc = pc]
<1>1. CASE FailOrCancel(e)
  BY <1>1, FailOrCancelMoves DEF Recheck
<1>2. CASE /\ TotalKept(total)
           /\ PageFits(exec[e].again, total, PageAt(Len(exec[e].again)))
           /\ exec' = [exec EXCEPT
                ![e].again = again,
                ![e].pc = IF Len(again) = total THEN "agreed" ELSE @]
  <2>1. exec[e] \in Execs /\ source \subseteq Records
    BY Facts DEF Inv
  <2>2. exec[e].again \in Seq(Records) /\ Len(exec[e].again) \in Nat
    BY <2>1 DEF Execs
  <2>3. PageAt(Len(exec[e].again)) \in Seq(Records)
    BY <2>1, <2>2, PageTyped
  <2>4. /\ again \in Seq(Records)
        /\ Len(again) = Len(exec[e].again) + Len(PageAt(Len(exec[e].again)))
    BY <2>2, <2>3
  <2>5. Len(again) <= total
    BY <1>2, <2>4 DEF PageFits, TotalKept
  <2>6. exec' = [exec EXCEPT ![e] = x]
    <3>1. exec \in [Runs -> Execs]
      BY DEF Inv
    <3> QED
      BY <1>2, <3>1
  <2> HIDE DEF again, pc
  <2>9. exec[e].pc = "recheck" /\ pc \in {"recheck", "agreed"}
    BY <1>2 DEF Recheck, pc
  <2>7. x \in Execs
    BY <2>1, <2>4, <2>9 DEF Execs, Steps
  <2>8. x.pc = pc /\ x.again = again /\ x.total = total /\ x.status = exec[e].status
    BY <2>1 DEF Execs
  <2>10. RunInv(row[e], x)
    BY <2>5, <2>8, <2>9, Facts, Underway DEF RunInv, First, Second, Third
  <2> QED
    BY <2>6, <2>7, <2>8, <2>9, <2>10, ExecMoves DEF Recheck
<1> QED
  BY <1>1, <1>2 DEF Recheck

LEMMA CleanMoves ==
  ASSUME Inv, NEW e \in Runs, Match(e) \/ Delete(e) \/ CleanupFails(e)
  PROVE  Moves(e)
<1>1. CASE Match(e)
  <2> DEFINE pc == IF Unseen(e) = {} THEN "complete" ELSE "delete"
             x == [exec[e] EXCEPT !.todo = Unseen(e), !.pc = pc]
  <2>1. exec[e] \in Execs /\ Unseen(e) \subseteq Records /\ pc \in {"complete", "delete"}
    BY Facts DEF Unseen
  <2>2. exec' = [exec EXCEPT ![e] = x]
    BY <1>1 DEF Match, Inv
  <2> HIDE DEF pc
  <2>3. x \in Execs
    BY <2>1 DEF Execs, Steps
  <2>4. x.pc = pc /\ x.status = exec[e].status /\ x.again = exec[e].again
        /\ x.total = exec[e].total
    BY <2>1 DEF Execs
  <2>5. RunInv(row[e], x)
    BY <1>1, <2>1, <2>4, Facts, Underway DEF RunInv, First, Second, Third, Match
  <2> QED
    BY <1>1, <2>1, <2>2, <2>3, <2>4, <2>5, ExecMoves DEF Match
<1>2. CASE Delete(e)
  <2> DEFINE x == [exec[e] EXCEPT !.pc = "clean", !.todo = {}]
  <2>1. exec[e] \in Execs
    BY Facts
  <2>2. exec' = [exec EXCEPT ![e] = x]
    BY <1>2 DEF Delete, Inv
  <2>3. x \in Execs
    BY <2>1 DEF Execs, Steps
  <2>4. x.pc = "clean" /\ x.status = exec[e].status /\ x.again = exec[e].again
        /\ x.total = exec[e].total
    BY <2>1 DEF Execs
  <2>5. RunInv(row[e], x)
    BY <1>2, <2>4, Facts, Underway DEF RunInv, First, Second, Third, Delete
  <2> QED
    BY <1>2, <2>2, <2>3, <2>4, <2>5, ExecMoves DEF Delete
<1>3. CASE CleanupFails(e)
  BY <1>3, GoOutMoves, ReturnMoves DEF CleanupFails
<1> QED
  BY <1>1, <1>2, <1>3

LEMMA StatusWritten ==
  ASSUME Inv, NEW e \in Runs, NEW to \in InFlight \cup Ended \cup {"queued"},
         row' = [row EXCEPT ![e].status = to]
  PROVE  \E s \in Rows : /\ row' = [row EXCEPT ![e] = s]
                         /\ s.status = to /\ s.cancel = row[e].cancel
<1> DEFINE s == [row[e] EXCEPT !.status = to]
<1>1. s \in Rows /\ s.status = to /\ s.cancel = row[e].cancel
  BY Facts DEF Rows
<1>2. row' = [row EXCEPT ![e] = s]
  BY DEF Inv
<1> QED
  BY <1>1, <1>2

LEMMA LeaseUntouched ==
  ASSUME Inv, NEW e \in Runs, NEW to \in InFlight \cup Ended \cup {"queued"},
         row' = [row EXCEPT ![e].status = to]
  PROVE  \E s \in Rows : /\ row' = [row EXCEPT ![e] = s]
                         /\ s.status = to /\ s.lapsed = row[e].lapsed
<1> DEFINE s == [row[e] EXCEPT !.status = to]
<1>1. s \in Rows /\ s.status = to /\ s.lapsed = row[e].lapsed
  BY Facts DEF Rows
<1>2. row' = [row EXCEPT ![e] = s]
  BY DEF Inv
<1> QED
  BY <1>1, <1>2

LEMMA TransitionMoves ==
  ASSUME Inv, NEW e \in Runs, NEW to, NEW pc, Transition(e, to, pc),
         \/ exec[e].pc = "validate" /\ to = "validating" /\ pc = "recheck"
         \/ exec[e].pc = "publish" /\ to = "publishing" /\ pc \in {"clean", "complete"}
  PROVE  Moves(e)
<1>1. exec[e].pc \notin {"idle", "failing", "done"}
  OBVIOUS
<1>2. CASE FailOrCancel(e) /\ UNCHANGED row
  BY <1>1, <1>2, FailOrCancelMoves
<1>3. ASSUME RowPermits(e, to), row' = [row EXCEPT ![e].status = to]
      PROVE  \E s \in Rows : /\ row' = [row EXCEPT ![e] = s]
                             /\ s.status = to /\ s.cancel = row[e].cancel
                             /\ Lives(row[e], s)
                             /\ to = "publishing" => ~s.cancel
  <2>1. to \in InFlight \cup Ended \cup {"queued"}
    BY DEF InFlight
  <2>2. PICK s \in Rows : /\ row' = [row EXCEPT ![e] = s]
                          /\ s.status = to /\ s.cancel = row[e].cancel
    BY <1>3, <2>1, StatusWritten
  <2>3. row[e].status = exec[e].status /\ (to = "publishing" => ~row[e].cancel)
    BY <1>3 DEF RowPermits
  <2>4. exec[e].status = IF to = "validating" THEN "running" ELSE "validating"
    BY Facts DEF RunInv, First, Second
  <2>5. Lives(row[e], s)
    BY <2>2, <2>3, <2>4 DEF Lives
  <2> QED
    BY <2>2, <2>3, <2>5
<1>4. CASE /\ RowPermits(e, to) /\ row' = [row EXCEPT ![e].status = to]
           /\ FailOrCancel(e)
  <2>1. PICK s \in Rows : /\ row' = [row EXCEPT ![e] = s]
                          /\ s.status = to /\ s.cancel = row[e].cancel
                          /\ Lives(row[e], s) /\ (to = "publishing" => ~s.cancel)
    BY <1>3, <1>4
  <2>2. PICK x \in Execs : /\ exec' = [exec EXCEPT ![e] = x]
                           /\ x.pc \in WaysOut /\ Len(x.again) <= x.total
    BY <1>4, FailOrCancelTyped
  <2> QED
    BY <1>1, <2>1, <2>2, OutMoves
<1>5. CASE /\ RowPermits(e, to) /\ row' = [row EXCEPT ![e].status = to]
           /\ exec' = [exec EXCEPT
                ![e].status = to, ![e].pc = pc,
                ![e].quiet = @ \/ to = "validating",
                ![e].listed = IF to = "validating" THEN source ELSE @]
  <2> DEFINE quiet == exec[e].quiet \/ to = "validating"
             listed == IF to = "validating" THEN source ELSE exec[e].listed
             x == [exec[e] EXCEPT !.status = to, !.pc = pc, !.quiet = quiet,
                                  !.listed = listed]
  <2>1. PICK s \in Rows : /\ row' = [row EXCEPT ![e] = s]
                          /\ s.status = to /\ s.cancel = row[e].cancel
                          /\ Lives(row[e], s) /\ (to = "publishing" => ~s.cancel)
    BY <1>3, <1>5
  <2>2. exec[e] \in Execs /\ source \subseteq Records
    BY Facts DEF Inv
  <2>3. quiet \in BOOLEAN /\ listed \subseteq Records
    BY <2>2 DEF Execs
  <2>4. exec' = [exec EXCEPT ![e] = x]
    <3>1. exec \in [Runs -> Execs]
      BY DEF Inv
    <3> QED
      BY <1>5, <2>2, <3>1 DEF Execs
  <2> HIDE DEF quiet, listed
  <2>5. pc \in Steps /\ to \in InFlight
    BY DEF Steps, InFlight
  <2>6. x \in Execs
    BY <2>2, <2>3, <2>5 DEF Execs
  <2>7. x.pc = pc /\ x.status = to /\ x.again = exec[e].again /\ x.total = exec[e].total
    BY <2>2 DEF Execs
  <2>8. RunInv(s, x)
    BY <2>1, <2>7, Facts DEF RunInv, First, Second, Third
  <2>9. x.pc # "idle" /\ exec[e].pc # "idle"
    BY <2>7
  <2> HIDE DEF x
  <2> QED
    BY <2>1, <2>4, <2>6, <2>8, <2>9 DEF Moves, MovesTo
<1> QED
  BY <1>2, <1>4, <1>5 DEF Transition

LEMMA CompleteMoves == ASSUME Inv, NEW e \in Runs, Complete(e) PROVE Moves(e)
<1>1. exec[e].pc = "complete"
  BY DEF Complete
<1>2. CASE UNCHANGED row /\ (Return(e) \/ Goto(e, "failing"))
  BY <1>1, <1>2, ReturnMoves, GoOutMoves
<1>3. CASE /\ Completes(e) /\ row' = [row EXCEPT ![e].status = "succeeded"]
           /\ Return(e) \/ Goto(e, "failing")
  <2>1. PICK s \in Rows : /\ row' = [row EXCEPT ![e] = s]
                          /\ s.status = "succeeded" /\ s.cancel = row[e].cancel
    BY <1>3, StatusWritten DEF Ended
  <2>2. Lives(row[e], s) /\ ~s.cancel
    BY <1>3, <2>1 DEF Completes, Lives
  <2>3. PICK x \in Execs : /\ exec' = [exec EXCEPT ![e] = x]
                           /\ x.pc \in {"failing", "done"} /\ Len(x.again) <= x.total
    <3>1. CASE Return(e)
      BY <3>1, ReturnTyped
    <3>2. CASE Goto(e, "failing")
      BY <3>2, OutTyped DEF WaysOut
    <3> QED
      BY <1>3, <3>1, <3>2
  <2> QED
    BY <1>1, <2>1, <2>2, <2>3, OutMoves DEF WaysOut
<1> QED
  BY <1>2, <1>3 DEF Complete

LEMMA EndMoves ==
  ASSUME Inv, NEW e \in Runs,
         End(e, "failing", "failed") \/ End(e, "canceling", "canceled")
  PROVE  Moves(e)
<1>1. PICK pc \in {"failing", "canceling"}, to \in {"failed", "canceled"} : End(e, pc, to)
  OBVIOUS
<1>2. exec[e].pc \in {"failing", "canceling"} /\ Return(e)
  BY <1>1 DEF End
<1>3. PICK x \in Execs : /\ exec' = [exec EXCEPT ![e] = x]
                         /\ x.pc = "done" /\ Len(x.again) <= x.total
  BY <1>2, ReturnTyped
<1>4. row[e].status \notin {"absent", "queued"}
  BY <1>2, Facts, NotExecutingTyped DEF RunInv
<1>5. CASE UNCHANGED row
  <2>1. /\ row' = [row EXCEPT ![e] = row[e]] /\ row[e] \in Rows
        /\ Lives(row[e], row[e])
        /\ row[e].status \in {"publishing", "succeeded"} => ~row[e].cancel
    BY <1>5, Facts DEF Lives, RunInv
  <2> QED
    BY <1>2, <1>3, <1>4, <2>1, OutMoves DEF WaysOut
<1>6. CASE RowEnds(e, to) /\ row' = [row EXCEPT ![e].status = to]
  <2>1. PICK s \in Rows : /\ row' = [row EXCEPT ![e] = s]
                          /\ s.status = to /\ s.cancel = row[e].cancel
    BY <1>6, StatusWritten DEF Ended
  <2>2. row[e].status \in InFlight /\ (to = "canceled" => row[e].status # "publishing")
    BY <1>6, Facts DEF RowEnds, Execs
  <2>3. Lives(row[e], s)
    BY <2>1, <2>2 DEF Lives, InFlight
  <2> QED
    BY <1>2, <1>3, <2>1, <2>3, OutMoves DEF WaysOut
<1> QED
  BY <1>1, <1>5, <1>6 DEF End

LEMMA StepMoves == ASSUME Inv, NEW e \in Runs, Step(e) PROVE Moves(e)
<1>1. CASE ToValidating(e) \/ ToPublishing(e)
  BY <1>1, TransitionMoves DEF ToValidating, ToPublishing
<1> QED
  BY <1>1, BeginMoves, CheckMoves, TroubleMoves, ReadMoves, WriteMoves, RecheckMoves,
     CleanMoves, CompleteMoves, EndMoves DEF Step

-----------------------------------------------------------------------------
(* The environment.                                                        *)
LEMMA RowMoves ==
  ASSUME Inv, NEW e \in Runs, NEW s \in Rows, row' = [row EXCEPT ![e] = s],
         UNCHANGED exec, RunInv(s, exec[e]),
         \/ Lives(row[e], s)
         \/ /\ row[e].status = "absent" /\ s.status = "queued" /\ ~s.cancel
            /\ \A d \in Runs : d < e => row[d].status \in Ended
  PROVE  Moves(e)
<1>1. exec[e] \in Execs /\ exec' = [exec EXCEPT ![e] = exec[e]]
  BY Facts
<1>2. row[e].status = "absent" => exec[e].pc = "idle"
  BY Facts, NotExecutingTyped DEF RunInv
<1> QED
  BY <1>1, <1>2 DEF Moves, MovesTo, Begins

LEMMA EnqueueMoves ==
  ASSUME Inv, NEW e \in Runs, Enqueue(e) \/ Claim(e)
  PROVE  Moves(e)
<1>1. CASE Enqueue(e)
  <2>1. PICK s \in Rows : /\ row' = [row EXCEPT ![e] = s]
                          /\ s.status = "queued" /\ s.cancel = row[e].cancel
    BY <1>1, StatusWritten DEF Enqueue
  <2>2. ~row[e].cancel /\ exec[e] = NotExecuting
    BY <1>1, Facts DEF RunInv, Enqueue
  <2>3. RunInv(s, exec[e])
    BY <2>1, <2>2, NotExecutingTyped, Facts DEF RunInv, First, Second, Third
  <2> QED
    BY <1>1, <2>1, <2>2, <2>3, RowMoves DEF Enqueue
<1>2. CASE Claim(e)
  <2>1. PICK s \in Rows : /\ row' = [row EXCEPT ![e] = s]
                          /\ s.status = "running" /\ s.cancel = row[e].cancel
    BY <1>2, StatusWritten DEF Claim, InFlight
  <2>2. exec[e] = NotExecuting
    BY <1>2, Facts DEF RunInv, Claim
  <2>3. PICK x \in Execs : /\ exec' = [exec EXCEPT ![e] = x]
                           /\ x = [exec[e] EXCEPT !.pc = "begin"]
    BY <1>2, GotoTyped DEF Claim, Steps
  <2>4. /\ x.pc = "begin" /\ x.status = "running"
        /\ x.again = NotExecuting.again /\ x.total = NotExecuting.total
    BY <2>2, <2>3 DEF NotExecuting
  <2>5. RunInv(s, x)
    BY <2>1, <2>4, NotExecutingTyped DEF RunInv, First, Second, Third
  <2>6. Begins(e, s, x)
    BY <1>2, <2>1, <2>2, <2>4, NotExecutingTyped DEF Begins, Claim
  <2> QED
    BY <2>1, <2>3, <2>5, <2>6 DEF Moves, MovesTo
<1> QED
  BY <1>1, <1>2

LEMMA OtherMoves ==
  ASSUME Inv, NEW e \in Runs,
         Cancel(e) \/ Lapse(e) \/ Expire(e) \/ HeartbeatFails(e) \/ Shutdown(e)
  PROVE  Moves(e)
<1>1. CASE Cancel(e)
  <2> DEFINE to == IF row[e].status = "queued" THEN "canceled" ELSE row[e].status
             s == [row[e] EXCEPT !.cancel = TRUE, !.status = to]
  <2>1. row[e] \in Rows
    BY Facts
  <2>2. row' = [row EXCEPT ![e] = s]
    <3>1. row \in [Runs -> Rows]
      BY DEF Inv
    <3> QED
      BY <1>1, <2>1, <3>1 DEF Cancel, Rows
  <2>3. row[e].status \in {"queued", "running", "validating"}
    BY <1>1 DEF Cancel
  <2>4. s \in Rows /\ s.cancel = TRUE /\ s.status = to
    BY <2>1, <2>3 DEF Rows, InFlight, Ended
  <2> HIDE DEF s
  <2>5. Lives(row[e], s)
    BY <2>3, <2>4 DEF Lives
  <2>6. RunInv(s, exec[e])
    BY <2>3, <2>4, Facts, NotExecutingTyped DEF RunInv, First, Second, Third, Ended
  <2> QED
    BY <1>1, <2>2, <2>4, <2>5, <2>6, RowMoves DEF Cancel
<1>2. CASE Lapse(e)
  <2> DEFINE s == [row[e] EXCEPT !.lapsed = TRUE]
  <2>1. s \in Rows /\ s.status = row[e].status /\ s.cancel = row[e].cancel
    BY Facts DEF Rows
  <2>2. row' = [row EXCEPT ![e] = s]
    BY <1>2 DEF Lapse, Inv
  <2> HIDE DEF s
  <2>3. RunInv(s, exec[e]) /\ Lives(row[e], s)
    BY <2>1, Facts DEF RunInv, Lives
  <2> QED
    BY <1>2, <2>1, <2>2, <2>3, RowMoves DEF Lapse
<1>3. CASE Expire(e)
  <2>1. PICK s \in Rows : /\ row' = [row EXCEPT ![e] = s]
                          /\ s.status = IF row[e].cancel THEN "canceled" ELSE "failed"
                          /\ s.cancel = row[e].cancel
    <3>1. (IF row[e].cancel THEN "canceled" ELSE "failed") \in InFlight \cup Ended \cup {"queued"}
      BY DEF Ended
    <3>2. row' = [row EXCEPT ![e].status = IF row[e].cancel THEN "canceled" ELSE "failed"]
      BY <1>3 DEF Expire
    <3> QED
      BY <3>1, <3>2, StatusWritten
  <2>2. row[e].status \in InFlight /\ (row[e].cancel => row[e].status # "publishing")
    BY <1>3, Facts DEF Expire, RunInv
  <2>3. Lives(row[e], s)
    BY <2>1, <2>2 DEF Lives, InFlight
  <2>4. RunInv(s, exec[e])
    BY <2>1, <2>2, Facts DEF RunInv, InFlight, Ended
  <2> QED
    BY <1>3, <2>1, <2>3, <2>4, RowMoves DEF Expire
<1>4. ASSUME NEW ctx \in {"lost", "shutdown"}, exec' = [exec EXCEPT ![e].ctx = ctx],
             UNCHANGED row, exec[e].pc \notin {"idle", "done"}
      PROVE  Moves(e)
  <2> DEFINE x == [exec[e] EXCEPT !.ctx = ctx]
  <2>1. exec[e] \in Execs
    BY Facts
  <2>2. x \in Execs
    BY <2>1 DEF Execs
  <2>3. exec' = [exec EXCEPT ![e] = x]
    BY <1>4 DEF Inv
  <2>4. /\ x.pc = exec[e].pc /\ x.status = exec[e].status /\ x.again = exec[e].again
        /\ x.total = exec[e].total
    BY <2>1 DEF Execs
  <2>5. exec[e] # NotExecuting
    BY <1>4, NotExecutingTyped
  <2> HIDE DEF x
  <2>6. RunInv(row[e], x)
    BY <2>4, <2>5, Facts DEF RunInv
  <2> QED
    BY <1>4, <2>2, <2>3, <2>4, <2>6, ExecMoves
<1>5. CASE HeartbeatFails(e)
  BY <1>4, <1>5 DEF HeartbeatFails
<1>6. CASE Shutdown(e)
  BY <1>4, <1>6 DEF Shutdown
<1> QED
  BY <1>1, <1>2, <1>3, <1>5, <1>6

-----------------------------------------------------------------------------
(* Every step of a run keeps what is known of all of them.                 *)
LEMMA MovesKeep ==
  ASSUME Inv, NEW e \in Runs, Moves(e)
  PROVE  /\ row' \in [Runs -> Rows] /\ exec' \in [Runs -> Execs]
         /\ \A d \in Runs : RunInv(row'[d], exec'[d])
         /\ InOrder'
<1>1. PICK s \in Rows, x \in Execs : MovesTo(e, s, x)
  BY DEF Moves
<1>2. /\ row' = [row EXCEPT ![e] = s] /\ exec' = [exec EXCEPT ![e] = x]
      /\ RunInv(s, x) /\ row \in [Runs -> Rows] /\ exec \in [Runs -> Execs]
  BY <1>1 DEF MovesTo, Inv
<1>3. \A d \in Runs : /\ row'[d] = IF d = e THEN s ELSE row[d]
                      /\ exec'[d] = IF d = e THEN x ELSE exec[d]
  BY <1>2
<1>4. \A d \in Runs : RunInv(row'[d], exec'[d])
  BY <1>2, <1>3 DEF Inv
<1>5. /\ row[e].status \in Ended => s.status \in Ended
      /\ row[e].status = "absent" /\ s.status # "absent" =>
           \A d \in Runs : d < e => row[d].status \in Ended
  BY <1>1 DEF MovesTo, Lives, Begins, Ended, InFlight
<1>6. ASSUME NEW d \in Runs, NEW f \in Runs, d < f, row'[f].status # "absent"
      PROVE  row'[d].status \in Ended
  <2>1. d # f
    BY <1>6, RunsNat
  <2>2. row[f].status # "absent" => row[d].status \in Ended
    BY <1>6 DEF Inv, InOrder
  <2>3. CASE f = e
    BY <1>3, <1>5, <1>6, <2>1, <2>2, <2>3
  <2>4. CASE f # e
    BY <1>3, <1>5, <1>6, <2>2, <2>4
  <2> QED
    BY <2>3, <2>4
<1>7. InOrder'
  BY <1>6 DEF InOrder
<1> QED
  BY <1>2, <1>4, <1>7

LEMMA GraphTyped ==
  ASSUME Inv, Next
  PROVE  source' \subseteq Records /\ graph' \in [Records -> Stamps]
<1>1. source \subseteq Records /\ graph \in [Records -> Stamps]
  BY DEF Inv
<1>2. ASSUME NEW e \in Runs, Write(e)
      PROVE  source' \subseteq Records /\ graph' \in [Records -> Stamps]
  <2>1. PICK r \in exec[e].todo : graph' = [graph EXCEPT ![r] =
                                     IF @ < Snapshot(e) THEN Snapshot(e) ELSE @]
    BY <1>2 DEF Write
  <2>2. Snapshot(e) \in Stamps
    BY DEF Stamps
  <2> QED
    BY <1>1, <1>2, <2>1, <2>2 DEF Write
<1>3. ASSUME NEW e \in Runs, Delete(e)
      PROVE  source' \subseteq Records /\ graph' \in [Records -> Stamps]
  BY <1>1, <1>3 DEF Delete, Stamps
<1>4. ASSUME NEW e \in Runs, Step(e), ~Write(e), ~Delete(e)
      PROVE  UNCHANGED <<source, graph>>
  BY <1>4 DEF Step, Begin, StopAtCheck, Trouble, Read, Written, Advance, PassCheck,
     ToValidating, Recheck, ToPublishing, Match, CleanupFails, Complete, End
<1>5. ASSUME NEW e \in Runs, Environment(e)
      PROVE  UNCHANGED <<source, graph>>
  BY <1>5 DEF Environment, Enqueue, Claim, Cancel, Lapse, Expire, HeartbeatFails, Shutdown
<1>6. ASSUME NEW r \in Records, SourceChanges(r)
      PROVE  source' \subseteq Records /\ graph' = graph
  BY <1>1, <1>6 DEF SourceChanges
<1> QED
  BY <1>1, <1>2, <1>3, <1>4, <1>5, <1>6 DEF Next

LEMMA SourceKeeps ==
  ASSUME Inv, NEW r \in Records, SourceChanges(r)
  PROVE  /\ row' = row /\ exec' \in [Runs -> Execs]
         /\ \A e \in Runs : RunInv(row[e], exec'[e]) /\ exec'[e].pc = exec[e].pc
<1>1. row' = row
  BY DEF SourceChanges
<1>2. ASSUME NEW e \in Runs
      PROVE  exec'[e] \in Execs /\ RunInv(row[e], exec'[e]) /\ exec'[e].pc = exec[e].pc
  <2>1. exec[e] \in Execs /\ RunInv(row[e], exec[e])
    BY Facts
  <2>2. CASE exec[e].pc = "recheck"
    <3> DEFINE x == [exec[e] EXCEPT !.quiet = FALSE]
    <3>1. exec'[e] = x
      BY <2>2 DEF SourceChanges
    <3>2. x \in Execs
      BY <2>1 DEF Execs
    <3>3. /\ x.pc = "recheck" /\ x.status = exec[e].status
          /\ x.again = exec[e].again /\ x.total = exec[e].total
      BY <2>1, <2>2 DEF Execs
    <3>4. exec[e] # NotExecuting
      BY <2>2, NotExecutingTyped
    <3> HIDE DEF x
    <3>5. RunInv(row[e], x)
      BY <2>1, <2>2, <3>3, <3>4 DEF RunInv
    <3> QED
      BY <2>2, <3>1, <3>2, <3>3, <3>5
  <2>3. CASE exec[e].pc # "recheck"
    BY <2>1, <2>3 DEF SourceChanges
  <2> QED
    BY <2>2, <2>3
<1>3. exec' \in [Runs -> Execs]
  BY <1>2 DEF SourceChanges
<1> QED
  BY <1>1, <1>2, <1>3

LEMMA NextKeeps == ASSUME Inv, [Next]_vars PROVE Inv'
<1>1. CASE UNCHANGED vars
  BY <1>1 DEF vars, Inv, InOrder
<1>2. ASSUME NEW e \in Runs, Step(e) \/ Environment(e)
      PROVE  Inv'
  <2>1. Moves(e)
    BY <1>2, StepMoves, EnqueueMoves, OtherMoves DEF Environment
  <2>2. Next
    BY <1>2 DEF Next
  <2> QED
    BY <2>1, <2>2, MovesKeep, GraphTyped DEF Inv
<1>3. ASSUME NEW r \in Records, SourceChanges(r)
      PROVE  Inv'
  <2>1. Next
    BY <1>3 DEF Next
  <2>2. InOrder'
    BY <1>3, SourceKeeps DEF Inv, InOrder
  <2>3. /\ row' \in [Runs -> Rows]
        /\ \A e \in Runs : RunInv(row'[e], exec'[e])
    BY <1>3, SourceKeeps DEF Inv
  <2> QED
    BY <1>3, <2>1, <2>2, <2>3, SourceKeeps, GraphTyped DEF Inv
<1> QED
  BY <1>1, <1>2, <1>3 DEF Next

LEMMA InitKeeps == Init => Inv
<1>1. SUFFICES ASSUME Init PROVE Inv
  OBVIOUS
<1>2. row \in [Runs -> Rows] /\ exec \in [Runs -> Execs]
  BY <1>1, NotExecutingTyped DEF Init, Rows
<1>3. source \subseteq Records /\ graph \in [Records -> Stamps]
  BY <1>1 DEF Init, Stamps
<1>4. \A e \in Runs : RunInv(row[e], exec[e])
  BY <1>1, NotExecutingTyped DEF Init, RunInv, First, Second, Third
<1>5. InOrder
  BY <1>1 DEF Init, InOrder
<1> QED
  BY <1>2, <1>3, <1>4, <1>5 DEF Inv

(* The inductive invariant holds in every state.                           *)
LEMMA Invariance == Spec => []Inv
BY InitKeeps, NextKeeps, PTL DEF Spec

-----------------------------------------------------------------------------
(* What follows of it for the types and for canceled runs.                 *)
LEMMA InvImplies == Inv => WorkerInvariant
<1>1. SUFFICES ASSUME Inv PROVE WorkerInvariant
  OBVIOUS
<1>2. ASSUME NEW e \in Runs
      PROVE  /\ exec[e].pc \in Steps
             /\ exec[e].ctx \in {"live", "lost", "shutdown"}
             /\ exec[e].status \in InFlight
             /\ exec[e].total \in 0..Cardinality(Records)
             /\ Range(exec[e].seen) \cup Range(exec[e].again) \subseteq Records
             /\ exec[e].todo \subseteq Records
             /\ Len(exec[e].again) <= exec[e].total
             /\ row[e].status \in {"absent", "queued"} => exec[e] = NotExecuting
             /\ row[e].status = "succeeded" => exec[e].pc \in {"failing", "done"}
             /\ row[e].cancel => exec[e].pc \notin Third
  <2>1. exec[e] \in Execs /\ RunInv(row[e], exec[e])
    BY <1>1, Facts
  <2>2. Range(exec[e].seen) \cup Range(exec[e].again) \subseteq Records
    BY <2>1 DEF Execs, Range
  <2>3. row[e].cancel => exec[e].pc \notin Third
    BY <2>1 DEF RunInv
  <2> QED
    BY <2>1, <2>2, <2>3 DEF Execs, RunInv
<1>3. TypeOK
  BY <1>1, <1>2 DEF TypeOK, Inv, Rows, Stamps
<1>4. CanceledRunNeverCleans
  BY <1>2 DEF CanceledRunNeverCleans, Third
<1> QED
  BY <1>3, <1>4 DEF WorkerInvariant

(* The executor and its row agree on what has been done in every state: in *)
(* particular no run with an accepted cancellation ever gets to the        *)
(* cleanup, at any interleaving of executors, requests, expiries and       *)
(* faults (executeClaimed).                                                *)
THEOREM WorkerIsSound == Spec => []WorkerInvariant
BY Invariance, InvImplies, PTL

-----------------------------------------------------------------------------
(* The refinement.  LifeOf is the life that the mapping gives to a run.    *)
LifeOf(e, r, x) ==
  [status |-> r.status, source |-> IF r.status = "absent" THEN "none" ELSE "source",
   cancel |-> r.cancel, started |-> IF x.pc = "idle" THEN -1 ELSE Snapshot(e)]

LEMMA LifeMoves ==
  ASSUME Inv, NEW e \in Runs, NEW s \in Rows, NEW x \in Execs, MovesTo(e, s, x)
  PROVE  \/ LifeOf(e, s, x) = LifeOf(e, row[e], exec[e])
         \/ Life!Step(LifeOf(e, row[e], exec[e]), LifeOf(e, s, x))
<1> DEFINE r == row[e]
           old == LifeOf(e, r, exec[e])
           new == LifeOf(e, s, x)
<1>1. Snapshot(e) \in Nat /\ r \in Rows /\ RunInv(r, exec[e]) /\ RunInv(s, x)
  BY Facts, RunsNat DEF MovesTo
<1>2. CASE /\ Begins(e, s, x) /\ r.status = "absent"
  <2>1. ~r.cancel /\ r.cancel = FALSE /\ s.cancel = FALSE
    BY <1>1, <1>2 DEF RunInv, Begins, Rows
  <2>2. s.status = "queued" /\ x.pc = "idle" /\ exec[e].pc = "idle"
    BY <1>2 DEF Begins
  <2>3. old = Life!Unborn
    BY <1>2, <2>1, <2>2 DEF LifeOf, Life!Unborn
  <2>4. Life!Create(old, new)
    BY <2>1, <2>2, <2>3 DEF Life!Create, LifeOf
  <2> QED
    BY <2>4 DEF Life!Step
<1>3. CASE /\ Begins(e, s, x) /\ r.status # "absent"
  <2>1. /\ r.status = "queued" /\ s.status = "running" /\ s.cancel = r.cancel
        /\ x.pc # "idle"
    BY <1>3 DEF Begins
  <2>2. Life!Claim(old, new)
    BY <1>1, <2>1 DEF Life!Claim, LifeOf
  <2> QED
    BY <2>2 DEF Life!Step
<1>4. CASE /\ Lives(r, s) /\ (x.pc = "idle" <=> exec[e].pc = "idle")
  <2>1. new.started = old.started
    BY <1>4 DEF LifeOf
  <2>2. CASE s.status = r.status /\ s.cancel = r.cancel
    BY <2>1, <2>2 DEF LifeOf
  <2>3. CASE r.status \in {"running", "validating"} /\ s.status = r.status /\ s.cancel
    <3>1. s.cancel = TRUE
      BY <2>3 DEF Rows
    <3>2. Life!RequestCancel(old, new)
      BY <2>1, <2>3, <3>1 DEF Life!RequestCancel, LifeOf
    <3> QED
      BY <3>2 DEF Life!Step
  <2>4. CASE r.status = "queued" /\ s.status = "canceled" /\ s.cancel
    <3>1. s.cancel = TRUE
      BY <2>4 DEF Rows
    <3>2. Life!Withdraw(old, new)
      BY <2>1, <2>4, <3>1 DEF Life!Withdraw, LifeOf
    <3> QED
      BY <3>2 DEF Life!Step
  <2>5. CASE \/ r.status = "running" /\ s.status = "validating" /\ s.cancel = r.cancel
             \/ /\ r.status = "validating" /\ s.status = "publishing"
                /\ s.cancel = r.cancel /\ ~r.cancel
    <3>1. Life!Advance(old, new)
      BY <2>1, <2>5 DEF Life!Advance, LifeOf
    <3> QED
      BY <3>1 DEF Life!Step
  <2>6. CASE /\ r.status = "publishing" /\ s.status = "succeeded"
             /\ s.cancel = r.cancel /\ ~r.cancel
    <3>1. Life!Succeed(old, new)
      BY <2>1, <2>6 DEF Life!Succeed, LifeOf
    <3> QED
      BY <3>1 DEF Life!Step
  <2>7. CASE r.status \in InFlight /\ s.status = "failed" /\ s.cancel = r.cancel
    <3>1. Life!Fail(old, new)
      BY <2>1, <2>7 DEF Life!Fail, Life!Executed, InFlight, LifeOf
    <3> QED
      BY <3>1 DEF Life!Step
  <2>8. CASE /\ r.status \in {"running", "validating"} /\ s.status = "canceled"
             /\ s.cancel = r.cancel
    <3>1. Life!Stop(old, new)
      BY <2>1, <2>8 DEF Life!Stop, LifeOf
    <3> QED
      BY <3>1 DEF Life!Step
  <2> QED
    BY <1>4, <2>2, <2>3, <2>4, <2>5, <2>6, <2>7, <2>8 DEF Lives
<1> QED
  BY <1>2, <1>3, <1>4 DEF MovesTo

LEMMA OneIsAlive ==
  ASSUME Inv
  PROVE  \A d, e \in Runs :
           /\ LifeOf(d, row[d], exec[d]).status \in Life!Alive
           /\ LifeOf(e, row[e], exec[e]).status \in Life!Alive
           => d = e
<1>1. ASSUME NEW d \in Runs, NEW e \in Runs, d < e,
             row[d].status \in Life!Alive, row[e].status \in Life!Alive
      PROVE  FALSE
  <2>1. row[e].status # "absent"
    BY <1>1 DEF Life!Alive, Life!Executed
  <2>2. row[d].status \in Ended
    BY <1>1, <2>1 DEF Inv, InOrder
  <2> QED
    BY <1>1, <2>2 DEF Ended, Life!Alive, Life!Executed
<1>2. ASSUME NEW d \in Runs, NEW e \in Runs,
             row[d].status \in Life!Alive, row[e].status \in Life!Alive
      PROVE  d = e
  <2>1. d \in Nat /\ e \in Nat
    BY RunsNat
  <2>2. ~(d < e) /\ ~(e < d)
    BY <1>1, <1>2
  <2> QED
    BY <2>1, <2>2
<1> QED
  BY <1>2 DEF LifeOf

(* The rows go through the life cycle that RunLifecycle states, and no two *)
(* runs of the source are alive at once, whatever the executors, requests  *)
(* and expiries do.                                                        *)
THEOREM WorkerRefinesLifecycle == Spec => RunsFollowLifecycle
<1> DEFINE life == [e \in Runs |->
             [status |-> row[e].status,
              source |-> IF row[e].status = "absent" THEN "none" ELSE "source",
              cancel |-> row[e].cancel,
              started |-> IF exec[e].pc = "idle" THEN -1 ELSE Snapshot(e)]]
<1>1. Init => Life!Init
  <2>1. SUFFICES ASSUME Init PROVE Life!Init
    OBVIOUS
  <2>2. \A e \in Runs : life[e] = Life!Unborn
    BY <2>1, NotExecutingTyped DEF Init, Life!Unborn
  <2>3. Life!OneAlive
    BY <2>2 DEF Life!OneAlive, Life!Unborn, Life!Alive, Life!Executed
  <2> QED
    BY <2>2, <2>3 DEF Life!Init
<1>2. Inv /\ Inv' /\ [Next]_vars => [Life!Next]_life
  <2>1. SUFFICES ASSUME Inv, Inv', [Next]_vars
                 PROVE  [Life!Next]_life
    OBVIOUS
  <2>2. Life!OneAlive'
    <3>1. (\A d, e \in Runs :
             /\ LifeOf(d, row[d], exec[d]).status \in Life!Alive
             /\ LifeOf(e, row[e], exec[e]).status \in Life!Alive
             => d = e)'
      BY <2>1, OneIsAlive, PTL
    <3> QED
      BY <3>1 DEF Life!OneAlive, LifeOf, Life!Alive, Life!Executed
  <2>3. ASSUME NEW e \in Runs, Step(e) \/ Environment(e)
        PROVE  Life!Next
    <3>1. PICK s \in Rows, x \in Execs : MovesTo(e, s, x)
      BY <2>1, <2>3, StepMoves, EnqueueMoves, OtherMoves DEF Environment, Moves
    <3>2. \A d \in Runs : /\ row'[d] = IF d = e THEN s ELSE row[d]
                          /\ exec'[d] = IF d = e THEN x ELSE exec[d]
      BY <2>1, <3>1 DEF MovesTo, Inv
    <3>3. \A d \in Runs : d # e => life'[d] = life[d]
      BY <3>2
    <3>4. life'[e] = life[e] \/ Life!Step(life[e], life'[e])
      <4>1. life[e] = LifeOf(e, row[e], exec[e]) /\ life'[e] = LifeOf(e, s, x)
        BY <3>2 DEF LifeOf
      <4> QED
        BY <2>1, <3>1, <4>1, LifeMoves
    <3> HIDE DEF life
    <3>5. \A d \in Runs : life'[d] = life[d] \/ Life!Step(life[d], life'[d])
      BY <3>3, <3>4
    <3> QED
      BY <2>2, <3>5 DEF Life!Next, life
  <2>4. ASSUME NEW r \in Records, SourceChanges(r)
        PROVE  life' = life
    BY <2>1, <2>4, SourceKeeps
  <2>5. CASE UNCHANGED vars
    BY <2>5 DEF vars
  <2> QED
    BY <2>1, <2>3, <2>4, <2>5 DEF Next
<1> QED
  BY <1>1, <1>2, Invariance, PTL DEF Spec, RunsFollowLifecycle, Life!Spec

-----------------------------------------------------------------------------
(* What is published.  An executor is undisturbed if no lease runs out     *)
(* under an executor, or if no other run cleans up.                        *)
Executing == First \cup Second \cup Third

Undisturbed(e) == ~MayLapse \/ FullSource \subseteq {e}

(* As long as leases hold, an executor that is at work has a live row.     *)
LeaseInv(r, x) ==
  ~MayLapse => /\ r.lapsed => x.pc = "done"
               /\ x.pc \in Executing => r.status \in InFlight

(* The second pass repeats, while the source is quiet, its listing from    *)
(* the first record on; when it has agreed, what was listed has been read. *)
PassInv(e, x) ==
  /\ x.pc = "begin" => x.seen = <<>>
  /\ x.pc \in First \cup {"idle"} => x.again = <<>>
  /\ x.pc = "recheck" /\ x.quiet =>
       /\ x.listed = source
       /\ Len(x.again) <= Len(Listing)
       /\ \A i \in 1..Len(x.again) : x.again[i] = Listing[i]
  /\ x.pc \in {"agreed", "publish"} \cup Third /\ x.quiet =>
       x.listed \subseteq Range(x.seen)
  /\ x.pc \in {"clean", "delete"} => e \in FullSource

(* What has been read is in the graph, the page in hand excepted, and is   *)
(* not in a batch of the cleanup, which leaves nothing that is older.      *)
GraphInv(e, x, g) ==
  /\ Undisturbed(e) /\ x.pc \in Executing =>
       \A r \in Range(x.seen) : g[r] >= Snapshot(e) \/ (x.pc = "write" /\ r \in x.todo)
  /\ Undisturbed(e) /\ x.pc = "delete" => x.todo \cap Range(x.seen) = {}
  /\ ~MayLapse /\ x.pc = "complete" /\ e \in FullSource =>
       \A r \in Records : g[r] = Absent \/ g[r] >= Snapshot(e)

PublishInv ==
  /\ Inv
  /\ \A e \in Runs : /\ LeaseInv(row[e], exec[e])
                     /\ PassInv(e, exec[e])
                     /\ GraphInv(e, exec[e], graph)

LEMMA GraphNat ==
  ASSUME Inv, NEW r \in Records
  PROVE  graph[r] \in Nat
BY RunsNat DEF Inv, Stamps, Absent

(* While leases hold, one executor is at work.                             *)
LEMMA OneExecutes ==
  ASSUME PublishInv, ~MayLapse, NEW d \in Runs, NEW e \in Runs,
         exec[d].pc \in Executing, exec[e].pc \in Executing
  PROVE  d = e
<1>1. row[d].status \in InFlight /\ row[e].status \in InFlight
  BY DEF PublishInv, LeaseInv
<1>2. ~(d < e) /\ ~(e < d)
  BY <1>1 DEF PublishInv, Inv, InOrder, InFlight, Ended
<1> QED
  BY <1>2, RunsNat

LEMMA OthersDelete ==
  ASSUME PublishInv, NEW d \in Runs, NEW e \in Runs,
         exec[d].pc = "delete", exec[e].pc \in Executing, Undisturbed(e)
  PROVE  d = e
<1>1. CASE ~MayLapse
  BY <1>1, OneExecutes DEF Executing, Third
<1>2. CASE FullSource \subseteq {e}
  BY <1>2 DEF PublishInv, PassInv
<1> QED
  BY <1>1, <1>2 DEF Undisturbed

(* A step of one run, seen from all of them.                               *)
LEMMA RunKeeps ==
  ASSUME PublishInv, Inv', NEW e \in Runs, NEW s \in Rows, NEW x \in Execs,
         row' = [row EXCEPT ![e] = s], exec' = [exec EXCEPT ![e] = x],
         UNCHANGED source, LeaseInv(s, x), PassInv(e, x), GraphInv(e, x, graph'),
         \A d \in Runs : d # e => GraphInv(d, exec[d], graph')
  PROVE  PublishInv'
<1>1. ASSUME NEW d \in Runs
      PROVE  LeaseInv(row'[d], exec'[d]) /\ PassInv(d, exec'[d]) /\ GraphInv(d, exec'[d], graph')
  <2>1. /\ row'[d] = IF d = e THEN s ELSE row[d]
        /\ exec'[d] = IF d = e THEN x ELSE exec[d]
    BY DEF PublishInv, Inv
  <2> QED
    BY <2>1 DEF PublishInv
<1>2. Listing' = Listing
  BY DEF Listing
<1>3. ASSUME NEW d \in Runs
      PROVE  (PassInv(d, exec[d]))'
  BY <1>1, <1>2 DEF PassInv
<1>4. \A d \in Runs : (LeaseInv(row[d], exec[d]))' /\ (GraphInv(d, exec[d], graph))'
  BY <1>1 DEF LeaseInv, GraphInv
<1> QED
  BY <1>3, <1>4 DEF PublishInv

(* A way out claims nothing any more.                                      *)
LEMMA OutKeeps ==
  ASSUME PublishInv, Inv', NEW e \in Runs, NEW s \in Rows, NEW x \in Execs,
         row' = [row EXCEPT ![e] = s], exec' = [exec EXCEPT ![e] = x],
         UNCHANGED <<source, graph>>, s.lapsed = row[e].lapsed,
         exec[e].pc # "done", x.pc \in WaysOut
  PROVE  PublishInv'
<1>1. LeaseInv(s, x)
  BY DEF PublishInv, LeaseInv, WaysOut, Executing, First, Second, Third
<1>2. PassInv(e, x) /\ GraphInv(e, x, graph')
  BY DEF PassInv, GraphInv, WaysOut, Executing, First, Second, Third
<1>3. \A d \in Runs : GraphInv(d, exec[d], graph')
  BY DEF PublishInv
<1> QED
  BY <1>1, <1>2, <1>3, RunKeeps

LEMMA WayOutKeeps ==
  ASSUME PublishInv, Inv', NEW e \in Runs, exec[e].pc # "done", 
         UNCHANGED <<row, source, graph>>,
         \/ FailOrCancel(e) \/ Return(e)
         \/ Goto(e, "failing") \/ Goto(e, "canceling")
  PROVE  PublishInv'
<1>1. \E x \in Execs : exec' = [exec EXCEPT ![e] = x] /\ x.pc \in WaysOut
  BY FailOrCancelTyped, ReturnTyped, OutTyped DEF PublishInv, WaysOut
<1>2. row[e] \in Rows /\ row' = [row EXCEPT ![e] = row[e]]
  BY Facts DEF PublishInv
<1> QED
  BY <1>1, <1>2, OutKeeps

(* The executor goes on with the same records in hand.                     *)
LEMMA GoOnKeeps ==
  ASSUME PublishInv, Inv', NEW e \in Runs, NEW pc \in Steps, Goto(e, pc),
         UNCHANGED <<row, source, graph>>,
         \/ /\ exec[e].pc \in First \ {"write"} /\ pc \in First \ {"begin", "write"}
         \/ exec[e].pc = "write" /\ exec[e].todo = {} /\ pc = "advance"
         \/ exec[e].pc = "agreed" /\ pc = "publish"
  PROVE  PublishInv'
<1>1. PICK x \in Execs : /\ exec' = [exec EXCEPT ![e] = x]
                         /\ x = [exec[e] EXCEPT !.pc = pc]
  BY GotoTyped DEF PublishInv
<1>2. /\ x.pc = pc /\ x.seen = exec[e].seen /\ x.again = exec[e].again
      /\ x.todo = exec[e].todo /\ x.listed = exec[e].listed /\ x.quiet = exec[e].quiet
  BY <1>1, Facts DEF Execs, PublishInv
<1>3. row[e] \in Rows /\ row' = [row EXCEPT ![e] = row[e]]
  BY Facts DEF PublishInv
<1>4. LeaseInv(row[e], x)
  BY <1>2 DEF PublishInv, LeaseInv, Executing, First, Second, Third
<1>5. PassInv(e, x)
  BY <1>2 DEF PublishInv, PassInv, First, Third
<1>6. GraphInv(e, x, graph')
  BY <1>2 DEF PublishInv, GraphInv, Executing, First, Second, Third
<1>7. \A d \in Runs : GraphInv(d, exec[d], graph')
  BY DEF PublishInv
<1> QED
  BY <1>1, <1>3, <1>4, <1>5, <1>6, <1>7, RunKeeps

(* What the steps with records in hand make of the executor.               *)
LEMMA ReadTyped ==
  ASSUME Inv, NEW e \in Runs, Read(e), ~Goto(e, "failing")
  PROVE  \E x \in Execs, page \in Seq(Records) :
           /\ exec' = [exec EXCEPT ![e] = x]
           /\ x.pc = "write" /\ x.todo = Range(page)
           /\ x.seen = exec[e].seen \o page /\ x.again = exec[e].again
<1> DEFINE page == PageAt(Len(exec[e].seen))
           x == [exec[e] EXCEPT !.pc = "write", !.todo = Range(page),
                   !.seen = @ \o page, !.total = Len(Listing)]
<1>1. exec[e] \in Execs /\ source \subseteq Records /\ exec \in [Runs -> Execs]
  BY Facts DEF Inv
<1>2. exec[e].seen \in Seq(Records) /\ Len(exec[e].seen) \in Nat
  BY <1>1 DEF Execs
<1>3. page \in Seq(Records)
  BY <1>1, <1>2, PageTyped
<1>4. exec[e].seen \o page \in Seq(Records) /\ Range(page) \subseteq Records
  BY <1>2, <1>3 DEF Range
<1>5. Len(Listing) \in 0..Cardinality(Records)
  BY <1>1, ListingTyped
<1>6. exec' = [exec EXCEPT ![e].pc = "write", ![e].todo = Range(page),
                           ![e].seen = @ \o page, ![e].total = Len(Listing)]
  BY DEF Read
<1> HIDE DEF page
<1>7. x \in Execs
  BY <1>1, <1>4, <1>5 DEF Execs, Steps
<1>8. exec' = [exec EXCEPT ![e] = x]
  BY <1>1, <1>6
<1>9. /\ x.pc = "write" /\ x.todo = Range(page)
      /\ x.seen = exec[e].seen \o page /\ x.again = exec[e].again
  BY <1>1 DEF Execs
<1> QED
  BY <1>3, <1>7, <1>8, <1>9

LEMMA RangeOfConcat ==
  ASSUME NEW S, NEW s \in Seq(S), NEW t \in Seq(S)
  PROVE  Range(s \o t) = Range(s) \cup Range(t)
<1>1. /\ Len(s) \in Nat /\ Len(t) \in Nat /\ s \o t \in Seq(S)
      /\ Len(s \o t) = Len(s) + Len(t)
  OBVIOUS
<1>2. \A i \in 1..Len(s) + Len(t) :
        (s \o t)[i] = IF i <= Len(s) THEN s[i] ELSE t[i - Len(s)]
  OBVIOUS
<1>3. ASSUME NEW r \in Range(s \o t) PROVE r \in Range(s) \cup Range(t)
  <2>1. PICK i \in 1..Len(s) + Len(t) : r = (s \o t)[i]
    BY <1>1 DEF Range
  <2>2. CASE i <= Len(s)
    BY <1>1, <1>2, <2>1, <2>2 DEF Range
  <2>3. CASE ~(i <= Len(s))
    <3>1. i - Len(s) \in 1..Len(t) /\ r = t[i - Len(s)]
      BY <1>1, <1>2, <2>1, <2>3
    <3> QED
      BY <3>1 DEF Range
  <2> QED
    BY <2>2, <2>3
<1>4. ASSUME NEW r \in Range(s) PROVE r \in Range(s \o t)
  <2>1. PICK i \in 1..Len(s) : r = s[i]
    BY DEF Range
  <2>2. i \in 1..Len(s \o t) /\ (s \o t)[i] = r
    BY <1>1, <1>2, <2>1
  <2> QED
    BY <1>1, <2>2 DEF Range
<1>5. ASSUME NEW r \in Range(t) PROVE r \in Range(s \o t)
  <2>1. PICK i \in 1..Len(t) : r = t[i]
    BY DEF Range
  <2>2. i + Len(s) \in 1..Len(s) + Len(t) /\ ~(i + Len(s) <= Len(s))
        /\ i + Len(s) - Len(s) = i
    BY <1>1
  <2>3. (s \o t)[i + Len(s)] = r
    BY <1>2, <2>1, <2>2
  <2> QED
    BY <1>1, <2>2, <2>3 DEF Range
<1> QED
  BY <1>3, <1>4, <1>5

LEMMA ReadKeeps ==
  ASSUME PublishInv, Inv', NEW e \in Runs, Read(e) PROVE PublishInv'
<1>1. CASE Goto(e, "failing")
  BY <1>1, WayOutKeeps DEF Read
<1>2. CASE ~Goto(e, "failing")
  <2>1. PICK x \in Execs, page \in Seq(Records) :
          /\ exec' = [exec EXCEPT ![e] = x]
          /\ x.pc = "write" /\ x.todo = Range(page)
          /\ x.seen = exec[e].seen \o page /\ x.again = exec[e].again
    BY <1>2, ReadTyped DEF PublishInv
  <2>2. exec[e].pc = "read" /\ UNCHANGED <<row, source, graph>>
    BY DEF Read
  <2>3. row[e] \in Rows /\ row' = [row EXCEPT ![e] = row[e]]
    BY <2>2, Facts DEF PublishInv
  <2>4. LeaseInv(row[e], x)
    BY <2>1, <2>2 DEF PublishInv, LeaseInv, Executing, First
  <2>5. PassInv(e, x)
    BY <2>1, <2>2 DEF PublishInv, PassInv, First, Third
  <2>6. exec[e].seen \in Seq(Records)
    BY Facts DEF Execs, PublishInv
  <2>7. Range(x.seen) = Range(exec[e].seen) \cup x.todo
    BY <2>1, <2>6, RangeOfConcat
  <2>8. GraphInv(e, x, graph')
    BY <2>1, <2>2, <2>7 DEF PublishInv, GraphInv, Executing, First
  <2>9. \A d \in Runs : GraphInv(d, exec[d], graph')
    BY <2>2 DEF PublishInv
  <2> QED
    BY <2>1, <2>2, <2>3, <2>4, <2>5, <2>8, <2>9, RunKeeps
<1> QED
  BY <1>1, <1>2

(* A write only ever makes a stamp younger.                                *)
LEMMA WriteKeeps ==
  ASSUME PublishInv, Inv', NEW e \in Runs, Write(e) PROVE PublishInv'
<1>1. exec[e].pc = "write" /\ UNCHANGED <<row, source>>
  BY DEF Write
<1>2. PICK r \in exec[e].todo :
        /\ graph' = [graph EXCEPT ![r] = IF @ < Snapshot(e) THEN Snapshot(e) ELSE @]
        /\ exec' = [exec EXCEPT ![e].todo = @ \ {r}]
  BY DEF Write
<1> DEFINE x == [exec[e] EXCEPT !.todo = @ \ {r}]
<1>3. exec[e] \in Execs /\ r \in Records /\ graph \in [Records -> Stamps]
  BY Facts DEF Execs, PublishInv, Inv
<1>4. x \in Execs
  BY <1>3 DEF Execs
<1>5. exec' = [exec EXCEPT ![e] = x]
  BY <1>2 DEF PublishInv, Inv
<1>6. /\ x.pc = "write" /\ x.todo = exec[e].todo \ {r} /\ x.seen = exec[e].seen
      /\ x.again = exec[e].again
  BY <1>1, <1>3 DEF Execs
<1> HIDE DEF x
<1>7. Snapshot(e) \in Nat /\ \A q \in Records : graph[q] \in Nat
  BY RunsNat, GraphNat DEF PublishInv
<1>8. /\ graph'[r] >= Snapshot(e)
      /\ \A q \in Records : graph'[q] >= graph[q]
      /\ \A q \in Records : q # r => graph'[q] = graph[q]
  BY <1>2, <1>3, <1>7
<1>9. row[e] \in Rows /\ row' = [row EXCEPT ![e] = row[e]]
  BY <1>1, Facts DEF PublishInv
<1>10. LeaseInv(row[e], x)
  BY <1>1, <1>6 DEF PublishInv, LeaseInv
<1>11. PassInv(e, x)
  BY <1>1, <1>6 DEF PublishInv, PassInv, First, Third
<1>12. ASSUME NEW q \in Records, NEW d \in Runs, graph[q] >= Snapshot(d)
       PROVE  graph'[q] >= Snapshot(d)
  <2>1. graph'[q] \in Nat /\ graph[q] \in Nat /\ Snapshot(d) \in Nat
    BY <1>2, <1>3, <1>7, RunsNat
  <2> QED
    BY <1>8, <1>12, <2>1
<1>13. \A d \in Runs : Range(exec[d].seen) \subseteq Records
  BY Facts DEF Execs, Range, PublishInv
<1>14. GraphInv(e, x, graph')
  <2>1. ASSUME Undisturbed(e), NEW q \in Range(x.seen), q \notin x.todo
        PROVE  graph'[q] >= Snapshot(e)
    <3>1. CASE q = r
      BY <1>8, <3>1
    <3>2. CASE q # r
      <4>1. graph[q] >= Snapshot(e)
        BY <1>1, <1>6, <2>1, <3>2 DEF PublishInv, GraphInv, Executing, First
      <4> QED
        BY <1>6, <1>12, <1>13, <2>1, <4>1
    <3> QED
      BY <3>1, <3>2
  <2> QED
    BY <1>6, <2>1 DEF GraphInv
<1>15. ASSUME NEW d \in Runs, d # e PROVE GraphInv(d, exec[d], graph')
  <2>1. ~MayLapse => exec[d].pc \notin Executing
    BY <1>1, <1>15, OneExecutes DEF Executing, First
  <2>2. ASSUME NEW q \in Range(exec[d].seen), graph[q] >= Snapshot(d)
        PROVE  graph'[q] >= Snapshot(d)
    BY <1>12, <1>13, <2>2
  <2> QED
    BY <2>1, <2>2 DEF PublishInv, GraphInv, Executing, Third
<1> QED
  BY <1>1, <1>4, <1>5, <1>9, <1>10, <1>11, <1>14, <1>15, RunKeeps

(* The steps that only lead on or out.                                     *)
LEMMA PlainStepsKeep ==
  ASSUME PublishInv, Inv', NEW e \in Runs,
         \/ Begin(e) \/ StopAtCheck(e) \/ Trouble(e) \/ Written(e) \/ Advance(e)
         \/ PassCheck(e) \/ CleanupFails(e)
  PROVE  PublishInv'
<1>1. UNCHANGED <<row, source, graph>>
  BY DEF Begin, StopAtCheck, Trouble, Written, Advance, PassCheck, CleanupFails
<1>2. exec[e].pc # "done"
  BY DEF Begin, StopAtCheck, Trouble, Written, Advance, PassCheck, CleanupFails, Checked
<1>3. CASE \/ FailOrCancel(e) \/ Return(e)
           \/ Goto(e, "failing") \/ Goto(e, "canceling")
  BY <1>1, <1>2, <1>3, WayOutKeeps
<1>4. CASE Begin(e) /\ Goto(e, "read")
  BY <1>1, <1>4, GoOnKeeps DEF Begin, First, Steps
<1>5. CASE Written(e) /\ exec[e].todo = {} /\ Goto(e, "advance")
  BY <1>1, <1>5, GoOnKeeps DEF Written, Steps
<1>6. CASE Advance(e) /\ (Goto(e, "read") \/ Goto(e, "closing"))
  BY <1>1, <1>6, GoOnKeeps DEF Advance, First, Steps
<1>7. CASE PassCheck(e) /\ exec[e].pc = "closing" /\ Goto(e, "validate")
  BY <1>1, <1>7, GoOnKeeps DEF First, Steps
<1>8. CASE PassCheck(e) /\ exec[e].pc = "agreed" /\ Goto(e, "publish")
  BY <1>1, <1>8, GoOnKeeps DEF Steps
<1> QED
  BY <1>3, <1>4, <1>5, <1>6, <1>7, <1>8 DEF Begin, StopAtCheck, Trouble, Written,
     Advance, PassCheck, CleanupFails

(* A row is given a status while its executor leaves.                      *)
LEMMA OutWithStatusKeeps ==
  ASSUME PublishInv, Inv', NEW e \in Runs, exec[e].pc # "done",
         NEW to \in InFlight \cup Ended, row' = [row EXCEPT ![e].status = to],
         UNCHANGED <<source, graph>>,
         FailOrCancel(e) \/ Return(e) \/ Goto(e, "failing")
  PROVE  PublishInv'
<1>1. PICK s \in Rows : row' = [row EXCEPT ![e] = s] /\ s.lapsed = row[e].lapsed
  BY LeaseUntouched DEF PublishInv
<1>2. \E x \in Execs : exec' = [exec EXCEPT ![e] = x] /\ x.pc \in WaysOut
  BY FailOrCancelTyped, ReturnTyped, OutTyped DEF PublishInv, WaysOut
<1> QED
  BY <1>1, <1>2, OutKeeps

(* The transition that the executor sees: the row and it go on together.   *)
GoesOnAs(e, to, pc) ==
  exec' = [exec EXCEPT
             ![e].status = to, ![e].pc = pc,
             ![e].quiet = @ \/ to = "validating",
             ![e].listed = IF to = "validating" THEN source ELSE @]

LEMMA TransitionTyped ==
  ASSUME Inv, NEW e \in Runs, NEW to \in InFlight, NEW pc \in Steps,
         GoesOnAs(e, to, pc)
  PROVE  \E x \in Execs :
           /\ exec' = [exec EXCEPT ![e] = x]
           /\ x.pc = pc /\ x.status = to /\ x.seen = exec[e].seen
           /\ x.again = exec[e].again /\ x.total = exec[e].total
           /\ x.quiet = (exec[e].quiet \/ to = "validating")
           /\ x.listed = IF to = "validating" THEN source ELSE exec[e].listed
<1> DEFINE quiet == exec[e].quiet \/ to = "validating"
           listed == IF to = "validating" THEN source ELSE exec[e].listed
           x == [exec[e] EXCEPT !.status = to, !.pc = pc, !.quiet = quiet,
                                !.listed = listed]
<1>1. exec[e] \in Execs /\ source \subseteq Records /\ exec \in [Runs -> Execs]
  BY Facts DEF Inv
<1>2. quiet \in BOOLEAN /\ listed \subseteq Records
  BY <1>1 DEF Execs
<1>3. exec' = [exec EXCEPT ![e] = x]
  BY <1>1 DEF Execs, GoesOnAs
<1>4. x \in Execs
  BY <1>1, <1>2 DEF Execs
<1>5. /\ x.pc = pc /\ x.status = to /\ x.seen = exec[e].seen
      /\ x.again = exec[e].again /\ x.total = exec[e].total
      /\ x.quiet = quiet /\ x.listed = listed
  BY <1>1 DEF Execs
<1> HIDE DEF x
<1> QED
  BY <1>3, <1>4, <1>5

LEMMA TransitionKeeps ==
  ASSUME PublishInv, Inv', NEW e \in Runs, ToValidating(e) \/ ToPublishing(e)
  PROVE  PublishInv'
<1>1. PICK to \in {"validating", "publishing"}, pc \in {"recheck", "clean", "complete"} :
        /\ Transition(e, to, pc)
        /\ \/ exec[e].pc = "validate" /\ to = "validating" /\ pc = "recheck"
           \/ /\ exec[e].pc = "publish" /\ to = "publishing"
              /\ pc = IF e \in FullSource THEN "clean" ELSE "complete"
  BY DEF ToValidating, ToPublishing
<1>2. UNCHANGED <<source, graph>> /\ exec[e].pc # "done"
  BY <1>1 DEF ToValidating, ToPublishing
<1>3. CASE FailOrCancel(e) /\ UNCHANGED row
  BY <1>2, <1>3, WayOutKeeps
<1>4. CASE FailOrCancel(e) /\ row' = [row EXCEPT ![e].status = to]
  BY <1>2, <1>4, OutWithStatusKeeps DEF InFlight
<1>5. CASE /\ row' = [row EXCEPT ![e].status = to]
           /\ GoesOnAs(e, to, pc)
  <2>0. to \in InFlight /\ pc \in Steps /\ Inv
    BY DEF PublishInv, InFlight, Steps
  <2>1. PICK x \in Execs :
           /\ exec' = [exec EXCEPT ![e] = x]
           /\ x.pc = pc /\ x.status = to /\ x.seen = exec[e].seen
           /\ x.again = exec[e].again /\ x.total = exec[e].total
           /\ x.quiet = (exec[e].quiet \/ to = "validating")
           /\ x.listed = IF to = "validating" THEN source ELSE exec[e].listed
    BY <1>5, <2>0, TransitionTyped
  <2>2. PICK s \in Rows : /\ row' = [row EXCEPT ![e] = s]
                          /\ s.status = to /\ s.lapsed = row[e].lapsed
    <3>1. to \in InFlight \cup Ended \cup {"queued"}
      BY <2>0
    <3>2. row' = [row EXCEPT ![e].status = to]
      BY <1>5
    <3> QED
      BY <2>0, <3>1, <3>2, LeaseUntouched
  <2>3. LeaseInv(s, x)
    BY <1>1, <2>1, <2>2 DEF PublishInv, LeaseInv, InFlight
  <2>4. CASE to = "validating"
    <3>1. x.again = <<>> /\ exec[e].pc = "validate" /\ x.pc = "recheck"
      BY <1>1, <2>1, <2>4 DEF PublishInv, PassInv, First
    <3>2. Len(Listing) \in Nat
      BY ListingTyped DEF PublishInv, Inv
    <3>3. PassInv(e, x)
      BY <2>1, <2>4, <3>1, <3>2 DEF PassInv, First, Third
    <3>4. GraphInv(e, x, graph')
      BY <1>2, <2>1, <3>1 DEF PublishInv, GraphInv, Executing, First
    <3> QED
      BY <1>2, <2>1, <2>2, <2>3, <3>3, <3>4, RunKeeps DEF PublishInv
  <2>5. CASE to = "publishing"
    <3>1. /\ exec[e].pc = "publish" /\ x.pc \in {"clean", "complete"}
          /\ x.pc = "clean" <=> e \in FullSource
      BY <1>1, <2>1, <2>5
    <3>2. PassInv(e, x)
      BY <2>1, <2>5, <3>1 DEF PublishInv, PassInv, First
    <3>3. GraphInv(e, x, graph')
      BY <1>2, <2>1, <3>1 DEF PublishInv, GraphInv, Executing, Second
    <3> QED
      BY <1>2, <2>1, <2>2, <2>3, <3>2, <3>3, RunKeeps DEF PublishInv
  <2> QED
    BY <2>4, <2>5
<1> QED
  BY <1>1, <1>3, <1>4, <1>5 DEF Transition, GoesOnAs

LEMMA EndsKeep ==
  ASSUME PublishInv, Inv', NEW e \in Runs,
         \/ Complete(e)
         \/ End(e, "failing", "failed") \/ End(e, "canceling", "canceled")
  PROVE  PublishInv'
<1>1. CASE Complete(e)
  BY <1>1, WayOutKeeps, OutWithStatusKeeps DEF Complete, Ended
<1>2. CASE End(e, "failing", "failed") \/ End(e, "canceling", "canceled")
  BY <1>2, WayOutKeeps, OutWithStatusKeeps DEF End, Ended
<1> QED
  BY <1>1, <1>2

(* A page of the second pass, as it is taken up.                           *)
LEMMA RecheckTyped ==
  ASSUME Inv, NEW e \in Runs, Recheck(e), ~FailOrCancel(e)
  PROVE  \E x \in Execs :
           /\ exec' = [exec EXCEPT ![e] = x]
           /\ x.again = exec[e].again \o PageAt(Len(exec[e].again))
           /\ x.pc = IF Len(x.again) = Len(Listing) THEN "agreed" ELSE "recheck"
           /\ x.pc = "agreed" => x.again = x.seen
           /\ Len(x.again) <= Len(Listing)
           /\ x.seen = exec[e].seen /\ x.quiet = exec[e].quiet
           /\ x.listed = exec[e].listed
<1> DEFINE page == PageAt(Len(exec[e].again))
           again == exec[e].again \o page
           total == exec[e].total
           pc == IF Len(again) = total THEN "agreed" ELSE exec[e].pc
           x == [exec[e] EXCEPT !.again = again, !.pc = pc]
<1>1. exec[e] \in Execs /\ source \subseteq Records /\ exec \in [Runs -> Execs]
  BY Facts DEF Inv
<1>2. exec[e].again \in Seq(Records) /\ Len(exec[e].again) \in Nat
  BY <1>1 DEF Execs
<1>3. page \in Seq(Records)
  BY <1>1, <1>2, PageTyped
<1>4. again \in Seq(Records) /\ Len(again) = Len(exec[e].again) + Len(page)
  BY <1>2, <1>3
<1>5. /\ TotalKept(total) /\ PageFits(exec[e].again, total, page)
      /\ Len(again) = total => SameIdentities(again, exec[e].seen)
      /\ exec' = [exec EXCEPT ![e].again = again,
                              ![e].pc = IF Len(again) = total THEN "agreed" ELSE @]
      /\ exec[e].pc = "recheck"
  BY DEF Recheck
<1>6. exec' = [exec EXCEPT ![e] = x]
  BY <1>1, <1>5
<1>7. /\ Len(again) <= Len(Listing) /\ Len(Listing) = total
      /\ Len(again) = total => again = exec[e].seen
  BY <1>4, <1>5 DEF PageFits, TotalKept, SameIdentities
<1> HIDE DEF again, pc
<1>8. pc = IF Len(again) = Len(Listing) THEN "agreed" ELSE "recheck"
  BY <1>5, <1>7 DEF pc
<1>9. x \in Execs
  BY <1>1, <1>4, <1>8 DEF Execs, Steps
<1>10. /\ x.pc = pc /\ x.again = again /\ x.seen = exec[e].seen
       /\ x.quiet = exec[e].quiet /\ x.listed = exec[e].listed
  BY <1>1 DEF Execs
<1>11. again = exec[e].again \o PageAt(Len(exec[e].again))
  BY DEF again
<1> HIDE DEF x
<1> QED
  BY <1>6, <1>7, <1>8, <1>9, <1>10, <1>11

(* The page behind a part of the listing that begins it goes on with it.   *)
LEMMA PagesContinue ==
  ASSUME source \subseteq Records, NEW read \in Seq(Records),
         Len(read) <= Len(Listing), \A i \in 1..Len(read) : read[i] = Listing[i]
  PROVE  \A i \in 1..Len(read \o PageAt(Len(read))) :
           (read \o PageAt(Len(read)))[i] = Listing[i]
<1> DEFINE k == Len(read)
           end == k + PageSize
           last == IF end < Len(Listing) THEN end ELSE Len(Listing)
           page == SubSeq(Listing, k + 1, last)
<1>1. Listing \in Seq(Records) /\ Len(Listing) \in Nat /\ k \in Nat
  BY ListingTyped
<1>2. last \in Nat /\ k <= last /\ last <= Len(Listing)
  BY <1>1, WorkerAssumption DEF WorkerAssumption
<1>3. page = PageAt(k)
  BY DEF PageAt
<1>4. /\ page \in Seq(Records) /\ Len(page) = last - k
      /\ \A j \in 1..(last - k) : page[j] = Listing[k + j]
  <2>1. \A i \in k + 1 .. last : Listing[i] \in Records
    BY <1>1, <1>2
  <2>2. /\ page \in Seq(Records)
        /\ Len(page) = IF k + 1 <= last THEN last - (k + 1) + 1 ELSE 0
        /\ \A i \in 1..last - (k + 1) + 1 : page[i] = Listing[k + 1 + i - 1]
    BY <1>1, <1>2, <2>1, SubSeqProperties
  <2> QED
    BY <1>1, <1>2, <2>2
<1> HIDE DEF page
<1>5. ASSUME NEW i \in 1..Len(read \o page)
      PROVE  (read \o page)[i] = Listing[i]
  <2>1. /\ Len(read \o page) = k + (last - k)
        /\ (read \o page)[i] = IF i <= k THEN read[i] ELSE page[i - k]
    BY <1>1, <1>2, <1>4
  <2>2. CASE i <= k
    BY <2>1, <2>2
  <2>3. CASE ~(i <= k)
    <3>1. i - k \in 1..(last - k) /\ k + (i - k) = i
      BY <1>1, <1>2, <2>1, <2>3
    <3> QED
      BY <1>4, <2>1, <2>3, <3>1
  <2> QED
    BY <2>2, <2>3
<1> QED
  BY <1>3, <1>5

LEMMA RecheckKeeps ==
  ASSUME PublishInv, Inv', NEW e \in Runs, Recheck(e) PROVE PublishInv'
<1>1. CASE FailOrCancel(e)
  BY <1>1, WayOutKeeps DEF Recheck
<1>2. CASE ~FailOrCancel(e)
  <2>1. PICK x \in Execs :
           /\ exec' = [exec EXCEPT ![e] = x]
           /\ x.again = exec[e].again \o PageAt(Len(exec[e].again))
           /\ x.pc = IF Len(x.again) = Len(Listing) THEN "agreed" ELSE "recheck"
           /\ x.pc = "agreed" => x.again = x.seen
           /\ Len(x.again) <= Len(Listing)
           /\ x.seen = exec[e].seen /\ x.quiet = exec[e].quiet
           /\ x.listed = exec[e].listed
    BY <1>2, RecheckTyped DEF PublishInv
  <2>2. exec[e].pc = "recheck" /\ UNCHANGED <<row, source, graph>>
    BY DEF Recheck
  <2>3. row[e] \in Rows /\ row' = [row EXCEPT ![e] = row[e]]
    BY <2>2, Facts DEF PublishInv
  <2>4. LeaseInv(row[e], x)
    BY <2>1, <2>2 DEF PublishInv, LeaseInv, Executing, Second
  <2>5. source \subseteq Records /\ exec[e].again \in Seq(Records)
    BY Facts DEF PublishInv, Inv, Execs
  <2>6. ASSUME x.quiet
        PROVE  x.listed = source /\ \A i \in 1..Len(x.again) : x.again[i] = Listing[i]
    BY <2>1, <2>2, <2>5, <2>6, PagesContinue DEF PublishInv, PassInv
  <2>7. ASSUME x.quiet, x.pc = "agreed"
        PROVE  x.listed \subseteq Range(x.seen)
    <3>1. Listing \in Seq(Records) /\ Range(Listing) = source
      BY <2>5, ListingTyped
    <3>2. x.again = x.seen /\ Len(x.again) = Len(Listing)
      BY <2>1, <2>7
    <3>3. \A i \in DOMAIN Listing : i \in DOMAIN x.seen /\ x.seen[i] = Listing[i]
      BY <2>6, <2>7, <3>1, <3>2 DEF Execs
    <3> QED
      BY <2>6, <2>7, <3>1, <3>3 DEF Range
  <2>8. PassInv(e, x)
    BY <2>1, <2>6, <2>7 DEF PassInv, First, Third
  <2>9. GraphInv(e, x, graph')
    BY <2>1, <2>2 DEF PublishInv, GraphInv, Executing, Second
  <2> QED
    BY <2>1, <2>2, <2>3, <2>4, <2>8, <2>9, RunKeeps DEF PublishInv
<1> QED
  BY <1>1, <1>2

LEMMA MatchKeeps ==
  ASSUME PublishInv, Inv', NEW e \in Runs, Match(e) PROVE PublishInv'
<1> DEFINE pc == IF Unseen(e) = {} THEN "complete" ELSE "delete"
           x == [exec[e] EXCEPT !.todo = Unseen(e), !.pc = pc]
<1>1. exec[e].pc = "clean" /\ UNCHANGED <<row, source, graph>>
  BY DEF Match
<1>2. exec[e] \in Execs /\ Unseen(e) \subseteq Records
  BY Facts DEF Unseen, PublishInv
<1>3. exec' = [exec EXCEPT ![e] = x]
  BY DEF Match, Inv, PublishInv
<1>4. x \in Execs
  BY <1>2 DEF Execs, Steps
<1>5. /\ x.pc = pc /\ x.todo = Unseen(e) /\ x.seen = exec[e].seen
      /\ x.quiet = exec[e].quiet /\ x.listed = exec[e].listed
  BY <1>2 DEF Execs
<1> HIDE DEF x
<1>6. row[e] \in Rows /\ row' = [row EXCEPT ![e] = row[e]]
  BY <1>1, Facts DEF PublishInv
<1>7. LeaseInv(row[e], x)
  BY <1>1, <1>5 DEF PublishInv, LeaseInv, Executing, Third
<1>8. PassInv(e, x)
  BY <1>1, <1>5 DEF PublishInv, PassInv, First, Third
<1>9. Snapshot(e) \in Nat /\ \A r \in Records : graph[r] \in Nat
  BY RunsNat, GraphNat DEF PublishInv
<1>10. Range(exec[e].seen) \subseteq Records
  BY Facts DEF Execs, Range, PublishInv
<1>11. Undisturbed(e) => \A r \in Range(x.seen) : graph[r] >= Snapshot(e)
  BY <1>1, <1>5 DEF PublishInv, GraphInv, Executing, Third
<1>12. Undisturbed(e) => Unseen(e) \cap Range(x.seen) = {}
  BY <1>5, <1>9, <1>10, <1>11 DEF Unseen
<1>13. Unseen(e) = {} => \A r \in Records : graph[r] = Absent \/ graph[r] >= Snapshot(e)
  BY <1>9 DEF Unseen
<1>14. GraphInv(e, x, graph')
  BY <1>1, <1>5, <1>11, <1>12, <1>13 DEF GraphInv
<1> QED
  BY <1>1, <1>3, <1>4, <1>6, <1>7, <1>8, <1>14, RunKeeps DEF PublishInv

LEMMA DeleteKeeps ==
  ASSUME PublishInv, Inv', NEW e \in Runs, Delete(e) PROVE PublishInv'
<1> DEFINE x == [exec[e] EXCEPT !.pc = "clean", !.todo = {}]
<1>1. exec[e].pc = "delete" /\ UNCHANGED <<row, source>>
  BY DEF Delete
<1>2. exec[e] \in Execs
  BY Facts DEF PublishInv
<1>3. exec' = [exec EXCEPT ![e] = x]
  BY DEF Delete, Inv, PublishInv
<1>4. x \in Execs
  BY <1>2 DEF Execs, Steps
<1>5. /\ x.pc = "clean" /\ x.seen = exec[e].seen
      /\ x.quiet = exec[e].quiet /\ x.listed = exec[e].listed
  BY <1>2 DEF Execs
<1> HIDE DEF x
<1>6. row[e] \in Rows /\ row' = [row EXCEPT ![e] = row[e]]
  BY <1>1, Facts DEF PublishInv
<1>7. LeaseInv(row[e], x)
  BY <1>1, <1>5 DEF PublishInv, LeaseInv, Executing, Third
<1>8. PassInv(e, x)
  BY <1>1, <1>5 DEF PublishInv, PassInv, First, Third
<1>9. \A r \in Records : graph'[r] = IF r \in exec[e].todo THEN Absent ELSE graph[r]
  BY DEF Delete
<1>10. \A d \in Runs : Range(exec[d].seen) \subseteq Records
  BY Facts DEF Execs, Range, PublishInv
<1>11. GraphInv(e, x, graph')
  <2>1. ASSUME Undisturbed(e), NEW r \in Range(x.seen) PROVE graph'[r] >= Snapshot(e)
    <3>1. r \notin exec[e].todo /\ graph[r] >= Snapshot(e)
      BY <1>1, <1>5, <2>1 DEF PublishInv, GraphInv, Executing, Third
    <3> QED
      BY <1>5, <1>9, <1>10, <3>1
  <2> QED
    BY <1>5, <2>1 DEF GraphInv
<1>12. ASSUME NEW d \in Runs, d # e PROVE GraphInv(d, exec[d], graph')
  <2>1. Undisturbed(d) => exec[d].pc \notin Executing
    BY <1>1, <1>12, OthersDelete
  <2>2. ~MayLapse => Undisturbed(d)
    BY DEF Undisturbed
  <2> QED
    BY <2>1, <2>2 DEF GraphInv, Executing, Third
<1> QED
  BY <1>1, <1>3, <1>4, <1>6, <1>7, <1>8, <1>11, <1>12, RunKeeps

LEMMA StepPublishes ==
  ASSUME PublishInv, Inv', NEW e \in Runs, Step(e) PROVE PublishInv'
BY PlainStepsKeep, ReadKeeps, WriteKeeps, TransitionKeeps, RecheckKeeps, MatchKeeps,
   DeleteKeeps, EndsKeep DEF Step

-----------------------------------------------------------------------------
(* The environment.                                                        *)
LEMMA RowKeeps ==
  ASSUME PublishInv, Inv', NEW e \in Runs, NEW s \in Rows,
         row' = [row EXCEPT ![e] = s], UNCHANGED <<exec, source, graph>>,
         LeaseInv(s, exec[e])
  PROVE  PublishInv'
<1>1. exec[e] \in Execs /\ exec' = [exec EXCEPT ![e] = exec[e]]
  BY Facts DEF PublishInv
<1> QED
  BY <1>1, RunKeeps DEF PublishInv

LEMMA EnvironmentPublishes ==
  ASSUME PublishInv, Inv', NEW e \in Runs, Environment(e) PROVE PublishInv'
<1>0. exec[e] \in Execs /\ row[e] \in Rows /\ RunInv(row[e], exec[e])
  BY Facts DEF PublishInv
<1>1. CASE Enqueue(e)
  <2>1. PICK s \in Rows : row' = [row EXCEPT ![e] = s] /\ s.lapsed = row[e].lapsed
    BY <1>1, LeaseUntouched DEF Enqueue, PublishInv
  <2>2. exec[e].pc = "idle"
    BY <1>0, <1>1, NotExecutingTyped DEF RunInv, Enqueue
  <2>3. LeaseInv(s, exec[e])
    BY <2>1, <2>2 DEF PublishInv, LeaseInv, Executing, First, Second, Third
  <2> QED
    BY <1>1, <2>1, <2>3, RowKeeps DEF Enqueue
<1>2. CASE Claim(e)
  <2>1. PICK s \in Rows : /\ row' = [row EXCEPT ![e] = s]
                          /\ s.status = "running" /\ s.lapsed = row[e].lapsed
    <3>1. "running" \in InFlight \cup Ended \cup {"queued"} /\ Inv
      BY DEF InFlight, PublishInv
    <3>2. row' = [row EXCEPT ![e].status = "running"]
      BY <1>2 DEF Claim
    <3> QED
      BY <3>1, <3>2, LeaseUntouched
  <2>2. PICK x \in Execs : /\ exec' = [exec EXCEPT ![e] = x]
                           /\ x = [exec[e] EXCEPT !.pc = "begin"]
    BY <1>2, GotoTyped DEF Claim, Steps, PublishInv
  <2>3. exec[e] = NotExecuting
    BY <1>0, <1>2 DEF RunInv, Claim
  <2>4. x.pc = "begin" /\ x.seen = <<>> /\ x.again = <<>> /\ exec[e].pc = "idle"
    BY <2>2, <2>3 DEF NotExecuting
  <2>5. LeaseInv(s, x)
    BY <2>1, <2>4 DEF PublishInv, LeaseInv, InFlight
  <2>6. PassInv(e, x)
    BY <2>4 DEF PassInv, Third
  <2>7. GraphInv(e, x, graph')
    BY <2>4 DEF GraphInv, Range
  <2> QED
    BY <1>2, <2>1, <2>2, <2>5, <2>6, <2>7, RunKeeps DEF Claim, PublishInv
<1>3. CASE Cancel(e)
  <2> DEFINE to == IF row[e].status = "queued" THEN "canceled" ELSE row[e].status
             s == [row[e] EXCEPT !.cancel = TRUE, !.status = to]
  <2>1. row' = [row EXCEPT ![e] = s]
    <3>1. row \in [Runs -> Rows]
      BY DEF Inv, PublishInv
    <3> QED
      BY <1>0, <1>3, <3>1 DEF Cancel, Rows
  <2>2. s \in Rows /\ s.lapsed = row[e].lapsed /\ s.status = to
    BY <1>0, <1>3 DEF Rows, InFlight, Ended, Cancel
  <2>3. row[e].status = "queued" => exec[e].pc = "idle"
    BY <1>0, NotExecutingTyped DEF RunInv
  <2> HIDE DEF s
  <2>4. LeaseInv(s, exec[e])
    BY <2>2, <2>3 DEF PublishInv, LeaseInv, Executing, First, Second, Third
  <2> QED
    BY <1>3, <2>1, <2>2, <2>4, RowKeeps DEF Cancel
<1>4. CASE Lapse(e)
  <2> DEFINE s == [row[e] EXCEPT !.lapsed = TRUE]
  <2>1. s \in Rows /\ s.status = row[e].status
    BY <1>0 DEF Rows
  <2>2. row' = [row EXCEPT ![e] = s]
    BY <1>4 DEF Lapse, Inv, PublishInv
  <2> HIDE DEF s
  <2>3. LeaseInv(s, exec[e])
    BY <1>4, <2>1 DEF Lapse, LeaseInv, Executing, First, Second, Third
  <2> QED
    BY <1>4, <2>1, <2>2, <2>3, RowKeeps DEF Lapse
<1>5. CASE Expire(e)
  <2>1. PICK to \in Ended : row' = [row EXCEPT ![e].status = to]
    <3>1. (IF row[e].cancel THEN "canceled" ELSE "failed") \in Ended
      BY DEF Ended
    <3> QED
      BY <1>5, <3>1 DEF Expire
  <2>2. PICK s \in Rows : row' = [row EXCEPT ![e] = s] /\ s.lapsed = row[e].lapsed
    BY <2>1, LeaseUntouched DEF PublishInv
  <2>3. row[e].lapsed
    BY <1>5 DEF Expire
  <2>4. LeaseInv(s, exec[e])
    BY <2>2, <2>3 DEF PublishInv, LeaseInv, Executing, First, Second, Third
  <2> QED
    BY <1>5, <2>2, <2>4, RowKeeps DEF Expire
<1>6. CASE HeartbeatFails(e) \/ Shutdown(e)
  <2>1. PICK ctx \in {"lost", "shutdown"} : exec' = [exec EXCEPT ![e].ctx = ctx]
    BY <1>6 DEF HeartbeatFails, Shutdown
  <2> DEFINE x == [exec[e] EXCEPT !.ctx = ctx]
  <2>2. x \in Execs
    BY <1>0 DEF Execs
  <2>3. exec' = [exec EXCEPT ![e] = x]
    BY <2>1 DEF Inv, PublishInv
  <2>4. /\ x.pc = exec[e].pc /\ x.seen = exec[e].seen /\ x.again = exec[e].again
        /\ x.todo = exec[e].todo /\ x.listed = exec[e].listed /\ x.quiet = exec[e].quiet
    BY <1>0 DEF Execs
  <2> HIDE DEF x
  <2>5. row' = [row EXCEPT ![e] = row[e]] /\ UNCHANGED <<source, graph>>
    BY <1>6, Facts DEF HeartbeatFails, Shutdown, PublishInv
  <2>6. LeaseInv(row[e], x) /\ PassInv(e, x) /\ GraphInv(e, x, graph')
    BY <2>4, <2>5 DEF PublishInv, LeaseInv, PassInv, GraphInv
  <2> QED
    BY <1>0, <2>2, <2>3, <2>5, <2>6, RunKeeps DEF PublishInv
<1> QED
  BY <1>1, <1>2, <1>3, <1>4, <1>5, <1>6 DEF Environment

LEMMA SourcePublishes ==
  ASSUME PublishInv, Inv', NEW r \in Records, SourceChanges(r) PROVE PublishInv'
<1>1. row' = row /\ graph' = graph
  BY DEF SourceChanges
<1>2. ASSUME NEW e \in Runs
      PROVE  (LeaseInv(row[e], exec[e]) /\ PassInv(e, exec[e]) /\ GraphInv(e, exec[e], graph))'
  <2>1. exec[e] \in Execs
    BY Facts DEF PublishInv
  <2>2. CASE exec[e].pc # "recheck"
    <3>1. exec'[e] = exec[e]
      BY <2>2 DEF SourceChanges
    <3> QED
      BY <1>1, <2>2, <3>1 DEF PublishInv, LeaseInv, PassInv, GraphInv
  <2>3. CASE exec[e].pc = "recheck"
    <3>1. exec'[e] = [exec[e] EXCEPT !.quiet = FALSE]
      BY <2>3 DEF SourceChanges
    <3>2. /\ exec'[e].pc = "recheck" /\ ~exec'[e].quiet
          /\ exec'[e].seen = exec[e].seen
      BY <2>1, <2>3, <3>1 DEF Execs
    <3>3. LeaseInv(row[e], exec[e])'
      BY <1>1, <2>3, <3>2 DEF PublishInv, LeaseInv
    <3>4. PassInv(e, exec[e])'
      BY <3>2 DEF PassInv, First, Third
    <3>5. GraphInv(e, exec[e], graph)'
      BY <1>1, <2>3, <3>2 DEF PublishInv, GraphInv
    <3> QED
      BY <3>3, <3>4, <3>5
  <2> QED
    BY <2>2, <2>3
<1> QED
  BY <1>2 DEF PublishInv

LEMMA NextPublishes == ASSUME PublishInv, [Next]_vars PROVE PublishInv'
<1>1. Inv'
  BY NextKeeps DEF PublishInv
<1>2. CASE UNCHANGED vars
  <2>1. Listing' = Listing
    BY <1>2 DEF vars, Listing
  <2> QED
    BY <1>1, <1>2, <2>1 DEF vars, PublishInv, LeaseInv, PassInv, GraphInv
<1> QED
  BY <1>1, <1>2, StepPublishes, EnvironmentPublishes, SourcePublishes DEF Next

LEMMA InitPublishes == Init => PublishInv
<1>1. SUFFICES ASSUME Init PROVE PublishInv
  OBVIOUS
<1>2. ASSUME NEW e \in Runs
      PROVE  LeaseInv(row[e], exec[e]) /\ PassInv(e, exec[e]) /\ GraphInv(e, exec[e], graph)
  <2>1. exec[e].pc = "idle" /\ exec[e].again = <<>> /\ ~row[e].lapsed
    BY <1>1 DEF Init, NotExecuting
  <2> QED
    BY <2>1 DEF LeaseInv, PassInv, GraphInv, Executing, First, Second, Third
<1> QED
  BY <1>1, <1>2, InitKeeps DEF PublishInv

LEMMA Publication == Spec => []PublishInv
BY InitPublishes, NextPublishes, PTL DEF Spec

-----------------------------------------------------------------------------
LEMMA OnlyCleanupDeletes ==
  ASSUME PublishInv, [Next]_vars, NEW e \in Runs, NEW r \in Records,
         exec[e].pc = "delete", exec'[e] # exec[e],
         graph[r] # Absent, graph'[r] = Absent
  PROVE  r \in exec[e].todo
<1>1. ASSUME NEW d \in Runs, Write(d)
      PROVE  FALSE
  <2>1. PICK q \in exec[d].todo : graph' = [graph EXCEPT ![q] =
                                     IF @ < Snapshot(d) THEN Snapshot(d) ELSE @]
    BY <1>1 DEF Write
  <2>2. Snapshot(d) # Absent
    BY RunsNat, WorkerAssumption DEF Snapshot, Absent, WorkerAssumption
  <2> QED
    BY <2>1, <2>2 DEF PublishInv, Inv
<1>2. ASSUME NEW d \in Runs, Delete(d)
      PROVE  r \in exec[e].todo
  <2>1. d = e
    BY <1>2 DEF Delete, PublishInv, Inv
  <2> QED
    BY <1>2, <2>1 DEF Delete
<1>3. ASSUME NEW d \in Runs, Step(d) \/ Environment(d), ~Write(d), ~Delete(d)
      PROVE  graph' = graph
  BY <1>3 DEF Step, Begin, StopAtCheck, Trouble, Read, Written, Advance, PassCheck,
     ToValidating, Recheck, ToPublishing, Match, CleanupFails, Complete, End,
     Environment, Enqueue, Claim, Cancel, Lapse, Expire, HeartbeatFails, Shutdown
<1>4. ASSUME NEW q \in Records, SourceChanges(q)
      PROVE  graph' = graph
  BY <1>4 DEF SourceChanges
<1> QED
  BY <1>1, <1>2, <1>3, <1>4 DEF Next, vars

(* Cleanup deletes nothing that the source lists, if the source was quiet  *)
(* during the second pass (validateEntitySnapshot,                         *)
(* DeleteOrphanVerticesNotSeen): as long as no executor outlives its       *)
(* lease, or no other run cleans up.  Of two executors that have outlived  *)
(* theirs, one could delete what was just written and the other write it   *)
(* as of its own, older snapshot.                                          *)
THEOREM CleanupSpares ==
  ASSUME ~MayLapse \/ \A d, e \in FullSource : d = e
  PROVE  Spec => CleanupSparesListed
<1>1. ASSUME PublishInv, [Next]_vars, NEW e \in Runs, NEW r \in Records,
             exec[e].pc = "delete", exec'[e] # exec[e],
             graph[r] # Absent, graph'[r] = Absent, exec[e].quiet
      PROVE  r \notin exec[e].listed
  <2>1. r \in exec[e].todo
    BY <1>1, OnlyCleanupDeletes
  <2>2. Undisturbed(e)
    BY <1>1 DEF PublishInv, PassInv, Undisturbed
  <2>3. exec[e].listed \subseteq Range(exec[e].seen)
    BY <1>1 DEF PublishInv, PassInv, Third
  <2>4. exec[e].todo \cap Range(exec[e].seen) = {}
    BY <1>1, <2>2 DEF PublishInv, GraphInv
  <2> QED
    BY <2>1, <2>3, <2>4
<1>2. PublishInv /\ [Next]_vars =>
        [\A e \in Runs, r \in Records :
           /\ exec[e].pc = "delete"
           /\ exec'[e] # exec[e]
           /\ graph[r] # Absent
           /\ graph'[r] = Absent
           /\ exec[e].quiet
           => r \notin exec[e].listed]_vars
  BY <1>1
<1> QED
  BY <1>2, Publication, PTL DEF Spec, CleanupSparesListed

LEMMA OnlyCompletionSucceeds ==
  ASSUME PublishInv, [Next]_vars, NEW e \in Runs,
         row[e].status # "succeeded", row'[e].status = "succeeded"
  PROVE  exec[e].pc = "complete"
<1>1. row \in [Runs -> Rows] /\ row[e] \in Rows
  BY DEF PublishInv, Inv
<1>2. ASSUME NEW d \in Runs, NEW to, row' = [row EXCEPT ![d].status = to]
      PROVE  d = e /\ to = "succeeded"
  BY <1>1, <1>2 DEF Rows
<1>3. ASSUME NEW d \in Runs, Step(d)
      PROVE  exec[e].pc = "complete"
  <2>1. CASE UNCHANGED row
    BY <1>1, <2>1
  <2>2. CASE \E to : row' = [row EXCEPT ![d].status = to] /\ to \in {"validating", "publishing", "failed", "canceled"}
    BY <1>2, <2>2
  <2>3. CASE Complete(d) /\ row' = [row EXCEPT ![d].status = "succeeded"]
    BY <1>2, <2>3 DEF Complete
  <2>4. CASE ToValidating(d) \/ ToPublishing(d)
    <3>1. PICK to \in {"validating", "publishing"} :
            UNCHANGED row \/ row' = [row EXCEPT ![d].status = to]
      BY <2>4 DEF ToValidating, ToPublishing, Transition
    <3> QED
      BY <2>1, <2>2, <3>1
  <2>5. CASE Complete(d)
    BY <2>1, <2>3, <2>5 DEF Complete
  <2>6. CASE End(d, "failing", "failed") \/ End(d, "canceling", "canceled")
    BY <2>1, <2>2, <2>6 DEF End
  <2> QED
    BY <1>3, <2>1, <2>4, <2>5, <2>6 DEF Step, Begin, StopAtCheck, Trouble, Read, Write,
       Written, Advance, PassCheck, Recheck, Match, Delete, CleanupFails
<1>4. ASSUME NEW d \in Runs, Environment(d)
      PROVE  FALSE
  <2>1. CASE Cancel(d)
    <3>1. row'[e].status \in {row[e].status, "canceled"}
      BY <1>1, <2>1 DEF Cancel, Rows
    <3> QED
      BY <3>1
  <2>2. CASE Lapse(d)
    BY <1>1, <2>2 DEF Lapse, Rows
  <2>3. CASE Expire(d)
    BY <1>2, <2>3 DEF Expire
  <2> QED
    BY <1>2, <1>4, <2>1, <2>2, <2>3 DEF Environment, Enqueue, Claim, HeartbeatFails, Shutdown
<1> QED
  BY <1>3, <1>4 DEF Next, SourceChanges, vars

(* A run that succeeds has published what it read, and a full collection   *)
(* has left nothing older (executeClaimed, CompleteCheckpointAndRun), as   *)
(* long as no executor outlives its lease.                                 *)
THEOREM PublishesExactly ==
  ASSUME ~MayLapse
  PROVE  Spec => PublishedIsExact
<1>1. ASSUME PublishInv, [Next]_vars, NEW e \in Runs, NEW r \in Records,
             row[e].status # "succeeded", row'[e].status = "succeeded"
      PROVE  \/ graph[r] >= Snapshot(e)
             \/ r \notin Range(exec[e].seen) /\ (e \in FullSource => graph[r] = Absent)
  <2>1. exec[e].pc = "complete"
    BY <1>1, OnlyCompletionSucceeds
  <2> QED
    BY <1>1, <2>1 DEF PublishInv, GraphInv, Undisturbed, Executing, Third
<1>2. PublishInv /\ [Next]_vars =>
        [\A e \in Runs :
           row[e].status # "succeeded" /\ row'[e].status = "succeeded" =>
             \A r \in Records :
               \/ graph[r] >= Snapshot(e)
               \/ /\ r \notin Range(exec[e].seen)
                  /\ e \in FullSource => graph[r] = Absent]_vars
  BY <1>1
<1> QED
  BY <1>2, Publication, PTL DEF Spec, PublishedIsExact
=============================================================================
